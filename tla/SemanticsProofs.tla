---------------------------- MODULE SemanticsProofs ----------------------------
(***************************************************************************)
(* The executor runs every script whose marks agree with its code (module  *)
(* Marks) the way ScriptSemantics interprets it, whatever the script, the  *)
(* timer and the number of values: theorem SemanticsImplemented.           *)
(*                                                                         *)
(* The inductive invariant SemInv ties the state of a run to what the      *)
(* marks say of the node that is visited next: the entries of the stack    *)
(* are those of the nodes that wait there (WaitInv), a name that is read   *)
(* before it is assigned again holds the value that it was assigned last,  *)
(* or nothing while that is still the value of its file (ValInv), and each *)
(* graph in the cache was made from the cells that its field has now, of a *)
(* name that is not overwritten while it is kept (CacheInv).  For every    *)
(* kind of node, a lemma ...Visits says what its visit does to the stack,  *)
(* to the names and to the cache, and a lemma ...Means that the visit is a *)
(* step of the interpreter.  HeldInv, on its own, is the converse of       *)
(* ValInv: what is held has a reason to be.                                *)
(***************************************************************************)
EXTENDS ExecutorProofs

-------------------------------------------------------------------------------
(* The stack at each node *)

\* Every script that is run has marks that agree with its code.
AllConsistent == \A p \in DOMAIN Script : Consistent(Script[p])

\* The nodes that the entries of the stack come from, at each node of script p.
Waits(p) == Waiting(Script[p].code)

\* The entries of the stack are those of the nodes that wait for them.
Matches(p, w, s) ==
  Len(s) = Len(w) /\ \A a \in 1 .. Len(s) : Shows(p, w[a], s[a])

\* What waits on the stack is what the nodes visited before have left there.
WaitInv ==
  status = "running" =>
    IF cur = 0 THEN rte.stack = << >> ELSE Matches(prog, Waits(prog)[cur], rte.stack)

\* What is known of a consistent script.
LEMMA ScriptBalanced ==
  ASSUME AllConsistent, NEW p \in DOMAIN Script
  PROVE  /\ Balanced(Script[p].code, Waits(p))
         /\ UsesKept(Script[p], Waits(p), LiveIn(Script[p].code), Names)
         /\ UsesEnd(Script[p], Waits(p), Names)
         /\ EnableCache => GraphsDeleted(Script[p], Waits(p), GraphsIn(Script[p], Waits(p)))
<1>1. Consistent(Script[p])
  BY DEF AllConsistent
<1>2. QED
  BY <1>1 DEF Consistent, Waits

\* The hypotheses of the theorems of ExecutorProofs.
LEMMA ConsistentScripts ==
  ASSUME AllConsistent
  PROVE  NoNamesConverted /\ NoOperandTwice /\ NoSelfAssignment
<1>1. \A p \in DOMAIN Script :
        NoNameConverted(Script[p]) /\ NoNameTwice(Script[p]) /\ NoSelfAssigned(Script[p])
  BY DEF AllConsistent, Consistent
<1>2. QED
  BY <1>1 DEF NoNamesConverted, NoOperandTwice, NoSelfAssignment

\* A node takes and leaves a number of entries.
LEMMA TakesType ==
  ASSUME NEW c, NEW i \in 1 .. Len(c), WellFormedNode(c, i)
  PROVE  Takes(c, i) \in Nat /\ Leaves(c, i) \in Nat
<1>1. c[i].op = "expr" => c[i].k \in 0 .. 2 /\ c[i].r \in 1 .. 2
  BY DEF WellFormedNode, WellFormedExpr
<1>2. c[i].op = "ass" => Len(c[i].lhs) \in 1 .. 2
  BY DEF WellFormedNode
<1>3. Takes(c, i) \in Nat
  BY <1>1, <1>2 DEF Takes
<1>4. Leaves(c, i) \in Nat
  BY <1>1 DEF Leaves
<1>5. QED
  BY <1>3, <1>4

\* The entries below the k highest ones.
LEMMA LowerPart ==
  ASSUME NEW S, NEW s \in Seq(S), NEW k \in Nat, k <= Len(s)
  PROVE  /\ Below(s, k) \in Seq(S) /\ Len(Below(s, k)) = Len(s) - k
         /\ \A a \in 1 .. Len(s) - k : Below(s, k)[a] = s[a]
<1> DEFINE n == Len(s)
<1>1. n \in Nat /\ n - k \in Nat
  OBVIOUS
<1>2. \A a \in 1 .. n : s[a] \in S
  OBVIOUS
<1> HIDE DEF n
<1>3. 1 \in Int /\ n - k \in Int /\ \A a \in 1 .. n - k : s[a] \in S
  BY <1>1, <1>2
<1>4. /\ SubSeq(s, 1, n - k) \in Seq(S)
      /\ Len(SubSeq(s, 1, n - k)) = IF 1 <= n - k THEN ((n - k) - 1) + 1 ELSE 0
      /\ \A a \in 1 .. ((n - k) - 1) + 1 : SubSeq(s, 1, n - k)[a] = s[(1 + a) - 1]
  BY <1>3, SubSeqProperties
<1>5. /\ ((n - k) - 1) + 1 = n - k /\ \A a \in 1 .. n - k : (1 + a) - 1 = a
      /\ (IF 1 <= n - k THEN ((n - k) - 1) + 1 ELSE 0) = n - k
  BY <1>1
<1>6. Below(s, k) = SubSeq(s, 1, n - k)
  BY DEF Below, n
<1>7. QED
  BY <1>4, <1>5, <1>6 DEF n

\* A number of equal entries.
LEMMA SameEntries ==
  ASSUME NEW l \in Nat, NEW i
  PROVE  LET new == [a \in 1 .. l |-> i] IN
         new \in Seq({i}) /\ Len(new) = l /\ \A a \in 1 .. l : new[a] = i
  OBVIOUS

\* Two sequences, one after the other.
LEMMA Joined ==
  ASSUME NEW S, NEW s \in Seq(S), NEW t \in Seq(S)
  PROVE  /\ s \o t \in Seq(S) /\ Len(s \o t) = Len(s) + Len(t)
         /\ \A a \in 1 .. Len(s) : (s \o t)[a] = s[a]
         /\ \A a \in 1 .. Len(t) : (s \o t)[Len(s) + a] = t[a]
         /\ \A a \in 1 .. Len(s) + Len(t) :
              a \in 1 .. Len(s) \/ \E b \in 1 .. Len(t) : a = Len(s) + b
<1>1. /\ s \o t \in Seq(S) /\ Len(s \o t) = Len(s) + Len(t)
      /\ \A a \in 1 .. Len(s) + Len(t) :
           (s \o t)[a] = IF a <= Len(s) THEN s[a] ELSE t[a - Len(s)]
  BY ConcatProperties
<1> DEFINE m == Len(s)
           n == Len(t)
<1>2. m \in Nat /\ n \in Nat
  OBVIOUS
<1> HIDE DEF m, n
<1>3. ASSUME NEW a \in 1 .. m + n, a \notin 1 .. m
      PROVE  \E b \in 1 .. n : a = m + b
  <2>1. a - m \in 1 .. n /\ a = m + (a - m)
    BY <1>2, <1>3
  <2>2. QED
    BY <2>1
<1>4. ASSUME NEW a \in 1 .. n PROVE (s \o t)[m + a] = t[a]
  <2>1. m + a \in 1 .. m + n /\ ~(m + a <= m) /\ (m + a) - m = a
    BY <1>2
  <2>2. QED
    BY <1>1, <2>1 DEF m, n
<1>5. ASSUME NEW a \in 1 .. m PROVE (s \o t)[a] = s[a]
  <2>1. a \in 1 .. m + n /\ a <= m
    BY <1>2
  <2>2. QED
    BY <1>1, <2>1 DEF m, n
<1>6. QED
  BY <1>1, <1>3, <1>4, <1>5 DEF m, n

\* A node that finds what waits for it leaves what waits for the next one.
LEMMA AfterMatches ==
  ASSUME NEW p \in DOMAIN Script, NEW i \in 1 .. Len(Script[p].code),
         NEW S, NEW w \in Seq(S), NEW k \in Nat, NEW l \in Nat, NEW s, NEW t,
         k = Takes(Script[p].code, i), l = Leaves(Script[p].code, i),
         k <= Len(w), Matches(p, w, s),
         Len(t) = (Len(s) - k) + l,
         \A a \in 1 .. Len(s) - k : t[a] = s[a],
         \A a \in (Len(s) - k) + 1 .. Len(t) : Shows(p, i, t[a])
  PROVE  Matches(p, After(Script[p].code, i, w), t)
<1> DEFINE n == Len(w)
           low == Below(w, k)
           new == [a \in 1 .. l |-> i]
<1>1. n \in Nat /\ Len(s) = n
  BY DEF Matches
<1>2. n - k \in Nat
  BY <1>1
<1>3. low \in Seq(S) /\ Len(low) = n - k /\ \A a \in 1 .. n - k : low[a] = w[a]
  BY LowerPart
<1>4. new \in Seq({i}) /\ Len(new) = l /\ \A a \in 1 .. l : new[a] = i
  BY SameEntries
<1>5. After(Script[p].code, i, w) = low \o new
  BY DEF After
<1> HIDE DEF low, new, n
<1>6. /\ Len(low \o new) = (n - k) + l
      /\ \A a \in 1 .. n - k : (low \o new)[a] = w[a]
      /\ \A a \in (n - k) + 1 .. (n - k) + l : (low \o new)[a] = i
  <2>1. low \in Seq(S \cup {i}) /\ new \in Seq(S \cup {i})
    BY <1>3, <1>4
  <2> DEFINE m == n - k
  <2>2. /\ Len(low \o new) = Len(low) + Len(new)
        /\ \A a \in 1 .. Len(low) : (low \o new)[a] = low[a]
        /\ \A a \in 1 .. Len(new) : (low \o new)[Len(low) + a] = new[a]
    BY <2>1, Joined
  <2>3. Len(low) = m /\ Len(new) = l
    BY <1>3, <1>4
  <2>8. m \in Nat /\ l \in Nat
    BY <1>2
  <2> HIDE DEF m
  <2>4. ASSUME NEW a \in m + 1 .. m + l PROVE (low \o new)[a] = i
    <3>1. a - m \in 1 .. l /\ m + (a - m) = a
      BY <2>8
    <3>2. QED
      BY <1>4, <2>2, <2>3, <3>1
  <2>5. Len(low \o new) = m + l /\ \A a \in 1 .. m : (low \o new)[a] = low[a]
    BY <2>2, <2>3
  <2>6. \A a \in 1 .. m : low[a] = w[a]
    BY <1>3 DEF m
  <2>7. QED
    BY <2>4, <2>5, <2>6 DEF m
<1>7. \A a \in 1 .. n - k : Shows(p, w[a], t[a])
  BY <1>1, <1>2, SMTT(60) DEF Matches
<1>8. \A a \in 1 .. Len(t) : a \in 1 .. n - k \/ a \in (n - k) + 1 .. (n - k) + l
  BY <1>1, <1>2
<1>9. QED
  BY <1>1, <1>5, <1>6, <1>7, <1>8 DEF Matches

-------------------------------------------------------------------------------
(***************************************************************************)
(* What an operation does to what the names hold.  It takes the values of  *)
(* the names gone out of the table, may load those of the names loaded,    *)
(* and leaves the others as they are.                                      *)
(***************************************************************************)
Held(r, n) == IF r.table[n] # NoObj THEN r.val[r.table[n]] ELSE FileValue(n)

\* From r to s: the names that went, and those that may have been loaded.
Moves(r, s, gone, loaded) ==
  \A n \in Names :
    /\ n \in gone => s.table[n] = NoObj
    /\ n \notin gone => /\ Held(s, n) = Held(r, n)
                        /\ r.table[n] # NoObj => s.table[n] = r.table[n]
                        /\ n \notin loaded => s.table[n] = r.table[n]

\* The name that popping an entry takes out of the table, or loads.
LastNames(e)   == IF e.obj = NoObj /\ e.last THEN {e.name} ELSE {}
LoadedNames(e) == IF e.obj = NoObj /\ ~e.last THEN {e.name} ELSE {}

\* An entry without a value of its own denotes what its name holds.
LEMMA DenotesHeld ==
  ASSUME NEW r, NEW e
  PROVE  Denotes(r, e) = IF e.obj # NoObj THEN r.val[e.obj] ELSE Held(r, e.name)
  BY DEF Denotes, Held

\* What leaves the table and the values in it moves nothing.
LEMMA MovesNothing ==
  ASSUME NEW r, NEW s, s.table = r.table, \A o \in Tabled(r) : s.val[o] = r.val[o]
  PROVE  Moves(r, s, {}, {})
<1>1. \A n \in Names : r.table[n] # NoObj => r.table[n] \in Tabled(r)
  BY DEF Tabled
<1>2. QED
  BY <1>1 DEF Moves, Held

\* One operation after another.
LEMMA MovesTwice ==
  ASSUME NEW r, NEW s, NEW t, NEW gone1, NEW loaded1, NEW gone2, NEW loaded2,
         Moves(r, s, gone1, loaded1), Moves(s, t, gone2, loaded2),
         gone1 \cap loaded2 = {}
  PROVE  Moves(r, t, gone1 \cup gone2, loaded1 \cup loaded2)
<1> SUFFICES ASSUME NEW n \in Names
             PROVE  /\ n \in gone1 \cup gone2 => t.table[n] = NoObj
                    /\ n \notin gone1 \cup gone2 =>
                         /\ Held(t, n) = Held(r, n)
                         /\ r.table[n] # NoObj => t.table[n] = r.table[n]
                         /\ n \notin loaded1 \cup loaded2 => t.table[n] = r.table[n]
  BY DEF Moves
<1>1. /\ n \in gone1 => s.table[n] = NoObj
      /\ n \notin gone1 => /\ Held(s, n) = Held(r, n)
                           /\ r.table[n] # NoObj => s.table[n] = r.table[n]
                           /\ n \notin loaded1 => s.table[n] = r.table[n]
  BY DEF Moves
<1>2. /\ n \in gone2 => t.table[n] = NoObj
      /\ n \notin gone2 => /\ Held(t, n) = Held(s, n)
                           /\ s.table[n] # NoObj => t.table[n] = s.table[n]
                           /\ n \notin loaded2 => t.table[n] = s.table[n]
  BY DEF Moves
<1>3. n \in gone1 => n \notin loaded2
  OBVIOUS
<1>4. QED
  BY <1>1, <1>2, <1>3

\* A last use takes the value of its name, another use loads it.
LEMMA LoadMoves ==
  ASSUME NEW r, Sound(r), Free(r) # {}, NEW n \in Names, NEW lastUse \in BOOLEAN
  PROVE  LET p == Load(r, n, lastUse) IN
         /\ Moves(r, p.r, IF lastUse THEN {n} ELSE {}, IF lastUse THEN {} ELSE {n})
         /\ p.r.val[p.obj] = Held(r, n)
<1> DEFINE o   == r.table[n]
           p   == Load(r, n, lastUse)
           new == New(r, FileValue(n), ~lastUse)
<1>1. RteTypeOK(r) /\ r.table \in [Names -> Obj \cup {NoObj}] /\ Tabled(r) \subseteq r.live
  BY DEF Sound, RteTypeOK
<1>2. CASE o # NoObj
  <2> DEFINE s == SetReadOnly(r, o, FALSE)
  <2>1. o \in Obj
    BY <1>1, <1>2
  <2>2. RteTypeOK(s) /\ s.table = r.table
    BY <1>1, <2>1, SetReadOnlyType
  <2>3. p = [r |-> IF lastUse THEN SetTable(s, n, NoObj) ELSE r, obj |-> o]
    BY <1>2 DEF Load
  <2>4. s.val = r.val
    BY <1>1 DEF SetReadOnly, RteTypeOK
  <2> HIDE DEF s, p
  <2>5. /\ SetTable(s, n, NoObj).table = [r.table EXCEPT ![n] = NoObj]
        /\ SetTable(s, n, NoObj).val = r.val
    BY <2>2, <2>4, SetTableType DEF SetTable, RteTypeOK
  <2>6. CASE lastUse
    <3>1. p.r.table = [r.table EXCEPT ![n] = NoObj] /\ p.r.val = r.val /\ p.obj = o
      BY <2>3, <2>5, <2>6
    <3>2. \A m \in Names : p.r.table[m] = IF m = n THEN NoObj ELSE r.table[m]
      BY <1>1, <3>1
    <3>3. QED
      BY <1>2, <2>6, <3>1, <3>2 DEF Moves, Held, p
  <2>7. CASE ~lastUse
    <3>1. p.r = r /\ p.obj = o
      BY <2>3, <2>7
    <3>2. QED
      BY <1>2, <2>7, <3>1 DEF Moves, Held, p
  <2>8. QED
    BY <2>6, <2>7
<1>3. CASE o = NoObj
  <2>1. p = [r |-> IF lastUse THEN new.r ELSE SetTable(new.r, n, new.obj), obj |-> new.obj]
    BY <1>3 DEF Load
  <2>2. RteTypeOK(new.r) /\ new.obj \in Obj \ r.live /\ new.r.table = r.table
    BY <1>1, NewType, ZenonT(60)
  <2>3. new.r.val = [r.val EXCEPT ![new.obj] = FileValue(n)]
    BY <1>1 DEF New, RteTypeOK
  <2>4. DOMAIN r.val = Obj
    BY <1>1 DEF RteTypeOK
  <2> HIDE DEF new, p
  <2>5. new.r.val[new.obj] = FileValue(n) /\ \A v \in Tabled(r) : new.r.val[v] = r.val[v]
    BY <1>1, <2>2, <2>3, <2>4, TabledType
  <2>6. /\ SetTable(new.r, n, new.obj).table = [r.table EXCEPT ![n] = new.obj]
        /\ SetTable(new.r, n, new.obj).val = new.r.val
    BY <2>2, SetTableType DEF SetTable, RteTypeOK
  <2>7. \A m \in Names : r.table[m] # NoObj => r.table[m] \in Tabled(r)
    BY DEF Tabled
  <2>8. new.obj # NoObj
    BY <2>2, NullIsFree
  <2>9. CASE lastUse
    <3>1. p.r.table = r.table /\ p.r.val = new.r.val /\ p.obj = new.obj
      BY <2>1, <2>2, <2>9
    <3>2. QED
      BY <1>3, <2>5, <2>7, <2>9, <3>1 DEF Moves, Held, p
  <2>10. CASE ~lastUse
    <3>1. /\ p.r.table = [r.table EXCEPT ![n] = new.obj]
          /\ p.r.val = new.r.val /\ p.obj = new.obj
      BY <2>1, <2>6, <2>10
    <3>2. \A m \in Names : p.r.table[m] = IF m = n THEN new.obj ELSE r.table[m]
      BY <1>1, <3>1
    <3>3. QED
      BY <1>3, <2>5, <2>7, <2>8, <2>10, <3>1, <3>2 DEF Moves, Held, p
  <2>11. QED
    BY <2>9, <2>10
<1>4. QED
  BY <1>2, <1>3

\* A pop gives the value that the entry denotes.
LEMMA PopMoves ==
  ASSUME NEW r, Sound(r), Free(r) # {}, Len(r.stack) > 0
  PROVE  LET p == Pop(r)
             e == Top(r)
         IN /\ Moves(r, p.r, LastNames(e), LoadedNames(e))
            /\ p.r.val[p.obj] = Denotes(r, e)
<1> DEFINE p == Pop(r)
           d == Drop(r)
           e == Top(r)
<1>1. RteTypeOK(r) /\ Sound(d) /\ e \in Entries /\ d.live = r.live /\ d.table = r.table
  BY TopType, DropType, DropSound DEF Sound
<1>2. d.val = r.val
  BY <1>1, DropAdds
<1>3. CASE e.obj # NoObj
  <2>1. p.obj = e.obj /\ p.r = d
    BY <1>3, PopAdds
  <2>2. LastNames(e) = {} /\ LoadedNames(e) = {}
    BY <1>3 DEF LastNames, LoadedNames
  <2>3. Denotes(r, e) = r.val[e.obj]
    BY <1>3 DEF Denotes
  <2> HIDE DEF p, d, e
  <2>4. Moves(r, p.r, {}, {})
    BY <1>1, <1>2, <2>1, MovesNothing
  <2>5. QED
    BY <1>2, <2>1, <2>2, <2>3, <2>4 DEF p, d, e
<1>4. CASE e.obj = NoObj
  <2>1. e.name \in Names /\ e.last \in BOOLEAN
    BY <1>1, <1>4, NullIsFree DEF Entries
  <2>2. Free(d) # {}
    BY <1>1 DEF Free
  <2>3. p = Load(d, e.name, e.last)
    BY <1>4 DEF Pop
  <2>4. /\ LastNames(e) = IF e.last THEN {e.name} ELSE {}
        /\ LoadedNames(e) = IF e.last THEN {} ELSE {e.name}
    BY <1>4 DEF LastNames, LoadedNames
  <2>5. Denotes(r, e) = Held(r, e.name)
    BY <1>4 DEF Denotes, Held
  <2> HIDE DEF p, d, e
  <2>6. /\ Moves(d, p.r, LastNames(e), LoadedNames(e))
        /\ p.r.val[p.obj] = Held(d, e.name)
    <3>1. LET q == Load(d, e.name, e.last) IN
          /\ Moves(d, q.r, IF e.last THEN {e.name} ELSE {}, IF e.last THEN {} ELSE {e.name})
          /\ q.r.val[q.obj] = Held(d, e.name)
      BY <1>1, <2>1, <2>2, LoadMoves
    <3>2. QED
      BY <2>3, <2>4, <3>1
  <2>7. \A n \in Names : Held(d, n) = Held(r, n)
    BY <1>1, <1>2 DEF Held
  <2>8. Moves(r, p.r, LastNames(e), LoadedNames(e))
    BY <1>1, <2>6, <2>7 DEF Moves
  <2>9. QED
    BY <2>1, <2>5, <2>6, <2>7, <2>8 DEF p, d, e
<1>5. QED
  BY <1>3, <1>4

\* The entries from the k-th highest one on: what an operation pops.
Highest(s, k) == (Len(s) - k) + 1 .. Len(s)

\* The names that popping the k highest entries takes out of the table, or loads.
GoneWith(s, k)   == UNION {LastNames(s[i]) : i \in Highest(s, k)}
LoadedWith(s, k) == UNION {LoadedNames(s[i]) : i \in Highest(s, k)}

\* The right operand, which is popped first, does not take the left one's value.
InOrder(s) ==
  LET n == Len(s) IN
  LastNames(s[n]) \cap (LastNames(s[n - 1]) \cup LoadedNames(s[n - 1])) = {}

\* What is popped in one and in two steps.
LEMMA HighestEntries ==
  ASSUME NEW s, Len(s) \in Nat
  PROVE  /\ GoneWith(s, 0) = {} /\ LoadedWith(s, 0) = {}
         /\ GoneWith(s, 1) = LastNames(s[Len(s)]) /\ LoadedWith(s, 1) = LoadedNames(s[Len(s)])
         /\ GoneWith(s, 2) = LastNames(s[Len(s)]) \cup LastNames(s[Len(s) - 1])
         /\ LoadedWith(s, 2) = LoadedNames(s[Len(s)]) \cup LoadedNames(s[Len(s) - 1])
<1> DEFINE n == Len(s)
<1>1. n \in Nat
  OBVIOUS
<1> HIDE DEF n
<1>2. (n - 0) + 1 .. n = {} /\ (n - 1) + 1 .. n = {n} /\ (n - 2) + 1 .. n = {n - 1, n}
  BY <1>1
<1>3. Highest(s, 0) = {} /\ Highest(s, 1) = {n} /\ Highest(s, 2) = {n - 1, n}
  BY <1>2 DEF Highest, n
<1>4. QED
  BY <1>3 DEF GoneWith, LoadedWith, n

(***************************************************************************)
(* The operands have the values that their entries denote, although the    *)
(* pop of one may take the value of a name that waits below it.            *)
(***************************************************************************)
LEMMA ArgumentsMoves ==
  ASSUME NEW r, Sound(r), Roomy(r), NEW k \in 0 .. 2, Len(r.stack) >= k,
         k = 2 => InOrder(r.stack)
  PROVE  LET a == Arguments(r, k)
             n == Len(r.stack)
         IN /\ Moves(r, a.r, GoneWith(r.stack, k), LoadedWith(r.stack, k))
            /\ \A i \in 1 .. k : a.r.val[a.f[i]] = Denotes(r, r.stack[(n - k) + i])
            /\ \A i \in 1 .. n - k : a.r.stack[i] = r.stack[i]
<1> DEFINE a == Arguments(r, k)
           s == r.stack
           n == Len(s)
           q == Pop(r)
           qr == q.r
<1>1. RteTypeOK(r) /\ Free(r) # {} /\ n \in Nat
  BY RoomyIsFree DEF Sound, RteTypeOK
<1>2. CASE k = 0
  <2>1. a.r = r
    BY <1>2 DEF Arguments
  <2>2. Moves(r, r, {}, {})
    BY MovesNothing
  <2> HIDE DEF a
  <2>3. GoneWith(s, k) = {} /\ LoadedWith(s, k) = {}
    BY <1>1, <1>2, HighestEntries
  <2>4. Moves(r, a.r, GoneWith(s, k), LoadedWith(s, k))
    BY <2>1, <2>2, <2>3
  <2>5. \A i \in 1 .. k : a.r.val[a.f[i]] = Denotes(r, s[(n - k) + i])
    BY <1>2
  <2>6. \A i \in 1 .. n - k : a.r.stack[i] = s[i]
    BY <2>1
  <2>7. QED
    BY <2>4, <2>5, <2>6 DEF a
<1>3. k # 0 => /\ Moves(r, qr, LastNames(s[n]), LoadedNames(s[n]))
               /\ qr.val[q.obj] = Denotes(r, s[n])
               /\ Len(qr.stack) = n - 1 /\ \A i \in 1 .. n - 1 : qr.stack[i] = s[i]
  <2>1. k # 0 => n > 0
    BY <1>1
  <2>2. Top(r) = s[n]
    BY DEF Top
  <2>3. QED
    BY <1>1, <2>1, <2>2, PopMoves, PopType
<1>4. CASE k = 1
  <2>1. a.r = qr /\ a.f = <<q.obj>>
    BY <1>4 DEF Arguments
  <2> HIDE DEF a, q, qr
  <2>2. GoneWith(s, k) = LastNames(s[n]) /\ LoadedWith(s, k) = LoadedNames(s[n])
    BY <1>1, <1>4, HighestEntries
  <2>3. \A i \in 1 .. k : a.r.val[a.f[i]] = Denotes(r, s[(n - k) + i])
    <3>1. a.f[1] = q.obj /\ (n - 1) + 1 = n
      BY <1>1, <2>1
    <3>2. QED
      BY <1>3, <1>4, <2>1, <3>1
  <2>4. QED
    BY <1>3, <1>4, <2>1, <2>2, <2>3 DEF a
<1>5. CASE k = 2
  <2> DEFINE p == Pop(qr)
             m == n - 1
             e == s[n - 1]
  <2>1. a.r = p.r /\ a.f = <<p.obj, q.obj>>
    BY <1>5 DEF Arguments
  <2>2. n > 0
    BY <1>1, <1>5
  <2>3. /\ Sound(qr) /\ Adds(r, qr) /\ q.obj \in qr.live
        /\ Len(qr.stack) = n - 1 /\ qr.live \subseteq r.live \cup {q.obj}
        /\ \A i \in 1 .. n - 1 : qr.stack[i] = s[i]
    BY <1>1, <2>2, PopSound, PopAdds, PopType
  <2>4. Free(qr) # {}
    BY <2>3, FreeAfter
  <2> HIDE DEF a, q, qr
  <2>5. m \in Nat /\ m > 0 /\ m \in 1 .. m /\ n - 1 = m /\ (n - 2) + 1 = m /\ (n - 2) + 2 = n
    BY <1>1, <1>5
  <2>6. Len(qr.stack) > 0 /\ Top(qr) = e
    BY <2>3, <2>5 DEF Top
  <2>7. /\ Moves(qr, p.r, LastNames(e), LoadedNames(e))
        /\ p.r.val[p.obj] = Denotes(qr, e)
        /\ Adds(qr, p.r) /\ Len(p.r.stack) = Len(qr.stack) - 1
        /\ \A i \in 1 .. Len(p.r.stack) : p.r.stack[i] = qr.stack[i]
    BY <2>3, <2>4, <2>6, PopMoves, PopAdds, PopType, SMTT(60) DEF Sound
  <2> HIDE DEF p, e
  <2>8. LastNames(s[n]) \cap LastNames(e) = {} /\ LastNames(s[n]) \cap LoadedNames(e) = {}
    BY <1>5 DEF InOrder, e
  <2>9. Moves(r, p.r, LastNames(s[n]) \cup LastNames(e), LoadedNames(s[n]) \cup LoadedNames(e))
    BY <1>3, <1>5, <2>7, <2>8, MovesTwice
  <2>10. Denotes(qr, e) = Denotes(r, e)
    <3>1. e \in Entries
      BY <1>1, <2>5 DEF e, RteTypeOK
    <3>2. CASE e.obj # NoObj
      <4>1. e.obj \in r.live
        BY <1>1, <2>5, <3>2, StackedType DEF Sound, e
      <4>2. QED
        BY <2>3, <3>2, <4>1, DenotesHeld DEF Adds
    <3>3. CASE e.obj = NoObj
      <4>1. e.name \in Names /\ e.last \in BOOLEAN
        BY <3>1, <3>3, NullIsFree DEF Entries
      <4>2. e.name \in LastNames(e) \cup LoadedNames(e)
        BY <3>3, <4>1 DEF LastNames, LoadedNames
      <4>3. e.name \notin LastNames(s[n])
        BY <2>8, <4>2
      <4>4. Held(qr, e.name) = Held(r, e.name)
        BY <1>3, <1>5, <4>1, <4>3 DEF Moves
      <4>5. QED
        BY <3>3, <4>4, DenotesHeld
    <3>4. QED
      BY <3>2, <3>3
  <2>11. p.r.val[q.obj] = Denotes(r, s[n])
    BY <1>3, <1>5, <2>3, <2>7 DEF Adds
  <2>12. \A i \in 1 .. k : a.r.val[a.f[i]] = Denotes(r, s[(n - k) + i])
    <3>1. a.f[1] = p.obj /\ a.f[2] = q.obj
      BY <2>1
    <3>2. \A i \in 1 .. 2 : i = 1 \/ i = 2
      OBVIOUS
    <3>3. s[(n - 2) + 1] = e /\ s[(n - 2) + 2] = s[n]
      BY <2>5 DEF e
    <3>4. QED
      BY <1>5, <2>1, <2>7, <2>10, <2>11, <3>1, <3>2, <3>3
  <2>13. \A i \in 1 .. n - k : a.r.stack[i] = s[i]
    <3>1. \A i \in 1 .. n - 2 : i \in 1 .. n - 1 /\ i \in 1 .. Len(p.r.stack)
      BY <1>1, <2>3, <2>7
    <3>2. QED
      BY <1>5, <2>1, <2>3, <2>7, <3>1
  <2>14. GoneWith(s, k) = LastNames(s[n]) \cup LastNames(e)
         /\ LoadedWith(s, k) = LoadedNames(s[n]) \cup LoadedNames(e)
    BY <1>1, <1>5, HighestEntries DEF e
  <2>15. QED
    BY <2>1, <2>9, <2>12, <2>13, <2>14 DEF a
<1>6. QED
  BY <1>2, <1>4, <1>5

-------------------------------------------------------------------------------
(* The stack and the nodes that its entries come from *)

\* Where the entry of a node has no value of its own the node is a parameter.
LEMMA EntryOf ==
  ASSUME NEW p \in DOMAIN Script, NEW q, IsOperand(Script[p].code[q]),
         NEW e, Shows(p, q, e)
  PROVE  /\ \A n : e.obj = NoObj /\ e.name = n <=> Reads(Script[p].code, q, n)
         /\ \A n : n \in LastNames(e) <=> ReadsLast(Script[p], q, n)
         /\ \A n : n \in LoadedNames(e) => Reads(Script[p].code, q, n)
<1> DEFINE c == Script[p].code
           b == <<q, 0>> \in Script[p].last
<1>1. CASE c[q].op = "par"
  <2>1. e = StackedValue(c[q].name, b)
    BY <1>1 DEF Shows
  <2>2. e.obj = NoObj /\ e.name = c[q].name /\ e.last = b
    BY <2>1 DEF StackedValue
  <2>3. LastNames(e) = (IF e.last THEN {c[q].name} ELSE {})
        /\ LoadedNames(e) \subseteq {c[q].name}
    BY <2>2 DEF LastNames, LoadedNames
  <2>4. e.last <=> b
    BY <2>2
  <2>5. QED
    BY <1>1, <2>2, <2>3, <2>4 DEF Reads, ReadsLast
<1>2. CASE c[q].op # "par"
  <2>1. e.obj # NoObj
    BY <1>2 DEF Shows, IsOperand
  <2>2. LastNames(e) = {} /\ LoadedNames(e) = {}
    BY <2>1 DEF LastNames, LoadedNames
  <2>3. QED
    BY <1>2, <2>1, <2>2 DEF Reads, ReadsLast
<1>3. QED
  BY <1>1, <1>2

\* No entry waits for a value that the pop of an entry above it takes.
Sorted(s) ==
  \A b \in 1 .. Len(s) : \A a \in 1 .. b - 1 :
    s[a].obj = NoObj => s[a].name \notin LastNames(s[b])

\* The nodes of script p whose entries wait on the stack.
Operand(p) == {q \in 1 .. Len(Script[p].code) : IsOperand(Script[p].code[q])}

\* The stack is in the order of the nodes.
LEMMA SortedMatches ==
  ASSUME NEW p \in DOMAIN Script, NEW w \in Seq(Operand(p)), NEW s \in Seq(Entries),
         Matches(p, w, s), PopsInOrder(Script[p], w, Names)
  PROVE  Sorted(s)
<1> SUFFICES ASSUME NEW b \in 1 .. Len(s), NEW a \in 1 .. b - 1,
                    s[a].obj = NoObj, s[a].name \in LastNames(s[b])
             PROVE  FALSE
  BY DEF Sorted
<1> DEFINE n == Len(s)
<1>1. n \in Nat /\ Len(w) = n
  BY DEF Matches
<1>2. a \in 1 .. n /\ b \in 1 .. n
  <2>1. b \in 1 .. n
    OBVIOUS
  <2> HIDE DEF n
  <2>2. QED
    BY <1>1, <2>1
<1>3. w[a] \in Operand(p) /\ w[b] \in Operand(p) /\ s[a] \in Entries
  BY <1>1, <1>2
<1>4. Shows(p, w[a], s[a]) /\ Shows(p, w[b], s[b])
  BY <1>2 DEF Matches
<1>5. Reads(Script[p].code, w[a], s[a].name)
  BY <1>3, <1>4, EntryOf, ZenonT(60) DEF Operand
<1>6. ReadsLast(Script[p], w[b], s[a].name)
  BY <1>3, <1>4, EntryOf DEF Operand
<1>7. s[a].name \in Names
  BY <1>3, NullIsFree DEF Entries
<1>8. QED
  BY <1>1, <1>2, <1>5, <1>6, <1>7 DEF PopsInOrder

\* What the two highest entries have to be like to be popped.
LEMMA SortedInOrder ==
  ASSUME NEW s, Sorted(s), Len(s) \in Nat, Len(s) >= 2
  PROVE  InOrder(s)
<1> DEFINE n == Len(s)
<1>1. n \in 1 .. n /\ n - 1 \in 1 .. n - 1
  <2>1. n \in Nat /\ n >= 2
    OBVIOUS
  <2> HIDE DEF n
  <2>2. QED
    BY <2>1
<1>2. s[n - 1].obj = NoObj => s[n - 1].name \notin LastNames(s[n])
  BY <1>1 DEF Sorted
<1>3. LastNames(s[n - 1]) \cup LoadedNames(s[n - 1]) \subseteq
        IF s[n - 1].obj = NoObj THEN {s[n - 1].name} ELSE {}
  BY DEF LastNames, LoadedNames
<1>4. QED
  BY <1>2, <1>3 DEF InOrder

\* The lower entries keep the values of their names.
LEMMA LowerSorted ==
  ASSUME NEW s, Sorted(s), Len(s) \in Nat, NEW k \in Nat, k <= Len(s),
         NEW a \in 1 .. Len(s) - k, s[a].obj = NoObj
  PROVE  s[a].name \notin GoneWith(s, k)
<1> DEFINE n == Len(s)
<1>1. n \in Nat /\ a \in 1 .. n - k
  OBVIOUS
<1>2. ASSUME NEW b \in Highest(s, k), s[a].name \in LastNames(s[b])
      PROVE  FALSE
  <2>1. b \in (n - k) + 1 .. n
    BY DEF Highest
  <2> HIDE DEF n
  <2>2. b \in 1 .. n /\ a \in 1 .. b - 1
    BY <1>1, <2>1
  <2>3. QED
    BY <1>2, <2>2 DEF Sorted, n
<1>3. QED
  BY <1>2 DEF GoneWith

\* What is popped at a node is what the marks say that it takes.
LEMMA GoneIsTaken ==
  ASSUME NEW p \in DOMAIN Script, NEW i \in 1 .. Len(Script[p].code), NEW w,
         w[i] \in Seq(Operand(p)), NEW s, Matches(p, w[i], s),
         NEW k \in Nat, k = Takes(Script[p].code, i), k <= Len(s)
  PROVE  /\ \A n : n \in GoneWith(s, k) <=> TakesLast(Script[p], w, i, n)
         /\ \A n : n \in LoadedWith(s, k) =>
                     \E q \in Taken(Script[p].code, w, i) : Reads(Script[p].code, q, n)
<1> DEFINE l == Len(s)
           c == Script[p].code
<1>1. l \in Nat /\ Len(w[i]) = l
  BY DEF Matches
<1>2. Taken(c, w, i) = {w[i][a] : a \in Highest(s, k)}
  BY <1>1 DEF Taken, Highest
<1>3. \A a \in Highest(s, k) : a \in 1 .. l
  <2>1. Highest(s, k) = (l - k) + 1 .. l /\ k <= l
    BY DEF Highest
  <2> HIDE DEF l
  <2>2. QED
    BY <1>1, <2>1
<1>4. ASSUME NEW a \in Highest(s, k)
      PROVE  /\ \A n : n \in LastNames(s[a]) <=> ReadsLast(Script[p], w[i][a], n)
             /\ \A n : n \in LoadedNames(s[a]) => Reads(c, w[i][a], n)
  <2>1. a \in 1 .. l
    BY <1>3
  <2>2. w[i][a] \in Operand(p) /\ Shows(p, w[i][a], s[a])
    BY <1>1, <2>1 DEF Matches
  <2>3. QED
    BY <2>2, EntryOf DEF Operand
<1>5. \A n : n \in GoneWith(s, k) <=> \E a \in Highest(s, k) : ReadsLast(Script[p], w[i][a], n)
  BY <1>4 DEF GoneWith
<1>6. \A n : n \in LoadedWith(s, k) => \E a \in Highest(s, k) : Reads(c, w[i][a], n)
  BY <1>4 DEF LoadedWith
<1>7. QED
  BY <1>2, <1>5, <1>6 DEF TakesLast

\* An entry denotes what it did unless its value was overwritten or taken.
LEMMA DenotesKept ==
  ASSUME NEW r, NEW t, NEW gone, NEW loaded, Moves(r, t, gone, loaded),
         NEW e \in Entries,
         e.obj # NoObj => t.val[e.obj] = r.val[e.obj],
         e.obj = NoObj => e.name \notin gone
  PROVE  Denotes(t, e) = Denotes(r, e)
<1>1. CASE e.obj # NoObj
  BY <1>1, DenotesHeld
<1>2. CASE e.obj = NoObj
  <2>1. e.name \in Names
    BY <1>2, NullIsFree DEF Entries
  <2>2. Held(t, e.name) = Held(r, e.name)
    BY <1>2, <2>1 DEF Moves
  <2>3. QED
    BY <1>2, <2>2, DenotesHeld
<1>3. QED
  BY <1>1, <1>2

-------------------------------------------------------------------------------
(* One operation *)

\* New results leave the table as it is.
LEMMA CreateResultsTable ==
  ASSUME NEW x, ArgsTypeOK(x), Roomy(x.r), NEW k \in 1 .. 2
  PROVE  CreateResults(x, k).r.table = x.r.table
<1> DEFINE a == New(x.r, NoValue, FALSE)
           b == New(a.r, NoValue, FALSE)
<1>1. /\ RteTypeOK(a.r) /\ a.r.live = x.r.live \cup {a.obj} /\ a.r.table = x.r.table
  BY RoomyIsFree, NewType DEF ArgsTypeOK
<1>2. Free(a.r) # {}
  BY <1>1, FreeAfter
<1>3. b.r.table = x.r.table
  BY <1>1, <1>2, NewType, ZenonT(60)
<1> HIDE DEF a, b
<1>4. CreateResults(x, k) = IF k = 1 THEN [x EXCEPT !.r = a.r, !.res = <<a.obj>>]
                            ELSE [x EXCEPT !.r = b.r, !.res = <<a.obj, b.obj>>]
  BY DEF CreateResults, a, b
<1>5. QED
  BY <1>1, <1>3, <1>4 DEF ArgsTypeOK

\* Nor does the copy of an operand.
LEMMA SrcDestTable ==
  ASSUME NEW x, ArgsTypeOK(x), Free(x.r) # {}, NEW i \in 1 .. Len(x.f)
  PROVE  SrcDest(x, i).r.table = x.r.table
<1> DEFINE d == OwnCopy(x.r, x.f[i])
<1>1. d.r.table = x.r.table
  BY OwnCopyType DEF ArgsTypeOK
<1> HIDE DEF d
<1>2. SrcDest(x, i) = [x EXCEPT !.r = d.r, !.f[i] = d.obj, !.res = <<d.obj>>, !.at = i]
  BY DEF SrcDest, d
<1>3. QED
  BY <1>1, <1>2 DEF ArgsTypeOK

\* The place of the results: nothing moves, and an accu operator keeps its ldd.
LEMMA PreparedParts ==
  ASSUME NEW a, ArgsTypeOK(a), Roomy(a.r),
         NEW node, WellFormedExpr(node), node.fn \notin {"nop", "timeoutput"},
         Len(a.f) = node.k
  PROVE  LET x == Prepared(a, node.fn, node.r) IN
         /\ Len(x.res) = node.r
         /\ x.r.table = a.r.table
         /\ node.fn = "accu" => x.f = a.f
<1> DEFINE x == Prepared(a, node.fn, node.r)
           fn == node.fn
<1>1. node.k \in 0 .. 2 /\ node.r \in 1 .. 2 /\ Free(a.r) # {}
  BY RoomyIsFree DEF WellFormedExpr
<1>2. CASE fn \in {"diff", "two", "accu"}
  <2>1. x = CreateResults(a, node.r)
    BY <1>2 DEF Prepared
  <2>2. Len(CreateResults(a, node.r).res) = node.r /\ CreateResults(a, node.r).f = a.f
    BY <1>1, CreateResultsType
  <2>3. CreateResults(a, node.r).r.table = a.r.table
    BY <1>1, CreateResultsTable
  <2> HIDE DEF x
  <2>4. QED
    BY <2>1, <2>2, <2>3 DEF x
<1>3. ASSUME fn \notin {"two", "accu"}, NEW i \in 1 .. node.k, x = SrcDest(a, i)
      PROVE  Len(x.res) = node.r /\ x.r.table = a.r.table /\ (fn = "accu" => x.f = a.f)
  <2>1. node.r = 1
    BY <1>3 DEF WellFormedExpr
  <2>2. i \in 1 .. Len(a.f)
    OBVIOUS
  <2>3. Len(SrcDest(a, i).res) = 1
    BY <1>1, <2>2, SrcDestOne
  <2>4. SrcDest(a, i).r.table = a.r.table
    BY <1>1, <2>2, SrcDestTable
  <2> HIDE DEF x
  <2>5. Len(x.res) = node.r
    BY <1>3, <2>1, <2>3
  <2>6. QED
    BY <1>3, <2>4, <2>5
<1>4. CASE fn \in {"same1", "left"}
  <2>1. x = SrcDest(a, 1) /\ 1 \in 1 .. node.k
    BY <1>1, <1>4 DEF Prepared, WellFormedExpr
  <2>2. QED
    BY <1>3, <1>4, <2>1
<1>5. CASE fn = "right"
  <2>1. x = SrcDest(a, 2) /\ 2 \in 1 .. node.k
    BY <1>1, <1>5 DEF Prepared, WellFormedExpr
  <2>2. QED
    BY <1>3, <1>5, <2>1
<1>6. CASE fn = "comm"
  <2> DEFINE i == IF a.r.ro[a.f[1]] THEN 2 ELSE 1
  <2>1. x = SrcDest(a, i) /\ i \in 1 .. node.k
    BY <1>1, <1>6 DEF Prepared, WellFormedExpr
  <2> HIDE DEF i
  <2>2. QED
    BY <1>3, <1>6, <2>1
<1>7. QED
  BY <1>2, <1>4, <1>5, <1>6 DEF WellFormedExpr, Operators

\* Every cached graph belongs to a value in the table and was made from it.
Fresh(r) ==
  \A o \in Obj : r.cache[o] # NoValue => o \in Tabled(r) /\ r.cache[o] = r.val[o]

\* What the k highest entries denote.
Values(r, k) == [i \in 1 .. k |-> Denotes(r, r.stack[(Len(r.stack) - k) + i])]

\* The results get the computed values, each its own.
LEMMA ComputedResults ==
  ASSUME NEW x, ArgsSound(x), NEW vals, NEW i \in 1 .. Len(x.res)
  PROVE  Computed(x, vals).r.val[x.res[i]] = vals[i]
<1> DEFINE o == x.res[i]
           w == [v \in Obj |-> IF \E j \in DOMAIN x.res : x.res[j] = v
                    THEN vals[CHOOSE j \in DOMAIN x.res : x.res[j] = v]
                    ELSE x.r.val[v]]
<1>1. ArgsTypeOK(x) /\ i \in DOMAIN x.res /\ o \in Obj
      /\ \A j \in DOMAIN x.res : x.res[j] = x.res[i] => j = i
  BY DEF ArgsSound, ArgsTypeOK
<1>2. (CHOOSE j \in DOMAIN x.res : x.res[j] = o) = i
  BY <1>1
<1>3. w[o] = vals[i]
  BY <1>1, <1>2
<1>4. Computed(x, vals) = [x EXCEPT !.r.val = w]
  BY DEF Computed
<1> HIDE DEF w
<1>5. Computed(x, vals).r.val = w
  BY <1>1, <1>4 DEF ArgsTypeOK, RteTypeOK
<1>6. QED
  BY <1>3, <1>5

\* The graph of an ldd stays with the ldd, and is the graph of its cells.
LEMMA LeaveGraphFresh ==
  ASSUME NEW r, Sound(r), Fresh(r), NEW o \in r.live
  PROVE  LET t == LeaveGraph(r, o) IN
         /\ Fresh(t) /\ t.faults = r.faults
         /\ \A v \in Obj : t.cache[v] # NoValue => r.cache[v] # NoValue \/ v = o
         /\ \A v \in Obj : t.cache[v] # NoValue => v \in Tabled(r)
<1> DEFINE t == LeaveGraph(r, o)
<1>1. RteTypeOK(r) /\ o \in Obj /\ (r.ro[o] <=> o \in Tabled(r)) /\ DOMAIN r.cache = Obj
  BY DEF Sound, RteTypeOK
<1>2. CASE r.ro[o] /\ EnableCache
  <2>1. t = [r EXCEPT !.cache[o] = GraphOf(r, o)]
    BY <1>2 DEF LeaveGraph
  <2>2. t.cache = [r.cache EXCEPT ![o] = GraphOf(r, o)]
        /\ t.table = r.table /\ t.val = r.val /\ t.faults = r.faults
    BY <1>1, <2>1 DEF RteTypeOK
  <2>3. GraphOf(r, o) = r.val[o]
    BY <1>1 DEF GraphOf, Fresh
  <2> HIDE DEF t
  <2>4. Tabled(t) = Tabled(r)
    BY <2>2 DEF Tabled
  <2>5. \A v \in Obj : t.cache[v] = IF v = o THEN r.val[o] ELSE r.cache[v]
    BY <1>1, <2>2, <2>3
  <2>6. QED
    BY <1>1, <1>2, <2>2, <2>4, <2>5 DEF Fresh, t
<1>3. CASE ~(r.ro[o] /\ EnableCache)
  <2>1. t = r
    BY <1>1, <1>3 DEF LeaveGraph, Fresh
  <2> HIDE DEF t
  <2>2. QED
    BY <2>1 DEF Fresh, t
<1>4. QED
  BY <1>2, <1>3

\* The left operand is in the table when it is the name of its entry that keeps it.
LEMMA LeftOperand ==
  ASSUME NEW r, Sound(r), Roomy(r), NEW k \in 1 .. 2, Len(r.stack) >= k
  PROVE  LET a == Arguments(r, k)
             e == r.stack[(Len(r.stack) - k) + 1]
         IN a.f[1] \in Tabled(a.r) =>
              e.obj = NoObj /\ ~e.last /\ a.r.table[e.name] = a.f[1]
<1> DEFINE a == Arguments(r, k)
           n == Len(r.stack)
           q == Pop(r)
           qr == q.r
<1>1. RteTypeOK(r) /\ Free(r) # {} /\ n \in Nat
  BY RoomyIsFree DEF Sound, RteTypeOK
<1>2. CASE k = 1
  <2>1. a.r = qr /\ a.f[1] = q.obj
    BY <1>2 DEF Arguments
  <2>2. n > 0 /\ (n - k) + 1 = n
    BY <1>1, <1>2
  <2>3. Top(r) = r.stack[n]
    BY DEF Top
  <2>4. /\ Top(r).obj # NoObj \/ Top(r).last => q.obj \notin Tabled(qr)
        /\ Top(r).obj = NoObj /\ ~Top(r).last => qr.table[Top(r).name] = q.obj
    BY <1>1, <2>2, PopOwner
  <2> HIDE DEF a, q, qr, n
  <2>5. QED
    BY <2>1, <2>2, <2>3, <2>4 DEF a, n
<1>3. CASE k = 2
  <2> DEFINE p == Pop(qr)
  <2>1. a.r = p.r /\ a.f[1] = p.obj
    BY <1>3 DEF Arguments
  <2>2. n > 0
    BY <1>1, <1>3
  <2>3. /\ Sound(qr) /\ Len(qr.stack) = n - 1 /\ qr.live \subseteq r.live \cup {q.obj}
        /\ \A i \in 1 .. n - 1 : qr.stack[i] = r.stack[i]
    BY <1>1, <2>2, PopSound, PopType
  <2>4. Free(qr) # {}
    BY <2>3, FreeAfter
  <2> HIDE DEF a, q, qr
  <2> DEFINE m == Len(qr.stack)
             e == r.stack[n - 1]
  <2>5. n - 1 > 0 /\ n - 1 \in 1 .. n - 1 /\ (n - k) + 1 = n - 1
    BY <1>1, <1>3
  <2>6. m > 0 /\ Top(qr) = e
    BY <2>3, <2>5 DEF Top
  <2> HIDE DEF m
  <2>7. /\ Top(qr).obj # NoObj \/ Top(qr).last => p.obj \notin Tabled(p.r)
        /\ Top(qr).obj = NoObj /\ ~Top(qr).last => p.r.table[Top(qr).name] = p.obj
    BY <2>3, <2>4, <2>6, PopOwner DEF m
  <2> HIDE DEF p
  <2>8. QED
    BY <2>1, <2>5, <2>6, <2>7 DEF a, n
<1>4. QED
  BY <1>2, <1>3

\* Operands have the values of their entries; a graph is that of the ldd.
LEMMA InputsAreValues ==
  ASSUME NEW r, Sound(r), Roomy(r), NEW k \in 0 .. 2, Len(r.stack) >= k,
         k = 2 => InOrder(r.stack), NEW fn, fn = "accu" => k >= 1,
         Fresh(Arguments(r, k).r)
  PROVE  Inputs(Arguments(r, k), fn) = Values(r, k)
<1> DEFINE a == Arguments(r, k)
<1>1. \A i \in 1 .. k : a.r.val[a.f[i]] = Denotes(r, r.stack[(Len(r.stack) - k) + i])
  BY ArgumentsMoves
<1>2. ArgsTypeOK(a) /\ Len(a.f) = k
  BY ArgumentsType DEF Sound
<1> HIDE DEF a
<1>3. DOMAIN a.f = 1 .. k /\ \A i \in 1 .. k : a.f[i] \in Obj
  BY <1>2 DEF ArgsTypeOK
<1>4. ArgValues(a) = Values(r, k)
  BY <1>1, <1>3 DEF ArgValues, Values
<1>5. CASE fn = "accu"
  <2>1. 1 \in 1 .. k
    BY <1>5
  <2>2. GraphOf(a.r, a.f[1]) = a.r.val[a.f[1]]
    BY <1>3, <2>1 DEF GraphOf, Fresh, a
  <2>3. Inputs(a, fn) = [ArgValues(a) EXCEPT ![1] = GraphOf(a.r, a.f[1])]
    BY <1>5 DEF Inputs
  <2>4. ArgValues(a)[1] = a.r.val[a.f[1]]
    BY <1>3, <2>1 DEF ArgValues
  <2>5. ArgValues(a) = [i \in 1 .. k |-> ArgValues(a)[i]]
    BY <1>3 DEF ArgValues
  <2>6. Inputs(a, fn) = ArgValues(a)
    BY <2>2, <2>3, <2>4, <2>5
  <2>7. QED
    BY <1>4, <2>6 DEF a
<1>6. CASE fn # "accu"
  BY <1>4, <1>6 DEF Inputs, a
<1>7. QED
  BY <1>5, <1>6

(***************************************************************************)
(* What an operation has done before it pushes its results: they have the  *)
(* values that the script says, and nothing else has changed.              *)
(***************************************************************************)
LEMMA ReadyParts ==
  ASSUME NEW r, Owned(r), Cardinality(Free(r)) >= 4,
         NEW node, WellFormedExpr(node), node.fn \notin {"nop", "timeoutput"},
         Len(r.stack) >= node.k, node.k = 2 => InOrder(r.stack),
         Fresh(Arguments(r, node.k).r)
  PROVE  LET y == Ready(r, node)
             k == node.k
             s == r.stack
             e == s[(Len(s) - k) + 1]
         IN /\ Len(y.res) = node.r
            /\ Moves(r, y.r, GoneWith(s, k), LoadedWith(s, k))
            /\ Len(y.r.stack) = Len(s) - k
            /\ \A i \in 1 .. Len(s) - k : y.r.stack[i] = s[i]
            /\ \A i \in 1 .. node.r :
                 y.r.val[y.res[i]] = Semantics!Result(node.fn, Values(r, k), i)
            /\ Fresh(y.r) /\ y.r.faults = r.faults
            /\ \A o \in Obj : y.r.cache[o] # NoValue =>
                 \/ r.cache[o] # NoValue
                 \/ /\ node.fn = "accu" /\ e.obj = NoObj /\ ~e.last
                    /\ y.r.table[e.name] = o
<1> DEFINE k == node.k
           s == r.stack
           e == s[(Len(s) - k) + 1]
           fn == node.fn
           a == Arguments(r, k)
           gone == GoneWith(s, k)
           loaded == LoadedWith(s, k)
<1>1. /\ k \in 0 .. 2 /\ Roomy(r) /\ Len(s) >= k /\ RteTypeOK(r) /\ Sound(r)
      /\ node.r \in 1 .. 2 /\ (fn = "accu" => k >= 1)
  BY RoomyAtFirst DEF WellFormedExpr, Owned, Sound
<1>2. /\ ArgsSound(a) /\ ArgsTypeOK(a) /\ Len(a.f) = k /\ a.res = << >> /\ a.at = 0
      /\ Roomy(a.r) /\ Len(a.r.stack) = Len(s) - k
  <2>1. ArgsSound(a)
    BY <1>1, ArgumentsSound DEF Owned
  <2>2. /\ ArgsTypeOK(a) /\ Len(a.f) = k /\ a.res = << >> /\ a.at = 0
        /\ Roomy(a.r) /\ Len(a.r.stack) = Len(s) - k
    BY <1>1, ArgumentsType
  <2>3. QED
    BY <2>1, <2>2
<1>3. /\ Adds(r, a.r) /\ Moves(r, a.r, gone, loaded)
      /\ \A i \in 1 .. Len(s) - k : a.r.stack[i] = s[i]
  BY <1>1, ArgumentsAdds, ArgumentsMoves
<1>4. Inputs(a, fn) = Values(r, k)
  BY <1>1, InputsAreValues
<1>5. fn = "accu" /\ a.f[1] \in Tabled(a.r) =>
        e.obj = NoObj /\ ~e.last /\ a.r.table[e.name] = a.f[1]
  <2>1. fn = "accu" => k \in 1 .. 2
    BY <1>1
  <2>2. k \in 1 .. 2 => (a.f[1] \in Tabled(a.r) =>
          e.obj = NoObj /\ ~e.last /\ a.r.table[e.name] = a.f[1])
    <3> HIDE DEF k
    <3>1. QED
      BY <1>1, LeftOperand DEF k
  <2>3. QED
    BY <2>1, <2>2
<1>6. Fresh(a.r)
  OBVIOUS
<1> HIDE DEF a, gone, loaded, e
<1> DEFINE x == Prepared(a, fn, node.r)
           vals == [i \in 1 .. node.r |-> Semantics!Result(fn, Inputs(a, fn), i)]
           w == Computed(x, vals)
           g == LeaveGraph(w.r, w.f[1])
           z == [w EXCEPT !.r = g]
           y == Ready(r, node)
<1>7. y = IF fn = "accu" THEN z ELSE w
  BY DEF Ready, a
<1>8. /\ ArgsSound(x) /\ ArgsTypeOK(x) /\ Len(x.f) = k /\ x.r.stack = a.r.stack
      /\ Adds(a.r, x.r) /\ Len(x.res) = node.r /\ x.r.table = a.r.table
      /\ fn = "accu" => x.f = a.f
  <2>1. ArgsSound(x)
    BY <1>2, PreparedSound
  <2>2. ArgsTypeOK(x) /\ Len(x.f) = k /\ x.r.stack = a.r.stack
    BY <1>2, PreparedType
  <2>3. Adds(a.r, x.r)
    BY <1>2, PreparedAdds
  <2>4. Len(x.res) = node.r /\ x.r.table = a.r.table /\ (fn = "accu" => x.f = a.f)
    BY <1>2, PreparedParts
  <2>5. QED
    BY <2>1, <2>2, <2>3, <2>4
<1>9. \A i \in 1 .. node.r : vals[i] = Semantics!Result(fn, Values(r, k), i)
  BY <1>4
<1> HIDE DEF vals, x
<1>10. /\ ArgsTypeOK(w) /\ w.f = x.f /\ w.res = x.res /\ w.at = x.at
       /\ w.r.stack = x.r.stack /\ w.r.table = x.r.table
       /\ w.r.live = x.r.live /\ w.r.ro = x.r.ro
       /\ \A o \in Obj \ Results(x) : w.r.val[o] = x.r.val[o]
       /\ w.r.faults = x.r.faults /\ w.r.cache = x.r.cache
  BY <1>8, ComputedType, ComputedCells
<1>11. \A i \in 1 .. node.r : w.r.val[w.res[i]] = vals[i]
  <2>1. \A i \in 1 .. Len(x.res) : Computed(x, vals).r.val[x.res[i]] = vals[i]
    BY <1>8, ComputedResults
  <2>2. QED
    BY <1>8, <1>10, <2>1
<1> HIDE DEF w
<1>12. ArgsSound(w)
  BY <1>8, <1>10, SameArgsSound
<1>13. Tabled(w.r) = Tabled(a.r) /\ Tabled(a.r) \subseteq a.r.live /\ a.r.live \subseteq Obj
  BY <1>2, <1>8, <1>10 DEF Tabled, ArgsSound, Sound, RteTypeOK
<1>14. \A o \in Tabled(a.r) : w.r.val[o] = a.r.val[o]
  <2>1. Results(x) \cap Tabled(x.r) = {}
    BY <1>8 DEF ArgsSound, Results, Loose
  <2>2. Tabled(x.r) = Tabled(a.r)
    BY <1>8 DEF Tabled
  <2>3. QED
    BY <1>8, <1>10, <1>13, <2>1, <2>2 DEF Adds
<1>15. w.r.cache = r.cache /\ w.r.faults = r.faults /\ a.r.cache = r.cache
  BY <1>3, <1>8, <1>10 DEF Adds
<1>16. Fresh(w.r)
  BY <1>6, <1>13, <1>14, <1>15 DEF Fresh
<1>17. Moves(r, w.r, gone, loaded)
  <2>1. \A n \in Names : w.r.table[n] = a.r.table[n] /\ Held(w.r, n) = Held(a.r, n)
    BY <1>8, <1>10, <1>14 DEF Tabled, Held
  <2>2. QED
    BY <1>3, <2>1 DEF Moves
<1>18. /\ y.res = w.res /\ y.r.stack = w.r.stack /\ y.r.table = w.r.table
       /\ y.r.val = w.r.val /\ y.r.faults = w.r.faults /\ Fresh(y.r)
       /\ \A o \in Obj : y.r.cache[o] # NoValue =>
            \/ r.cache[o] # NoValue
            \/ fn = "accu" /\ o = a.f[1] /\ o \in Tabled(a.r)
  <2>1. CASE fn = "accu"
    <3>1. w.f[1] \in w.r.live /\ w.f[1] = a.f[1] /\ Sound(w.r) /\ RteTypeOK(w.r)
      <4>1. 1 \in DOMAIN w.f
        BY <1>1, <1>8, <1>10, <2>1 DEF ArgsTypeOK
      <4>2. QED
        BY <1>8, <1>10, <1>12, <2>1, <4>1 DEF ArgsSound, ArgsTypeOK
    <3>2. /\ Fresh(g) /\ g.faults = w.r.faults
          /\ \A v \in Obj : g.cache[v] # NoValue => w.r.cache[v] # NoValue \/ v = w.f[1]
          /\ \A v \in Obj : g.cache[v] # NoValue => v \in Tabled(w.r)
      BY <1>16, <3>1, LeaveGraphFresh
    <3>3. g.stack = w.r.stack /\ g.table = w.r.table /\ g.val = w.r.val
      <4>1. w.f[1] \in Obj
        BY <3>1 DEF RteTypeOK
      <4>2. QED
        BY <3>1, <4>1, LeaveGraphType, LeaveGraphFaults
    <3> HIDE DEF g
    <3>4. y.r = g /\ y.res = w.res
      BY <1>7, <1>10, <2>1 DEF ArgsTypeOK
    <3> HIDE DEF y, z
    <3>5. QED
      BY <1>13, <1>15, <2>1, <3>1, <3>2, <3>3, <3>4
  <2>2. CASE fn # "accu"
    <3>1. y = w
      BY <1>7, <2>2
    <3> HIDE DEF y
    <3>2. QED
      BY <1>15, <1>16, <3>1
  <2>3. QED
    BY <2>1, <2>2
<1> HIDE DEF y
<1>19. Moves(r, y.r, gone, loaded)
  <2>1. \A n \in Names : y.r.table[n] = w.r.table[n] /\ Held(y.r, n) = Held(w.r, n)
    BY <1>18 DEF Held
  <2>2. QED
    BY <1>17, <2>1 DEF Moves
<1>20. \A o \in Obj : y.r.cache[o] # NoValue =>
         \/ r.cache[o] # NoValue
         \/ fn = "accu" /\ e.obj = NoObj /\ ~e.last /\ y.r.table[e.name] = o
  BY <1>5, <1>8, <1>10, <1>18
<1>21. Len(y.res) = node.r
  BY <1>8, <1>10, <1>18
<1>22. Len(y.r.stack) = Len(s) - k /\ \A i \in 1 .. Len(s) - k : y.r.stack[i] = s[i]
  BY <1>2, <1>3, <1>8, <1>10, <1>18
<1>23. \A i \in 1 .. node.r : y.r.val[y.res[i]] = Semantics!Result(fn, Values(r, k), i)
  BY <1>9, <1>11, <1>18
<1>24. Fresh(y.r) /\ y.r.faults = r.faults
  BY <1>15, <1>18
<1>25. QED
  BY <1>19, <1>20, <1>21, <1>22, <1>23, <1>24 DEF y, gone, loaded, e

\* The entries below those that are popped denote what they did.
LEMMA LowerDenotes ==
  ASSUME NEW r, Sound(r), NEW t, Sorted(r.stack), NEW k \in Nat, k <= Len(r.stack),
         NEW loaded, Moves(r, t, GoneWith(r.stack, k), loaded),
         \A o \in Stacked(r) : (\E i \in 1 .. Len(r.stack) - k : r.stack[i].obj = o)
           => t.val[o] = r.val[o]
  PROVE  \A i \in 1 .. Len(r.stack) - k : Denotes(t, r.stack[i]) = Denotes(r, r.stack[i])
<1> DEFINE n == Len(r.stack)
           s == r.stack
<1>1. RteTypeOK(r) /\ n \in Nat /\ s \in Seq(Entries)
  BY DEF Sound, RteTypeOK
<1> SUFFICES ASSUME NEW i \in 1 .. n - k
             PROVE  Denotes(t, s[i]) = Denotes(r, s[i])
  OBVIOUS
<1>2. i \in 1 .. n
  <2>1. i \in 1 .. n - k
    OBVIOUS
  <2> HIDE DEF n
  <2>2. QED
    BY <1>1, <2>1
<1>3. s[i] \in Entries
  BY <1>1, <1>2
<1>4. s[i].obj # NoObj => t.val[s[i].obj] = r.val[s[i].obj]
  BY <1>1, <1>2, StackedType
<1>5. s[i].obj = NoObj => s[i].name \notin GoneWith(s, k)
  BY <1>1, LowerSorted
<1> HIDE DEF s, n
<1>6. QED
  BY <1>3, <1>4, <1>5, DenotesKept DEF s

(***************************************************************************)
(* What an operation leaves: its results, in place of its operands.        *)
(***************************************************************************)
Evaluated(r, t, node) ==
  LET k == node.k
      s == r.stack
      m == Len(s) - k
      e == s[m + 1]
  IN /\ Moves(r, t, GoneWith(s, k), LoadedWith(s, k))
     /\ Len(t.stack) = m + node.r
     /\ \A i \in 1 .. m : t.stack[i] = s[i] /\ Denotes(t, s[i]) = Denotes(r, s[i])
     /\ \A i \in 1 .. node.r :
          /\ t.stack[m + i].obj # NoObj
          /\ Denotes(t, t.stack[m + i]) = Semantics!Result(node.fn, Values(r, k), i)
     /\ Fresh(t) /\ t.faults = r.faults
     /\ \A o \in Obj : t.cache[o] # NoValue =>
          \/ r.cache[o] # NoValue
          \/ node.fn = "accu" /\ e.obj = NoObj /\ ~e.last /\ t.table[e.name] = o

\* The results are on the stack, and the operands are gone.
LEMMA PushEvaluates ==
  ASSUME NEW r, Owned(r), Cardinality(Free(r)) >= 4,
         NEW node, WellFormedExpr(node), node.fn \notin {"nop", "timeoutput"},
         Len(r.stack) >= node.k, Sorted(r.stack),
         Fresh(Arguments(r, node.k).r)
  PROVE  Evaluated(r, PushResults(Ready(r, node)), node)
<1> DEFINE k == node.k
           s == r.stack
           n == Len(s)
           m == n - k
           e == s[m + 1]
           y == Ready(r, node)
           pushed == [i \in DOMAIN y.res |-> StackedField(y.res[i])]
           t == PushResults(y)
           gone == GoneWith(s, k)
           loaded == LoadedWith(s, k)
<1>1. /\ k \in Nat /\ n \in Nat /\ m \in Nat /\ node.r \in 1 .. 2
      /\ RteTypeOK(r) /\ Sound(r) /\ k <= n
  <2>1. k \in 0 .. 2 /\ node.r \in 1 .. 2 /\ RteTypeOK(r) /\ Sound(r) /\ n \in Nat /\ n >= k
    BY DEF WellFormedExpr, Owned, Sound, RteTypeOK
  <2> HIDE DEF n, k
  <2>2. QED
    BY <2>1
<1>2. k = 2 => InOrder(s)
  <2>1. n >= k
    OBVIOUS
  <2>2. k = 2 => n >= 2
    <3> HIDE DEF n, k
    <3>1. QED
      BY <1>1, <2>1
  <2>3. QED
    BY <1>1, <2>2, SortedInOrder
<1>3. /\ Len(y.res) = node.r
      /\ Moves(r, y.r, gone, loaded)
      /\ Len(y.r.stack) = m
      /\ \A i \in 1 .. m : y.r.stack[i] = s[i]
      /\ \A i \in 1 .. node.r : y.r.val[y.res[i]] = Semantics!Result(node.fn, Values(r, k), i)
      /\ Fresh(y.r) /\ y.r.faults = r.faults
      /\ \A o \in Obj : y.r.cache[o] # NoValue =>
           \/ r.cache[o] # NoValue
           \/ node.fn = "accu" /\ e.obj = NoObj /\ ~e.last /\ y.r.table[e.name] = o
  BY <1>2, ReadyParts
<1>4. ArgsSound(y)
  BY ReadySound
<1>5. \A o \in r.live \ Results(y) : y.r.val[o] = r.val[o]
  BY ReadyCells
<1> HIDE DEF y, e, gone, loaded
<1>6. ArgsTypeOK(y) /\ RteTypeOK(y.r)
  BY <1>4 DEF ArgsSound, ArgsTypeOK
<1>7. /\ t.stack = y.r.stack \o pushed
      /\ pushed \in Seq(Entries) /\ Len(pushed) = Len(y.res)
      /\ t.table = y.r.table
  BY <1>6, PushResultsType
<1>8. t.val = y.r.val /\ t.faults = y.r.faults /\ t.cache = y.r.cache
  <2>1. Trims(y.r, t)
    BY <1>4, PushResultsTrims
  <2> DEFINE q == [y.r EXCEPT !.stack = @ \o pushed]
  <2>2. t = DeleteFromPcrme(q, Operands(y) \ Results(y))
    BY DEF PushResults
  <2>3. RteTypeOK(q) /\ q.cache = y.r.cache
    <3>1. y.r.stack \o pushed \in Seq(Entries)
      BY <1>6, <1>7 DEF RteTypeOK
    <3> HIDE DEF pushed
    <3>2. QED
      BY <1>6, <3>1, StackType
  <2> HIDE DEF q
  <2>4. t.cache = q.cache
    BY <2>2, <2>3, DeleteFromPcrmeType
  <2>5. QED
    BY <2>1, <2>3, <2>4 DEF Trims
<1>9. \A i \in 1 .. node.r : y.res[i] # NoObj /\ pushed[i].obj = y.res[i]
  <2>1. \A i \in 1 .. node.r : i \in DOMAIN y.res /\ y.res[i] \in Obj
    BY <1>3, <1>6 DEF ArgsTypeOK
  <2>2. QED
    BY <2>1, NullIsFree DEF StackedField
<1> HIDE DEF t, pushed
<1>10. /\ Len(t.stack) = m + node.r
       /\ \A i \in 1 .. m : t.stack[i] = s[i]
       /\ \A i \in 1 .. node.r : t.stack[m + i] = pushed[i]
  <2>1. y.r.stack \in Seq(Entries) /\ pushed \in Seq(Entries)
    BY <1>6, <1>7 DEF RteTypeOK
  <2>2. /\ Len(y.r.stack \o pushed) = Len(y.r.stack) + Len(pushed)
        /\ \A i \in 1 .. Len(y.r.stack) : (y.r.stack \o pushed)[i] = y.r.stack[i]
        /\ \A i \in 1 .. Len(pushed) :
             (y.r.stack \o pushed)[Len(y.r.stack) + i] = pushed[i]
    BY <2>1, Joined
  <2>3. Len(y.r.stack) = m /\ Len(pushed) = node.r
    BY <1>3, <1>7
  <2> HIDE DEF m
  <2>4. QED
    BY <1>3, <1>7, <2>2, <2>3
<1>11. Moves(r, t, gone, loaded)
  <2>1. \A v \in Names : t.table[v] = y.r.table[v] /\ Held(t, v) = Held(y.r, v)
    BY <1>7, <1>8 DEF Held
  <2>2. QED
    BY <1>3, <2>1 DEF Moves
<1>12. \A i \in 1 .. m : Denotes(t, s[i]) = Denotes(r, s[i])
  <2>1. ASSUME NEW o \in Stacked(r), NEW i \in 1 .. m, s[i].obj = o
        PROVE  t.val[o] = r.val[o]
    <3>1. y.r.stack[i].obj = o /\ o # NoObj /\ i \in 1 .. Len(y.r.stack)
      BY <1>3, <2>1 DEF Stacked
    <3>2. o \in Stacked(y.r)
      BY <1>6, <3>1, StackedType
    <3>3. o \notin Results(y)
      BY <1>4, <3>2 DEF ArgsSound, Results, Loose
    <3>4. o \in r.live
      BY <1>1 DEF Sound
    <3>5. QED
      BY <1>5, <1>8, <3>3, <3>4
  <2>2. \A o \in Stacked(r) : (\E i \in 1 .. Len(r.stack) - k : r.stack[i].obj = o)
          => t.val[o] = r.val[o]
    BY <2>1
  <2>3. Moves(r, t, GoneWith(r.stack, k), loaded)
    BY <1>11 DEF gone
  <2>4. \A i \in 1 .. Len(r.stack) - k : Denotes(t, r.stack[i]) = Denotes(r, r.stack[i])
    BY <1>1, <2>2, <2>3, LowerDenotes
  <2>5. QED
    BY <2>4
<1>13. \A i \in 1 .. node.r :
         /\ t.stack[m + i].obj # NoObj
         /\ Denotes(t, t.stack[m + i]) = Semantics!Result(node.fn, Values(r, k), i)
  <2> SUFFICES ASSUME NEW i \in 1 .. node.r
               PROVE  /\ t.stack[m + i].obj # NoObj
                      /\ Denotes(t, t.stack[m + i])
                           = Semantics!Result(node.fn, Values(r, k), i)
    OBVIOUS
  <2> DEFINE f == t.stack[m + i]
  <2>1. f.obj = y.res[i] /\ f.obj # NoObj
    BY <1>9, <1>10
  <2> HIDE DEF f
  <2>2. Denotes(t, f) = t.val[y.res[i]]
    BY <2>1, DenotesHeld
  <2>3. t.val[y.res[i]] = Semantics!Result(node.fn, Values(r, k), i)
    BY <1>3, <1>8
  <2>4. QED
    BY <2>1, <2>2, <2>3 DEF f
<1>14. Fresh(t)
  <2>1. Tabled(t) = Tabled(y.r)
    BY <1>7 DEF Tabled
  <2>2. QED
    BY <1>3, <1>8, <2>1 DEF Fresh
<1>15. t.faults = r.faults
  BY <1>3, <1>8
<1>16. \A o \in Obj : t.cache[o] # NoValue =>
         \/ r.cache[o] # NoValue
         \/ node.fn = "accu" /\ e.obj = NoObj /\ ~e.last /\ t.table[e.name] = o
  BY <1>3, <1>7, <1>8
<1> HIDE DEF m
<1>17. Evaluated(r, t, node)
  BY <1>10, <1>11, <1>12, <1>13, <1>14, <1>15, <1>16
     DEF Evaluated, gone, loaded, e, m
<1>18. QED
  BY <1>17 DEF t, y

\* A conversion to the type that the operand has keeps its value.
LEMMA RepushEvaluates ==
  ASSUME NEW r, Owned(r), Cardinality(Free(r)) >= 4,
         NEW node, WellFormedExpr(node), node.fn = "nop",
         Len(r.stack) >= node.k, Sorted(r.stack),
         Fresh(Arguments(r, node.k).r)
  PROVE  Evaluated(r, Repush(r), node)
<1> DEFINE k == node.k
           s == r.stack
           n == Len(s)
           m == n - k
           p == Pop(r)
           f == StackedField(p.obj)
           q == p.r
           t == PushEntry(q, f)
           gone == GoneWith(s, k)
           loaded == LoadedWith(s, k)
<1>1. /\ k = 1 /\ node.r = 1 /\ n \in Nat /\ n > 0 /\ Sound(r) /\ RteTypeOK(r)
      /\ Free(r) # {}
  BY RoomyAtFirst, RoomyIsFree DEF WellFormedExpr, Owned, Sound, RteTypeOK
<1>2. m \in Nat /\ n = m + 1 /\ 1 <= n
  <2> HIDE DEF n, k
  <2>1. QED
    BY <1>1
<1>3. Top(r) = s[n] /\ gone = LastNames(s[n]) /\ loaded = LoadedNames(s[n])
  BY <1>1, HighestEntries DEF Top
<1>4. Moves(r, q, gone, loaded) /\ q.val[p.obj] = Denotes(r, s[n])
  BY <1>1, <1>3, PopMoves
<1>5. /\ RteTypeOK(q) /\ p.obj \in Obj /\ Len(q.stack) = m
      /\ \A i \in 1 .. m : q.stack[i] = s[i]
      /\ Adds(r, q)
  <2>1. RteTypeOK(q) /\ p.obj \in Obj /\ Len(q.stack) = n - 1
        /\ \A i \in 1 .. Len(q.stack) : q.stack[i] = s[i]
    BY <1>1, PopType
  <2>2. Adds(r, q)
    BY <1>1, PopAdds
  <2>3. QED
    BY <1>1, <2>1, <2>2
<1>6. Repush(r) = t
  BY DEF Repush
<1>7. Fresh(q)
  BY <1>1 DEF Arguments
<1>8. f \in Entries /\ f.obj = p.obj /\ p.obj # NoObj
  BY <1>5, StackFieldType, NullIsFree DEF StackedField
<1> HIDE DEF p, q, f, gone, loaded
<1>9. /\ t.stack = Append(q.stack, f) /\ t.table = q.table /\ q.stack \in Seq(Entries)
  BY <1>5, <1>8, PushType DEF RteTypeOK
<1>10. t.val = q.val /\ t.cache = q.cache /\ t.faults = q.faults
  BY <1>5 DEF PushEntry, RteTypeOK
<1> HIDE DEF t
<1>11. /\ Len(t.stack) = m + 1 /\ t.stack[m + 1] = f
       /\ \A i \in 1 .. m : t.stack[i] = s[i]
  <2> DEFINE l == q.stack
  <2>1. /\ Len(Append(l, f)) = Len(l) + 1 /\ Append(l, f)[Len(l) + 1] = f
        /\ \A i \in 1 .. Len(l) : Append(l, f)[i] = l[i]
    BY <1>9
  <2> HIDE DEF m
  <2>2. QED
    BY <1>5, <1>9, <2>1
<1>12. Moves(r, t, gone, loaded)
  <2>1. \A v \in Names : t.table[v] = q.table[v] /\ Held(t, v) = Held(q, v)
    BY <1>9, <1>10 DEF Held
  <2>2. QED
    BY <1>4, <2>1 DEF Moves
<1>13. \A i \in 1 .. m : Denotes(t, s[i]) = Denotes(r, s[i])
  <2>1. \A o \in Stacked(r) : (\E i \in 1 .. Len(r.stack) - 1 : r.stack[i].obj = o)
          => t.val[o] = r.val[o]
    BY <1>1, <1>5, <1>10 DEF Sound, Adds
  <2>2. Moves(r, t, GoneWith(r.stack, 1), loaded)
    BY <1>1, <1>12 DEF gone
  <2>3. 1 \in Nat
    OBVIOUS
  <2>4. \A i \in 1 .. Len(r.stack) - 1 : Denotes(t, r.stack[i]) = Denotes(r, r.stack[i])
    BY <1>1, <1>2, <2>1, <2>2, <2>3, LowerDenotes
  <2>5. QED
    BY <1>1, <2>4
<1>14. \A i \in 1 .. node.r :
         /\ t.stack[m + i].obj # NoObj
         /\ Denotes(t, t.stack[m + i]) = Semantics!Result(node.fn, Values(r, k), i)
  <2>1. \A i \in 1 .. node.r : i = 1
    BY <1>1
  <2>2. Values(r, k)[1] = Denotes(r, s[n])
    BY <1>1, <1>2 DEF Values
  <2>3. Semantics!Result(node.fn, Values(r, k), 1) = Values(r, k)[1]
    BY DEF Semantics!Result
  <2>4. t.stack[m + 1].obj # NoObj /\ Denotes(t, t.stack[m + 1]) = q.val[p.obj]
    BY <1>8, <1>10, <1>11, DenotesHeld
  <2>5. QED
    BY <1>4, <2>1, <2>2, <2>3, <2>4
<1>15. Fresh(t)
  <2>1. Tabled(t) = Tabled(q)
    BY <1>9 DEF Tabled
  <2>2. QED
    BY <1>7, <1>10, <2>1 DEF Fresh
<1>16. t.faults = r.faults /\ t.cache = r.cache
  BY <1>5, <1>10 DEF Adds
<1> HIDE DEF m
<1>17. Evaluated(r, t, node)
  BY <1>1, <1>11, <1>12, <1>13, <1>14, <1>15, <1>16 DEF Evaluated, gone, loaded, m
<1>18. QED
  BY <1>6, <1>17

-------------------------------------------------------------------------------
(* Assignments and jumps *)

\* No graph is put in the cache.
Shrinks(r, t) == \A o \in Obj : t.cache[o] # NoValue => t.cache[o] = r.cache[o]

\* Two steps that cache nothing new.
LEMMA ShrinksTwice ==
  ASSUME NEW r, NEW s, NEW t, Shrinks(r, s), Shrinks(s, t)
  PROVE  Shrinks(r, t)
  BY DEF Shrinks

\* Only the names in set move.
MovesIn(set, r, t, gone, loaded) ==
  \A n \in set :
    /\ n \in gone => t.table[n] = NoObj
    /\ n \notin gone => /\ Held(t, n) = Held(r, n)
                        /\ r.table[n] # NoObj => t.table[n] = r.table[n]
                        /\ n \notin loaded => t.table[n] = r.table[n]

\* deleteValue takes one value out of the table, and its graph with it.
LEMMA DeleteValueParts ==
  ASSUME NEW r, Sound(r), NEW n \in Names
  PROVE  LET d == DeleteValue(r, n) IN
         /\ d.table = [r.table EXCEPT ![n] = NoObj] /\ d.val = r.val /\ Shrinks(r, d)
<1> DEFINE o == r.table[n]
           c == DeleteCacheEntry(r, o)
           d == DeleteAlways(c, {o})
           t == SetTable(d, n, NoObj)
           v == DeleteValue(r, n)
<1>1. RteTypeOK(r) /\ r.table \in [Names -> Obj \cup {NoObj}]
  BY DEF Sound, RteTypeOK
<1>2. v.table = [r.table EXCEPT ![n] = NoObj]
  BY <1>1, DeleteValueType
<1>3. v.val = r.val
  BY DeleteValueTrims DEF Trims
<1>4. CASE o = NoObj
  <2>1. v = r
    BY <1>4 DEF DeleteValue
  <2>2. Shrinks(r, v)
    BY <2>1 DEF Shrinks
  <2>3. QED
    BY <1>2, <1>3, <2>2
<1>5. CASE o # NoObj
  <2>1. c.cache = [r.cache EXCEPT ![o] = NoValue] /\ DOMAIN c = DOMAIN r
    BY <1>1 DEF DeleteCacheEntry, RteTypeOK
  <2> HIDE DEF c
  <2>2. d.cache = c.cache /\ DOMAIN d = DOMAIN r
    BY <1>1, <2>1 DEF DeleteAlways, RteTypeOK
  <2> HIDE DEF d
  <2>3. t.cache = d.cache
    BY <1>1, <2>2 DEF SetTable, RteTypeOK
  <2>4. v = t
    BY <1>5 DEF DeleteValue, d, c
  <2> HIDE DEF t, v
  <2>5. v.cache = [r.cache EXCEPT ![o] = NoValue]
    BY <2>1, <2>2, <2>3, <2>4
  <2>6. Shrinks(r, v)
    BY <1>1, <2>5 DEF Shrinks, RteTypeOK
  <2>7. QED
    BY <1>2, <1>3, <2>6 DEF v
<1>6. QED
  BY <1>4, <1>5

\* resetValue gives the name the value, or a copy of it.
LEMMA ResetValueParts ==
  ASSUME NEW r, Sound(r), Free(r) # {}, NEW n \in Names, NEW o \in r.live \ Stacked(r)
  PROVE  LET t == ResetValue(r, n, o) IN
         /\ t.table[n] # NoObj /\ Held(t, n) = r.val[o]
         /\ \A m \in Names \ {n} : t.table[m] = r.table[m] /\ Held(t, m) = Held(r, m)
         /\ Shrinks(r, t)
<1> DEFINE own == OwnCopy(r, o)
           s   == own.r
           u   == own.obj
           old == r.table[n]
           marked == SetReadOnly(s, u, TRUE)
           freed  == IF old = NoObj THEN marked ELSE DeleteAlways(marked, {old})
           t   == ResetValue(r, n, o)
<1>1. RteTypeOK(r) /\ Tabled(r) \subseteq r.live /\ o \in Obj
  BY DEF Sound, RteTypeOK
<1>2. Sound(s) /\ RteTypeOK(s) /\ u \in Obj /\ s.table = r.table
  BY <1>1, OwnCopySound, OwnCopyType DEF Sound
<1>3. Adds(r, s)
  BY <1>1, OwnCopyAdds
<1>4. t = IF u = old THEN s ELSE SetTable(freed, n, u)
  BY DEF ResetValue
<1>5. s.val[u] = r.val[o]
  <2>1. CASE r.ro[o]
    <3>1. own = New(r, r.val[o], FALSE)
      BY <2>1 DEF OwnCopy
    <3> DEFINE new == New(r, r.val[o], FALSE)
    <3>2. new.obj \in Obj
      BY <1>1, NewType
    <3>3. new.r.val = [r.val EXCEPT ![new.obj] = r.val[o]]
      BY <1>1 DEF New, RteTypeOK
    <3> HIDE DEF new
    <3>4. new.r.val[new.obj] = r.val[o]
      BY <1>1, <3>2, <3>3 DEF RteTypeOK
    <3>5. QED
      BY <3>1, <3>4 DEF new
  <2>2. CASE ~r.ro[o]
    BY <2>2 DEF OwnCopy
  <2>3. QED
    BY <2>1, <2>2
<1> HIDE DEF s, u
<1>6. marked.val = s.val /\ marked.cache = s.cache /\ marked.table = s.table
      /\ DOMAIN marked = DOMAIN s
  BY <1>2 DEF SetReadOnly, RteTypeOK
<1> HIDE DEF marked
<1>7. freed.val = s.val /\ freed.cache = s.cache /\ freed.table = s.table
      /\ DOMAIN freed = DOMAIN s
  BY <1>2, <1>6 DEF DeleteAlways, RteTypeOK
<1> HIDE DEF freed
<1>8. t.val = s.val /\ t.cache = s.cache
      /\ \A m \in Names : t.table[m] = IF m = n THEN u ELSE r.table[m]
  <2> DEFINE v == SetTable(freed, n, u)
  <2>1. v.val = s.val /\ v.cache = s.cache /\ v.table = [s.table EXCEPT ![n] = u]
    BY <1>2, <1>7 DEF SetTable, RteTypeOK
  <2> HIDE DEF v
  <2>2. \A m \in Names : [s.table EXCEPT ![n] = u][m] = IF m = n THEN u ELSE r.table[m]
    BY <1>2 DEF RteTypeOK
  <2>3. CASE u = old
    BY <1>2, <1>4, <2>3
  <2>4. CASE u # old
    BY <1>4, <2>1, <2>2, <2>4 DEF v
  <2>5. QED
    BY <2>3, <2>4
<1> HIDE DEF t
<1>9. u # NoObj
  BY <1>2, NullIsFree
<1>10. \A m \in Names : r.table[m] # NoObj => s.val[r.table[m]] = r.val[r.table[m]]
  BY <1>1, <1>3, TabledType DEF Adds
<1>11. t.table[n] # NoObj /\ Held(t, n) = r.val[o]
  BY <1>5, <1>8, <1>9 DEF Held
<1>12. \A m \in Names \ {n} : t.table[m] = r.table[m] /\ Held(t, m) = Held(r, m)
  BY <1>8, <1>10 DEF Held
<1>13. Shrinks(r, t)
  BY <1>3, <1>8 DEF Shrinks, Adds
<1>14. QED
  BY <1>11, <1>12, <1>13 DEF t

\* assignStackTop gives the name what the stack top denotes, if that is used.
LEMMA AssignMoves ==
  ASSUME NEW r, Owned(r), Roomy(r), Len(r.stack) > 0,
         NEW n \in Names, NEW lastUse \in BOOLEAN
  PROVE  LET t == AssignStackTop(r, n, lastUse)
             e == Top(r)
         IN /\ lastUse => t.table[n] = NoObj
            /\ ~lastUse => Held(t, n) = Denotes(r, e)
            /\ MovesIn(Names \ {n}, r, t, LastNames(e), LoadedNames(e))
            /\ Shrinks(r, t)
<1> DEFINE p == Pop(r)
           q == p.r
           o == p.obj
           e == Top(r)
           gone == LastNames(e)
           loaded == LoadedNames(e)
           t == AssignStackTop(r, n, lastUse)
<1>1. Sound(r) /\ RteTypeOK(r) /\ Free(r) # {}
  BY RoomyIsFree DEF Owned, Sound
<1>2. /\ Sound(q) /\ o \in q.live \ Stacked(q)
      /\ q.live \subseteq r.live \cup {o}
  BY <1>1, PopSound, PopType
<1>3. Adds(r, q)
  BY <1>1, PopAdds
<1>4. Moves(r, q, gone, loaded) /\ q.val[o] = Denotes(r, e)
  BY <1>1, PopMoves
<1>5. Free(q) # {} /\ RteTypeOK(q) /\ q.table \in [Names -> Obj \cup {NoObj}]
  BY <1>2, FreeAfter DEF Sound, RteTypeOK
<1> HIDE DEF p, q, o, e, gone, loaded
<1>6. ASSUME NEW s, \A m \in Names \ {n} : s.table[m] = q.table[m] /\ Held(s, m) = Held(q, m)
      PROVE  MovesIn(Names \ {n}, r, s, gone, loaded)
  BY <1>4, <1>6 DEF Moves, MovesIn
<1>7. ASSUME NEW s, Shrinks(q, s) PROVE Shrinks(r, s)
  BY <1>3, <1>7 DEF Shrinks, Adds
<1>8. CASE lastUse
  <2> DEFINE d == DeleteValue(q, n)
             f == DeleteFromPcrme(d, {o})
  <2>1. t = f
    BY <1>8 DEF AssignStackTop, p, q, o
  <2>2. d.table = [q.table EXCEPT ![n] = NoObj] /\ d.val = q.val /\ Shrinks(q, d)
    BY <1>2, DeleteValueParts
  <2>3. RteTypeOK(d)
    BY <1>5, DeleteValueType
  <2> HIDE DEF d
  <2>4. f.val = d.val /\ f.cache = d.cache /\ f.table = d.table
    BY <2>3, DeleteTrims, DeleteFromPcrmeType
  <2> HIDE DEF t, f
  <2>5. \A m \in Names : t.table[m] = IF m = n THEN NoObj ELSE q.table[m]
    BY <1>5, <2>1, <2>2, <2>4
  <2>6. t.val = q.val
    BY <2>1, <2>2, <2>4
  <2>7. \A m \in Names \ {n} : t.table[m] = q.table[m] /\ Held(t, m) = Held(q, m)
    BY <2>5, <2>6 DEF Held
  <2>8. Shrinks(q, t)
    BY <2>1, <2>2, <2>4 DEF Shrinks
  <2>9. MovesIn(Names \ {n}, r, t, gone, loaded)
    BY <1>6, <2>7
  <2>10. t.table[n] = NoObj
    BY <2>5
  <2>11. QED
    BY <1>7, <1>8, <2>8, <2>9, <2>10 DEF t, e, gone, loaded
<1>9. CASE ~lastUse
  <2> DEFINE s == ResetValue(q, n, o)
  <2>1. t = s
    BY <1>9 DEF AssignStackTop, p, q, o
  <2>2. /\ Held(s, n) = q.val[o]
        /\ \A m \in Names \ {n} : s.table[m] = q.table[m] /\ Held(s, m) = Held(q, m)
        /\ Shrinks(q, s)
    BY <1>2, <1>5, ResetValueParts
  <2> HIDE DEF s, t
  <2>3. MovesIn(Names \ {n}, r, s, gone, loaded)
    BY <1>6, <2>2
  <2>4. Held(t, n) = Denotes(r, e)
    BY <1>4, <2>1, <2>2
  <2>5. QED
    BY <1>7, <1>9, <2>1, <2>2, <2>3, <2>4 DEF t, e, gone, loaded
<1>10. QED
  BY <1>8, <1>9

\* A jump node forgets the names of its delete set, and their graphs.
LEMMA LeaveMoves ==
  ASSUME NEW r, Sound(r), NEW b \in BOOLEAN, NEW names,
         names = IF b THEN {} ELSE {n \in Names : <<Node.blk, n>> \in Script[prog].deletes}
  PROVE  LET t == Leave(r, b) IN
         /\ Moves(r, t, names, {}) /\ Shrinks(r, t)
         /\ \A n \in names : r.table[n] # NoObj => t.cache[r.table[n]] = NoValue
         /\ t.stack = r.stack /\ t.val = r.val
<1> DEFINE t == Leave(r, b)
<1>1. CASE b
  <2>1. t = r
    BY <1>1 DEF Leave
  <2> HIDE DEF t
  <2>2. QED
    BY <1>1, <2>1, MovesNothing DEF Shrinks, t
<1>2. CASE ~b
  <2> DEFINE objs == {r.table[n] : n \in names} \ {NoObj}
             d == DeleteAlways(r, objs)
             u == DeleteForwards(r, names)
  <2>1. t = u
    BY <1>2 DEF Leave
  <2>2. RteTypeOK(r) /\ names \subseteq Names
    BY <1>2 DEF Sound
  <2>3. u = [d EXCEPT
               !.table = [n \in Names |-> IF n \in names THEN NoObj ELSE r.table[n]],
               !.cache = [o \in Obj |-> IF o \in objs THEN NoValue ELSE r.cache[o]]]
    BY DEF DeleteForwards
  <2>9. \A n \in names : r.table[n] # NoObj => r.table[n] \in objs
    OBVIOUS
  <2> HIDE DEF objs
  <2>4. d.val = r.val /\ d.stack = r.stack /\ DOMAIN d = DOMAIN r
    BY <2>2 DEF DeleteAlways, RteTypeOK
  <2> HIDE DEF d
  <2>5. /\ u.val = r.val /\ u.stack = r.stack
        /\ u.table = [n \in Names |-> IF n \in names THEN NoObj ELSE r.table[n]]
        /\ u.cache = [o \in Obj |-> IF o \in objs THEN NoValue ELSE r.cache[o]]
    BY <2>2, <2>3, <2>4 DEF RteTypeOK
  <2> HIDE DEF t, u
  <2>6. Moves(r, u, names, {})
    BY <2>5 DEF Moves, Held
  <2>7. Shrinks(r, u)
    BY <2>5 DEF Shrinks
  <2>10. \A n \in names : r.table[n] # NoObj => u.cache[r.table[n]] = NoValue
    BY <2>2, <2>5, <2>9, TableType
  <2>8. QED
    BY <2>1, <2>5, <2>6, <2>7, <2>10 DEF t
<1>3. QED
  BY <1>1, <1>2

-------------------------------------------------------------------------------
(***************************************************************************)
(* What the visit of node i of script p does, from r to t on the way to    *)
(* node j: to the stack, to the names, to the values of the names that     *)
(* are assigned (ev is the environment afterwards) and to the cache.       *)
(***************************************************************************)
StackAt(p, i, s, t) ==
  LET m == Len(s) - Takes(Script[p].code, i) IN
  /\ Len(t) = m + Leaves(Script[p].code, i)
  /\ \A a \in 1 .. m : t[a] = s[a]
  /\ \A a \in m + 1 .. Len(t) : Shows(p, i, t[a])

\* The names that lose their value: read for the last time, or deleted.
GoneAt(p, i, j) ==
  {n \in Names : TakesLast(Script[p], Waits(p), i, n) \/ DeletesTo(Script[p], i, j, n)}
\* The names that the visit reads, and so may load.
ReadAt(p, i) ==
  {n \in Names : \E q \in Taken(Script[p].code, Waits(p), i) : Reads(Script[p].code, q, n)}
\* The names that the visit assigns to.
SetAt(p, i) == Names \cap Assigned(Script[p].code, i)

\* What the visit does to the other names.
MovesAt(p, i, j, r, t) ==
  MovesIn(Names \ SetAt(p, i), r, t, GoneAt(p, i, j), ReadAt(p, i))

\* What the visit does to the names that it assigns to.
AssignsAt(p, i, t, ev) ==
  \A n \in SetAt(p, i) :
    IF Keeps(Script[p], i, n) THEN Held(t, n) = ev[n] ELSE t.table[n] = NoObj

\* A graph stays, or is derived by an operator that routes over its field.
CacheAt(p, i, j, r, t) ==
  /\ \A o \in Obj : t.cache[o] # NoValue =>
       /\ t.cache[o] = r.cache[o] \/ t.cache[o] = t.val[o]
       /\ \/ r.cache[o] # NoValue
          \/ \E n \in Names : Routes(Script[p], Waits(p), i, n) /\ t.table[n] = o
  /\ \A n \in Names :
       /\ DeletesTo(Script[p], i, j, n) /\ ~TakesLast(Script[p], Waits(p), i, n)
       /\ n \notin SetAt(p, i) /\ r.table[n] # NoObj
       => t.cache[r.table[n]] = NoValue

\* The names that may have a graph, at each node.
Graphs(p) == GraphsIn(Script[p], Waits(p))

\* Each graph in the cache is fresh and belongs to a name that may have one.
Cached(p, i, r) ==
  \A o \in Obj : r.cache[o] # NoValue =>
    /\ r.cache[o] = r.val[o]
    /\ \E n \in Names : r.table[n] = o /\ (i = 0 \/ <<i, n>> \in Graphs(p))

\* So it is in every state of a run.
CacheInv == status = "running" => Cached(prog, cur, rte)

\* The names whose value some path still reads, at each node.
LiveNames(p) == LiveIn(Script[p].code)

\* The names that are still read have the values that they were assigned.
Current(p, i, r, ev) == \A n \in Names : <<i, n>> \in LiveNames(p) => Held(r, n) = ev[n]

\* So it is in every state of a run.
ValInv == status = "running" /\ cur # 0 => Current(prog, cur, rte, env)

\* Each name that holds a value has a reason to.
HeldInv ==
  status = "running" =>
    \A n \in Names : rte.table[n] # NoObj => HasReason(Script[prog], Waits(prog), cur, n)

\* A value for every name.
Total(ev) == ev = [n \in Names |-> ev[n]]

\* Every name has been given a value, if only that of its file.
EnvInv == Total(env)

\* With these no step adds a fault; with graphs by CacheInv.
SemInv ==
  /\ OwnInv /\ Deferral /\ FaultInv /\ rte.faults = {} /\ EnvInv
  /\ WaitInv /\ CacheInv /\ ValInv

-------------------------------------------------------------------------------
(* What holds at each visit *)

\* What the visit of a node finds on the stack.
LEMMA StackOfVisit ==
  ASSUME AllConsistent, TypeInv, WaitInv, Visiting
  PROVE  /\ prog \in DOMAIN Script /\ cur \in 1 .. Len(Code) /\ WellFormedNode(Code, cur)
         /\ RteTypeOK(rte) /\ Len(rte.stack) \in Nat /\ rte.stack \in Seq(Entries)
         /\ Waits(prog)[cur] \in Seq(Operand(prog))
         /\ Matches(prog, Waits(prog)[cur], rte.stack)
         /\ Takes(Code, cur) \in Nat /\ Leaves(Code, cur) \in Nat
         /\ Takes(Code, cur) <= Len(rte.stack)
         /\ Sorted(rte.stack)
<1>1. /\ prog \in DOMAIN Script /\ cur \in 1 .. Len(Code) /\ WellFormedNode(Code, cur)
      /\ RteTypeOK(rte) /\ Len(rte.stack) \in Nat /\ rte.stack \in Seq(Entries)
  BY VisitingType DEF TypeInv, TypeOK, At, RteTypeOK
<1>2. Balanced(Code, Waits(prog)) /\ UsesKept(Script[prog], Waits(prog), LiveIn(Code), Names)
  BY <1>1, ScriptBalanced DEF Code
<1>3. /\ Waits(prog)[cur] \in Seq(Operand(prog)) /\ Takes(Code, cur) <= Len(Waits(prog)[cur])
  BY <1>1, <1>2 DEF Balanced, Operand, Code
<1>4. Matches(prog, Waits(prog)[cur], rte.stack)
  BY DEF WaitInv, Visiting
<1>5. PopsInOrder(Script[prog], Waits(prog)[cur], Names)
  BY <1>1, <1>2 DEF UsesKept, Code
<1>6. Sorted(rte.stack)
  BY <1>1, <1>3, <1>4, <1>5, SortedMatches
<1>7. Takes(Code, cur) \in Nat /\ Leaves(Code, cur) \in Nat
  BY <1>1, TakesType
<1>8. Takes(Code, cur) <= Len(rte.stack)
  BY <1>3, <1>4 DEF Matches
<1>9. QED
  BY <1>1, <1>3, <1>4, <1>6, <1>7, <1>8

\* The visit of a node leads to one of its successors.
LEMMA NextNode ==
  ASSUME TypeInv, Visiting, NEW b \in BOOLEAN,
         b => Node.op = "jump" /\ HasBackBranch(Node.kind), Advance(b)
  PROVE  /\ cur' \in SuccSet(Code, cur) /\ cur' \in 0 .. Len(Code)
         /\ cur' # 0 => cur' \in Next1(Code, cur)
         /\ \/ cur' = cur + 1 /\ cur < Len(Code)
            \/ cur' = 0 /\ cur = Len(Code)
            \/ cur' \in 1 .. Len(Code) /\ Node.op = "jump" /\ Code[cur'].op = "enter"
<1>1. cur \in 1 .. Len(Code) /\ Len(Code) \in Nat /\ WellFormedNode(Code, cur)
      /\ Node = Code[cur]
  BY CodeType DEF TypeInv, Visiting, At, Node
<1>2. cur' \in 0 .. Len(Code)
  BY SuccType DEF TypeInv, Visiting
<1>3. cur' = Succ(Code, cur, b)
  BY DEF Advance
<1>4. cur' \in SuccSet(Code, cur)
  <2>1. CASE b
    <3>1. Succ(Code, cur, b) = Succ(Code, cur, TRUE)
      BY <2>1 DEF Succ
    <3>2. QED
      BY <1>1, <1>3, <2>1, <3>1 DEF SuccSet
  <2>2. CASE ~b
    <3>1. Succ(Code, cur, b) = Succ(Code, cur, FALSE)
      BY <2>2 DEF Succ
    <3>2. QED
      BY <1>3, <3>1 DEF SuccSet
  <2>3. QED
    BY <2>1, <2>2
<1>5. cur' # 0 => cur' \in Next1(Code, cur)
  BY <1>1, <1>2, <1>4 DEF Next1
<1>6. CASE b
  <2>1. cur' = Code[cur].blk
    BY <1>3, <1>6 DEF Succ
  <2>2. Code[cur].blk \in 1 .. cur - 1 /\ Code[Code[cur].blk].op = "enter"
    BY <1>1, <1>6 DEF WellFormedNode
  <2>3. QED
    BY <1>1, <1>2, <1>4, <1>5, <1>6, <2>1, <2>2
<1>7. CASE ~b
  <2>1. cur' = IF cur < Len(Code) THEN cur + 1 ELSE 0
    BY <1>3, <1>7 DEF Succ
  <2>2. QED
    BY <1>1, <1>2, <1>4, <1>5, <2>1
<1>8. QED
  BY <1>6, <1>7

\* The next node finds on the stack what waits for it.
LEMMA StepWaitInv ==
  ASSUME AllConsistent, TypeInv, WaitInv, Visiting, NEW b \in BOOLEAN,
         b => Node.op = "jump" /\ HasBackBranch(Node.kind), Advance(b),
         UNCHANGED prog, RteTypeOK(rte'), StackAt(prog, cur, rte.stack, rte'.stack)
  PROVE  WaitInv'
<1> DEFINE c == Script[prog].code
           w == Waits(prog)
           s == rte.stack
           t == rte'.stack
           k == Takes(c, cur)
           l == Leaves(c, cur)
           after == After(c, cur, w[cur])
           m == Len(s) - k
<1>1. /\ prog \in DOMAIN Script /\ cur \in 1 .. Len(c) /\ Len(s) \in Nat
      /\ w[cur] \in Seq(Operand(prog)) /\ Matches(prog, w[cur], s)
      /\ k \in Nat /\ l \in Nat /\ k <= Len(s) /\ c = Code
  BY StackOfVisit DEF Code
<1>2. k <= Len(w[cur])
  BY <1>1 DEF Matches
<1>3. /\ Len(t) = (Len(s) - k) + l
      /\ \A a \in 1 .. Len(s) - k : t[a] = s[a]
      /\ \A a \in (Len(s) - k) + 1 .. Len(t) : Shows(prog, cur, t[a])
  BY DEF StackAt
<1> HIDE DEF s, t, k, l, w, c
<1>4. Matches(prog, after, t)
  <2>1. k = Takes(Script[prog].code, cur) /\ l = Leaves(Script[prog].code, cur)
    BY DEF k, l, c
  <2>2. Matches(prog, After(Script[prog].code, cur, w[cur]), t)
    BY <1>1, <1>2, <1>3, <2>1, AfterMatches DEF c
  <2>3. QED
    BY <2>2 DEF c
<1> HIDE DEF after
<1>5. Balanced(c, w)
  BY <1>1, ScriptBalanced DEF c, w
<1>6. /\ cur < Len(c) => w[cur + 1] = after
      /\ c[cur].op = "jump" \/ cur = Len(c) => after = << >>
      /\ \A i \in 1 .. Len(c) : c[i].op = "enter" => w[i] = << >>
  BY <1>1, <1>5 DEF Balanced, after
<1>7. \/ cur' = cur + 1 /\ cur < Len(c)
      \/ cur' = 0 /\ cur = Len(c)
      \/ cur' \in 1 .. Len(c) /\ c[cur].op = "jump" /\ c[cur'].op = "enter"
  BY <1>1, NextNode DEF Node
<1>8. t \in Seq(Entries)
  BY DEF RteTypeOK, t
<1>9. IF cur' = 0 THEN t = << >> ELSE Matches(prog, w[cur'], t)
  <2>1. CASE cur' = cur + 1 /\ cur < Len(c)
    <3>1. cur' # 0
      BY <1>1, <2>1
    <3>2. QED
      BY <1>4, <1>6, <2>1, <3>1
  <2>2. CASE cur' = 0 /\ cur = Len(c)
    <3>1. after = << >>
      BY <1>6, <2>2
    <3>2. Len(t) = 0
      BY <1>4, <3>1 DEF Matches
    <3>3. QED
      BY <1>8, <2>2, <3>2
  <2>3. CASE cur' \in 1 .. Len(c) /\ c[cur].op = "jump" /\ c[cur'].op = "enter"
    <3>1. after = << >> /\ w[cur'] = << >> /\ cur' # 0
      BY <1>6, <2>3
    <3>2. QED
      BY <1>4, <3>1
  <2>4. QED
    BY <1>7, <2>1, <2>2, <2>3
<1>10. prog' = prog
  OBVIOUS
<1>11. QED
  BY <1>9, <1>10 DEF WaitInv, w, t

\* A graph in the cache is of a name that keeps its value.
LEMMA StepCacheInv ==
  ASSUME AllConsistent, EnableCache, NEW p \in DOMAIN Script,
         NEW i \in 1 .. Len(Script[p].code), NEW j \in 0 .. Len(Script[p].code),
         j # 0 => j \in Next1(Script[p].code, i),
         NEW r, NEW t, Cached(p, i, r), MovesAt(p, i, j, r, t), CacheAt(p, i, j, r, t)
  PROVE  Cached(p, j, t)
<1> DEFINE x == Script[p]
           w == Waits(p)
           G == Graphs(p)
<1>1. GraphsDeleted(x, w, G)
  BY ScriptBalanced DEF Graphs
<1>2. \A n \in Names :
        /\ <<i, n>> \in G => n \notin SetAt(p, i) /\ ~TakesLast(x, w, i, n)
        /\ j # 0 => (Routes(x, w, i, n) \/ (<<i, n>> \in G /\ ~DeletesTo(x, i, j, n))
                       => <<j, n>> \in G)
  BY <1>1 DEF GraphsDeleted, SetAt
<1> SUFFICES ASSUME NEW o \in Obj, t.cache[o] # NoValue
             PROVE  /\ t.cache[o] = t.val[o]
                    /\ \E n \in Names : t.table[n] = o /\ (j = 0 \/ <<j, n>> \in G)
  BY DEF Cached
<1>3. /\ t.cache[o] = r.cache[o] \/ t.cache[o] = t.val[o]
      /\ \/ r.cache[o] # NoValue
         \/ \E n \in Names : Routes(x, w, i, n) /\ t.table[n] = o
  BY DEF CacheAt
<1>4. CASE r.cache[o] = NoValue
  <2>1. t.cache[o] = t.val[o]
    BY <1>3, <1>4
  <2>2. PICK n \in Names : Routes(x, w, i, n) /\ t.table[n] = o
    BY <1>3, <1>4
  <2>3. j = 0 \/ <<j, n>> \in G
    BY <1>2, <2>2
  <2>4. QED
    BY <2>1, <2>2, <2>3
<1>5. CASE r.cache[o] # NoValue
  <2>1. r.cache[o] = r.val[o] /\ o # NoObj
    BY <1>5, NullIsFree DEF Cached
  <2>2. PICK n \in Names : r.table[n] = o /\ (i = 0 \/ <<i, n>> \in G)
    BY <1>5 DEF Cached
  <2>3. <<i, n>> \in G
    BY <2>2
  <2>4. n \notin SetAt(p, i) /\ ~TakesLast(x, w, i, n)
    BY <1>2, <2>3
  <2>5. ~DeletesTo(x, i, j, n)
    BY <2>1, <2>2, <2>4 DEF CacheAt
  <2>6. n \notin GoneAt(p, i, j)
    BY <2>4, <2>5 DEF GoneAt
  <2>7. Held(t, n) = Held(r, n) /\ t.table[n] = o
    BY <2>1, <2>2, <2>4, <2>6 DEF MovesAt, MovesIn
  <2>8. t.val[o] = r.val[o]
    BY <2>1, <2>2, <2>7 DEF Held
  <2>9. j = 0 \/ <<j, n>> \in G
    BY <1>2, <2>3, <2>5
  <2>10. QED
    BY <1>3, <2>1, <2>7, <2>8, <2>9
<1>6. QED
  BY <1>4, <1>5

\* A name that is still read has the value that it was assigned.
LEMMA StepValInv ==
  ASSUME AllConsistent, NEW p \in DOMAIN Script,
         NEW i \in 1 .. Len(Script[p].code), NEW j \in Next1(Script[p].code, i),
         NEW r, NEW t, NEW ev, NEW ew, Current(p, i, r, ev),
         MovesAt(p, i, j, r, t), AssignsAt(p, i, t, ew),
         \A n \in Names \ SetAt(p, i) : ew[n] = ev[n]
  PROVE  Current(p, j, t, ew)
<1> DEFINE x == Script[p]
           w == Waits(p)
<1>1. UsesKept(x, w, LiveNames(p), Names)
  BY ScriptBalanced DEF LiveNames
<1> SUFFICES ASSUME NEW n \in Names, <<j, n>> \in LiveNames(p)
             PROVE  Held(t, n) = ew[n]
  BY DEF Current
<1>2. /\ ~DeletesTo(x, i, j, n)
      /\ IF n \in SetAt(p, i) THEN Keeps(x, i, n)
         ELSE <<i, n>> \in LiveNames(p) /\ ~TakesLast(x, w, i, n)
  BY <1>1 DEF UsesKept, SetAt
<1>3. CASE n \in SetAt(p, i)
  BY <1>2, <1>3 DEF AssignsAt
<1>4. CASE n \notin SetAt(p, i)
  <2>1. n \notin GoneAt(p, i, j)
    BY <1>2, <1>4 DEF GoneAt
  <2>2. Held(t, n) = Held(r, n)
    BY <1>4, <2>1 DEF MovesAt, MovesIn
  <2>3. QED
    BY <1>2, <1>4, <2>2 DEF Current
<1>5. QED
  BY <1>3, <1>4

\* A name that has a value has a reason to.
LEMMA StepHeldInv ==
  ASSUME AllConsistent, NEW p \in DOMAIN Script,
         NEW i \in 1 .. Len(Script[p].code),
         NEW j \in SuccSet(Script[p].code, i) \cap (0 .. Len(Script[p].code)),
         NEW r, NEW t, NEW ev,
         \A n \in Names : r.table[n] # NoObj => HasReason(Script[p], Waits(p), i, n),
         MovesAt(p, i, j, r, t), AssignsAt(p, i, t, ev)
  PROVE  \A n \in Names : t.table[n] # NoObj => HasReason(Script[p], Waits(p), j, n)
<1> DEFINE x == Script[p]
           w == Waits(p)
<1>1. UsesEnd(x, w, Names)
  BY ScriptBalanced
<1> SUFFICES ASSUME NEW n \in Names, t.table[n] # NoObj, ~HasReason(x, w, j, n)
             PROVE  FALSE
  OBVIOUS
<1>2. IF n \in SetAt(p, i) THEN ~Keeps(x, i, n)
      ELSE \/ TakesLast(x, w, i, n)
           \/ DeletesTo(x, i, j, n)
           \/ /\ ~HasReason(x, w, i, n)
              /\ \A q \in Taken(x.code, w, i) : ~Reads(x.code, q, n)
  BY <1>1 DEF UsesEnd, SetAt
<1>3. CASE n \in SetAt(p, i)
  BY <1>2, <1>3 DEF AssignsAt
<1>4. CASE n \notin SetAt(p, i)
  <2>1. n \notin GoneAt(p, i, j)
    BY <1>4 DEF MovesAt, MovesIn
  <2>2. ~HasReason(x, w, i, n) /\ n \notin ReadAt(p, i)
    BY <1>2, <1>4, <2>1 DEF GoneAt, ReadAt
  <2>3. t.table[n] = r.table[n]
    BY <1>4, <2>1, <2>2 DEF MovesAt, MovesIn
  <2>4. QED
    BY <2>2, <2>3
<1>5. QED
  BY <1>3, <1>4

-------------------------------------------------------------------------------
(* The visits of nodes that take nothing *)

\* What the visit of node i does to the environment and to the names.
Visits(p, i, j, r, t, ev, ew) ==
  /\ StackAt(p, i, r.stack, t.stack)
  /\ MovesAt(p, i, j, r, t) /\ AssignsAt(p, i, t, ew) /\ CacheAt(p, i, j, r, t)
  /\ \A n \in Names \ SetAt(p, i) : ew[n] = ev[n]
  /\ t.faults = r.faults

\* A node that takes nothing and is no jump gives no name another value.
LEMMA TakesNothing ==
  ASSUME NEW p \in DOMAIN Script, NEW i \in 1 .. Len(Script[p].code), NEW j,
         Waits(p)[i] \in Seq(Operand(p)),
         Script[p].code[i].op \notin {"ass", "jump"}, Takes(Script[p].code, i) = 0,
         NEW r, NEW t, NEW ev, t.table = r.table, t.cache = r.cache, t.faults = r.faults,
         \A o \in Tabled(r) : t.val[o] = r.val[o],
         StackAt(p, i, r.stack, t.stack)
  PROVE  Visits(p, i, j, r, t, ev, ev)
<1> DEFINE x == Script[p]
           w == Waits(p)
<1>1. SetAt(p, i) = {}
  BY DEF SetAt, Assigned
<1>2. Taken(x.code, w, i) = {}
  BY DEF Taken
<1>3. GoneAt(p, i, j) = {} /\ ReadAt(p, i) = {}
  BY <1>2 DEF GoneAt, ReadAt, TakesLast, DeletesTo
<1>4. Moves(r, t, {}, {})
  BY MovesNothing
<1>5. MovesAt(p, i, j, r, t)
  BY <1>1, <1>3, <1>4 DEF MovesAt, MovesIn, Moves
<1>6. AssignsAt(p, i, t, ev)
  BY <1>1 DEF AssignsAt
<1>7. CacheAt(p, i, j, r, t)
  BY DEF CacheAt, DeletesTo
<1>8. QED
  BY <1>5, <1>6, <1>7 DEF Visits

\* One entry more on the stack.
LEMMA PushAt ==
  ASSUME NEW p \in DOMAIN Script, NEW i \in 1 .. Len(Script[p].code),
         NEW s \in Seq(Entries), NEW e \in Entries, Shows(p, i, e),
         Takes(Script[p].code, i) = 0, Leaves(Script[p].code, i) = 1
  PROVE  StackAt(p, i, s, Append(s, e))
<1> DEFINE t == Append(s, e)
           n == Len(s)
<1>1. n \in Nat /\ Len(t) = n + 1 /\ t[n + 1] = e /\ \A a \in 1 .. n : t[a] = s[a]
  OBVIOUS
<1> HIDE DEF t, n
<1>2. \A a \in n + 1 .. Len(t) : a = n + 1
  BY <1>1
<1>3. \A a \in n + 1 .. Len(t) : Shows(p, i, t[a])
  BY <1>1, <1>2
<1>4. n - 0 = n
  BY <1>1
<1>5. StackAt(p, i, s, t)
  BY <1>1, <1>3, <1>4 DEF StackAt, n
<1>6. QED
  BY <1>5 DEF t

\* The stack stays as it is.
LEMMA SameAt ==
  ASSUME NEW p \in DOMAIN Script, NEW i \in 1 .. Len(Script[p].code),
         NEW s \in Seq(Entries),
         Takes(Script[p].code, i) = 0, Leaves(Script[p].code, i) = 0
  PROVE  StackAt(p, i, s, s)
<1> DEFINE n == Len(s)
<1>1. n \in Nat
  OBVIOUS
<1> HIDE DEF n
<1>2. n - 0 = n /\ n = n + 0 /\ n + 1 .. n = {}
  BY <1>1
<1>3. QED
  BY <1>2 DEF StackAt, n

\* The visit of a name.
LEMMA VisitParVisits ==
  ASSUME AllConsistent, SemInv, VisitPar
  PROVE  Visits(prog, cur, cur', rte, rte', env, env')
<1> DEFINE e == StackedValue(Node.name, IsLast(0))
<1>1. /\ prog \in DOMAIN Script /\ cur \in 1 .. Len(Code) /\ RteTypeOK(rte)
      /\ rte.stack \in Seq(Entries) /\ Waits(prog)[cur] \in Seq(Operand(prog))
      /\ WellFormedNode(Code, cur)
  BY StackOfVisit DEF SemInv, OwnInv, VisitPar
<1>2. Node = Code[cur] /\ Node.op = "par" /\ Node.name \in Names /\ IsLast(0) \in BOOLEAN
  BY <1>1 DEF VisitPar, WellFormedNode, Node, IsLast
<1>3. e \in Entries
  BY <1>2, StackValueType
<1>4. rte' = PushEntry(rte, e) /\ env' = env
  BY DEF VisitPar
<1>5. /\ rte'.table = rte.table /\ rte'.stack = Append(rte.stack, e)
  BY <1>1, <1>3, <1>4, PushType
<1>6. rte'.val = rte.val /\ rte'.cache = rte.cache /\ rte'.faults = rte.faults
  BY <1>1, <1>4 DEF PushEntry, RteTypeOK
<1>7. Shows(prog, cur, e)
  BY <1>2 DEF Shows, PushesField, IsLast, Code
<1>8. Takes(Code, cur) = 0 /\ Leaves(Code, cur) = 1
  BY <1>2 DEF Takes, Leaves
<1>9. StackAt(prog, cur, rte.stack, Append(rte.stack, e))
  BY <1>1, <1>3, <1>7, <1>8, PushAt DEF Code
<1> HIDE DEF e
<1>10. QED
  BY <1>1, <1>2, <1>4, <1>5, <1>6, <1>8, <1>9, TakesNothing DEF Code

\* The visit of a number.
LEMMA VisitNumberVisits ==
  ASSUME AllConsistent, SemInv, VisitNumber
  PROVE  Visits(prog, cur, cur', rte, rte', env, env')
<1> DEFINE v == <<"number", << >> >>
           new == New(rte, v, FALSE)
           e == StackedField(new.obj)
<1>1. /\ prog \in DOMAIN Script /\ cur \in 1 .. Len(Code) /\ RteTypeOK(rte)
      /\ rte.stack \in Seq(Entries) /\ Waits(prog)[cur] \in Seq(Operand(prog))
      /\ Free(rte) # {} /\ Owned(rte)
  BY StackOfVisit, VisitingType DEF SemInv, OwnInv, VisitNumber, Visiting, TypeInv
<1>2. Node = Code[cur] /\ Node.op = "num"
  BY <1>1 DEF VisitNumber, Node
<1>3. /\ RteTypeOK(new.r) /\ new.obj \in Obj
      /\ new.r.stack = rte.stack /\ new.r.table = rte.table
  BY <1>1, NewType
<1>4. Adds(rte, new.r)
  BY <1>1, NewAdds
<1>5. rte' = PushEntry(new.r, e) /\ env' = env
  BY DEF VisitNumber
<1> HIDE DEF new
<1>6. e \in Entries
  BY <1>3, StackFieldType
<1>7. rte'.table = rte.table /\ rte'.stack = Append(rte.stack, e)
  BY <1>3, <1>5, <1>6, PushType
<1>8. rte'.val = new.r.val /\ rte'.cache = new.r.cache /\ rte'.faults = new.r.faults
  BY <1>3, <1>5 DEF PushEntry, RteTypeOK
<1>9. Tabled(rte) \subseteq rte.live
  BY <1>1 DEF Owned, Sound
<1>10. /\ \A o \in Tabled(rte) : rte'.val[o] = rte.val[o]
       /\ rte'.cache = rte.cache /\ rte'.faults = rte.faults
  BY <1>4, <1>8, <1>9 DEF Adds
<1>11. Shows(prog, cur, e)
  <2>1. e.obj # NoObj
    BY <1>3, NullIsFree DEF StackedField
  <2>2. QED
    BY <1>2, <2>1 DEF Shows, Code
<1>12. Takes(Code, cur) = 0 /\ Leaves(Code, cur) = 1
  BY <1>2 DEF Takes, Leaves
<1>13. StackAt(prog, cur, rte.stack, Append(rte.stack, e))
  BY <1>1, <1>6, <1>11, <1>12, PushAt DEF Code
<1> HIDE DEF e
<1>14. QED
  BY <1>1, <1>2, <1>5, <1>7, <1>10, <1>12, <1>13, TakesNothing DEF Code

\* Nodes that leave the environment as it is.
LEMMA IdleVisits ==
  ASSUME AllConsistent, SemInv,
         DeferTimeoutput \/ VisitStat \/ VisitNonAssExpr \/ VisitBlockEntrance
  PROVE  Visits(prog, cur, cur', rte, rte', env, env')
<1>1. Visiting /\ rte' = rte /\ env' = env
  BY DEF DeferTimeoutput, VisitStat, VisitNonAssExpr, VisitBlockEntrance
<1>2. /\ prog \in DOMAIN Script /\ cur \in 1 .. Len(Code) /\ RteTypeOK(rte)
      /\ rte.stack \in Seq(Entries) /\ Waits(prog)[cur] \in Seq(Operand(prog))
  BY <1>1, StackOfVisit DEF SemInv, OwnInv
<1>3. /\ Code[cur].op \in {"expr", "stat", "nonass", "enter"}
      /\ Code[cur].op = "expr" => IsDeferred(Code[cur])
  BY DEF DeferTimeoutput, VisitStat, VisitNonAssExpr, VisitBlockEntrance, Node, IsDeferred
<1>4. Takes(Code, cur) = 0 /\ Leaves(Code, cur) = 0
  BY <1>3 DEF Takes, Leaves
<1>5. StackAt(prog, cur, rte.stack, rte.stack)
  BY <1>2, <1>4, SameAt DEF Code
<1>6. QED
  BY <1>1, <1>2, <1>3, <1>4, <1>5, TakesNothing DEF Code

-------------------------------------------------------------------------------
(* The visit of an operator *)

\* The operands of an operator are taken with only the graphs that are right.
LEMMA FreshArguments ==
  ASSUME AllConsistent, SemInv, Visiting, Node.op = "expr", Node.fn # "timeoutput"
  PROVE  /\ Owned(rte) /\ Cardinality(Free(rte)) >= 4 /\ Sorted(rte.stack)
         /\ prog \in DOMAIN Script /\ cur \in 1 .. Len(Code) /\ Node = Code[cur]
         /\ WellFormedExpr(Node) /\ FollowsOperands(Code, cur)
         /\ Node.k = Takes(Code, cur) /\ Node.r = Leaves(Code, cur)
         /\ Len(rte.stack) >= Node.k
         /\ Waits(prog)[cur] \in Seq(Operand(prog))
         /\ Matches(prog, Waits(prog)[cur], rte.stack)
         /\ Fresh(Arguments(rte, Node.k).r)
<1> DEFINE a == Arguments(rte, Node.k)
<1>1. /\ prog \in DOMAIN Script /\ cur \in 1 .. Len(Code) /\ WellFormedNode(Code, cur)
      /\ RteTypeOK(rte) /\ Waits(prog)[cur] \in Seq(Operand(prog))
      /\ Matches(prog, Waits(prog)[cur], rte.stack)
      /\ Takes(Code, cur) \in Nat /\ Takes(Code, cur) <= Len(rte.stack)
      /\ Sorted(rte.stack) /\ Len(rte.stack) \in Nat
  BY StackOfVisit DEF SemInv, OwnInv
<1>2. Owned(rte) /\ Cardinality(Free(rte)) >= 4 /\ Roomy(rte)
  BY VisitingType DEF SemInv, OwnInv, TypeInv, Visiting
<1>3. Node = Code[cur] /\ WellFormedExpr(Node) /\ FollowsOperands(Code, cur)
  BY <1>1 DEF WellFormedNode, Node
<1>4. Node.k = Takes(Code, cur) /\ Node.r = Leaves(Code, cur)
  BY <1>3 DEF Takes, Leaves, IsDeferred
<1>5. Len(rte.stack) >= Node.k /\ Node.k \in 0 .. 2
  BY <1>1, <1>3, <1>4 DEF WellFormedExpr
<1>6. Fresh(a.r)
  <2>1. CASE ~EnableCache
    <3>1. NoCache(rte)
      BY <2>1 DEF SemInv, FaultInv, NoGraphs
    <3>2. Adds(rte, a.r)
      BY <1>2, <1>5, ArgumentsAdds DEF Owned
    <3>3. QED
      BY <3>1, <3>2 DEF Fresh, NoCache, Adds
  <2>2. CASE EnableCache
    <3>1. Adds(rte, a.r)
      BY <1>2, <1>5, ArgumentsAdds DEF Owned
    <3>2. Node.k = 2 => InOrder(rte.stack)
      BY <1>1, <1>5, SortedInOrder
    <3>3. Moves(rte, a.r, GoneWith(rte.stack, Node.k), LoadedWith(rte.stack, Node.k))
      BY <1>2, <1>5, <3>2, ArgumentsMoves DEF Owned
    <3>4. \A n : n \in GoneWith(rte.stack, Node.k) <=> TakesLast(Script[prog], Waits(prog), cur, n)
      BY <1>1, <1>4, <1>5, GoneIsTaken DEF Code
    <3>5. GraphsDeleted(Script[prog], Waits(prog), Graphs(prog))
      BY <1>1, <2>2, ScriptBalanced DEF Graphs
    <3>6. \A n \in Names : <<cur, n>> \in Graphs(prog) =>
                             ~TakesLast(Script[prog], Waits(prog), cur, n)
      BY <1>1, <3>5 DEF GraphsDeleted, Code
    <3>7. Cached(prog, cur, rte) /\ cur # 0
      BY DEF SemInv, CacheInv, Visiting
    <3> SUFFICES ASSUME NEW o \in Obj, a.r.cache[o] # NoValue
                 PROVE  o \in Tabled(a.r) /\ a.r.cache[o] = a.r.val[o]
      BY DEF Fresh
    <3>8. rte.cache[o] # NoValue /\ a.r.cache[o] = rte.cache[o]
      BY <3>1 DEF Adds
    <3>9. PICK n \in Names : rte.table[n] = o /\ <<cur, n>> \in Graphs(prog)
      BY <3>7, <3>8 DEF Cached
    <3>10. o # NoObj
      BY NullIsFree
    <3>11. a.r.table[n] = o
      BY <3>3, <3>4, <3>6, <3>9, <3>10 DEF Moves
    <3>12. o \in Tabled(a.r) /\ o \in Tabled(rte)
      BY <3>9, <3>10, <3>11 DEF Tabled
    <3>13. a.r.val[o] = rte.val[o]
      BY <1>2, <3>1, <3>12 DEF Adds, Owned, Sound
    <3>14. rte.cache[o] = rte.val[o]
      BY <3>7, <3>8 DEF Cached
    <3>15. QED
      BY <3>8, <3>12, <3>13, <3>14
  <2>3. QED
    BY <2>1, <2>2
<1>7. QED
  BY <1>1, <1>2, <1>3, <1>4, <1>5, <1>6

\* An operator, with or without something to convert, evaluates.
LEMMA VisitExprEvaluates ==
  ASSUME AllConsistent, SemInv, VisitExpr
  PROVE  Evaluated(rte, rte', Node)
<1>1. /\ Visiting /\ Node.op = "expr" /\ Node.fn # "timeoutput"
      /\ rte' = IF Node.fn = "nop" THEN Repush(rte) ELSE PushResults(Ready(rte, Node))
  BY DEF VisitExpr
<1>2. /\ Owned(rte) /\ Cardinality(Free(rte)) >= 4 /\ Sorted(rte.stack)
      /\ WellFormedExpr(Node) /\ Len(rte.stack) >= Node.k
      /\ Fresh(Arguments(rte, Node.k).r)
  BY <1>1, FreshArguments
<1> DEFINE t == rte'
           n == Node
<1>3. CASE Node.fn = "nop"
  <2>1. Evaluated(rte, Repush(rte), Node)
    BY <1>2, <1>3, RepushEvaluates
  <2>2. QED
    BY <1>1, <1>3, <2>1
<1>4. CASE Node.fn # "nop"
  <2>1. Evaluated(rte, PushResults(Ready(rte, Node)), Node)
    BY <1>1, <1>2, <1>4, PushEvaluates
  <2>2. QED
    BY <1>1, <1>4, <2>1
<1>5. QED
  BY <1>3, <1>4

\* An operator that was evaluated did what its visit may do.
LEMMA EvaluatedVisits ==
  ASSUME NEW p \in DOMAIN Script, NEW i \in 1 .. Len(Script[p].code), NEW j,
         NEW node, node = Script[p].code[i], node.op = "expr", WellFormedExpr(node),
         FollowsOperands(Script[p].code, i),
         NEW r, RteTypeOK(r), NEW t, Evaluated(r, t, node), NEW ev,
         node.k = Takes(Script[p].code, i), node.r = Leaves(Script[p].code, i),
         Len(r.stack) >= node.k, Waits(p)[i] \in Seq(Operand(p)),
         Matches(p, Waits(p)[i], r.stack)
  PROVE  Visits(p, i, j, r, t, ev, ev)
<1> DEFINE x == Script[p]
           w == Waits(p)
           s == r.stack
           k == node.k
           m == Len(s) - k
           e == s[m + 1]
<1>1. /\ Moves(r, t, GoneWith(s, k), LoadedWith(s, k))
      /\ Len(t.stack) = m + node.r
      /\ \A a \in 1 .. m : t.stack[a] = s[a]
      /\ \A a \in 1 .. node.r : t.stack[m + a].obj # NoObj
      /\ Fresh(t) /\ t.faults = r.faults
      /\ \A o \in Obj : t.cache[o] # NoValue =>
           \/ r.cache[o] # NoValue
           \/ node.fn = "accu" /\ e.obj = NoObj /\ ~e.last /\ t.table[e.name] = o
  BY DEF Evaluated
<1>2. k \in 0 .. 2 /\ node.r \in Nat /\ Len(s) \in Nat /\ m \in Nat /\ k <= Len(s)
  <2>1. k \in 0 .. 2 /\ node.r \in Nat
    BY DEF WellFormedExpr
  <2>2. Len(s) \in Nat
    BY DEF RteTypeOK
  <2>3. QED
    BY <2>1, <2>2
<1>3. SetAt(p, i) = {}
  BY DEF SetAt, Assigned
<1>4. /\ \A n : n \in GoneWith(s, k) <=> TakesLast(x, w, i, n)
      /\ \A n : n \in LoadedWith(s, k) => \E q \in Taken(x.code, w, i) : Reads(x.code, q, n)
  BY <1>2, GoneIsTaken
<1>5. \A n : ~DeletesTo(x, i, j, n)
  BY DEF DeletesTo
<1>6. MovesAt(p, i, j, r, t)
  <2> SUFFICES ASSUME NEW n \in Names
               PROVE  /\ n \in GoneAt(p, i, j) => t.table[n] = NoObj
                      /\ n \notin GoneAt(p, i, j) =>
                           /\ Held(t, n) = Held(r, n)
                           /\ r.table[n] # NoObj => t.table[n] = r.table[n]
                           /\ n \notin ReadAt(p, i) => t.table[n] = r.table[n]
    BY <1>3 DEF MovesAt, MovesIn
  <2>1. n \in GoneAt(p, i, j) <=> n \in GoneWith(s, k)
    BY <1>4, <1>5 DEF GoneAt
  <2>2. n \in LoadedWith(s, k) => n \in ReadAt(p, i)
    BY <1>4 DEF ReadAt
  <2>3. QED
    BY <1>1, <2>1, <2>2 DEF Moves
<1>7. AssignsAt(p, i, t, ev)
  BY <1>3 DEF AssignsAt
<1>8. StackAt(p, i, s, t.stack)
  <2> DEFINE n == Len(t.stack)
  <2>1. \A a \in m + 1 .. n : Shows(p, i, t.stack[a])
    <3> SUFFICES ASSUME NEW a \in m + 1 .. n
                 PROVE  Shows(p, i, t.stack[a])
      OBVIOUS
    <3>1. n = m + node.r
      BY <1>1
    <3>2. PICK b \in 1 .. node.r : a = m + b
      <4> HIDE DEF n, m
      <4>1. a - m \in 1 .. node.r /\ a = m + (a - m)
        BY <1>2, <3>1
      <4>2. QED
        BY <4>1
    <3>3. t.stack[a].obj # NoObj
      BY <1>1, <3>2
    <3>4. QED
      BY <3>3 DEF Shows
  <2>2. QED
    BY <1>1, <2>1 DEF StackAt
<1>9. CacheAt(p, i, j, r, t)
  <2>1. \A o \in Obj : t.cache[o] # NoValue => t.cache[o] = t.val[o]
    BY <1>1 DEF Fresh
  <2>2. ASSUME NEW o \in Obj, t.cache[o] # NoValue, r.cache[o] = NoValue
        PROVE  \E n \in Names : Routes(x, w, i, n) /\ t.table[n] = o
    <3>1. node.fn = "accu" /\ e.obj = NoObj /\ ~e.last /\ t.table[e.name] = o
      BY <1>1, <2>2
    <3>2. k >= 1 /\ IsOperand(x.code[w[i][m + 1]]) /\ m + 1 \in 1 .. Len(s)
          /\ w[i][m + 1] \in 1 .. Len(x.code)
      <4>1. k >= 1
        BY <3>1 DEF WellFormedExpr
      <4>2. m + 1 \in 1 .. Len(s)
        <5> DEFINE l == Len(s)
        <5>1. l \in Nat /\ k \in 1 .. l
          BY <1>2, <4>1
        <5> HIDE DEF l
        <5>2. (l - k) + 1 \in 1 .. l
          BY <5>1
        <5>3. QED
          BY <5>2 DEF l
      <4>3. Len(w[i]) = Len(s)
        BY DEF Matches
      <4>4. w[i][m + 1] \in Operand(p)
        BY <4>2, <4>3
      <4>5. QED
        BY <4>1, <4>2, <4>4 DEF Operand
    <3>3. Shows(p, w[i][m + 1], e)
      BY <3>2 DEF Matches
    <3>4. Reads(x.code, w[i][m + 1], e.name)
      BY <3>1, <3>2, <3>3, EntryOf
    <3>5. e.name \notin LastNames(e)
      BY <3>1 DEF LastNames
    <3>6. ~ReadsLast(x, w[i][m + 1], e.name)
      <4>1. \A l : l \in LastNames(e) <=> ReadsLast(x, w[i][m + 1], l)
        <5> DEFINE q == w[i][m + 1]
        <5>1. IsOperand(Script[p].code[q]) /\ Shows(p, q, e)
          BY <3>2, <3>3
        <5> HIDE DEF q, e
        <5>2. \A l : l \in LastNames(e) <=> ReadsLast(Script[p], q, l)
          BY <5>1, EntryOf
        <5>3. QED
          BY <5>2 DEF q
      <4> HIDE DEF e, s, w, x, k, m
      <4>2. QED
        BY <3>5, <4>1
    <3>7. <<w[i][m + 1], 0>> \notin x.last
      BY <3>4, <3>6 DEF ReadsLast
    <3>8. Len(w[i]) - x.code[i].k + 1 = m + 1
      BY DEF Matches
    <3>9. Routes(x, w, i, e.name)
      BY <3>1, <3>4, <3>7, <3>8 DEF Routes
    <3>10. e.name \in Names
      <4>1. e \in Entries
        BY <3>2 DEF RteTypeOK
      <4>2. e.obj = NoObj
        BY <3>1
      <4> HIDE DEF e
      <4>3. QED
        BY <4>1, <4>2, NullIsFree DEF Entries
    <3>11. QED
      BY <3>1, <3>9, <3>10
  <2>3. QED
    BY <1>5, <2>1, <2>2 DEF CacheAt
<1>10. QED
  BY <1>1, <1>6, <1>7, <1>8, <1>9 DEF Visits

\* The visit of an operator.
LEMMA VisitExprVisits ==
  ASSUME AllConsistent, SemInv, VisitExpr
  PROVE  Visits(prog, cur, cur', rte, rte', env, env')
<1>1. /\ Visiting /\ Node.op = "expr" /\ Node.fn # "timeoutput" /\ env' = env
  BY DEF VisitExpr
<1>2. /\ Owned(rte) /\ prog \in DOMAIN Script /\ cur \in 1 .. Len(Code) /\ Node = Code[cur]
      /\ WellFormedExpr(Node) /\ FollowsOperands(Code, cur)
      /\ Node.k = Takes(Code, cur) /\ Node.r = Leaves(Code, cur)
      /\ Len(rte.stack) >= Node.k
      /\ Waits(prog)[cur] \in Seq(Operand(prog))
      /\ Matches(prog, Waits(prog)[cur], rte.stack)
  BY <1>1, FreshArguments
<1>3. Evaluated(rte, rte', Node)
  BY VisitExprEvaluates
<1>4. RteTypeOK(rte)
  BY <1>2 DEF Owned, Sound
<1>5. Visits(prog, cur, cur', rte, rte', env, env)
  BY <1>1, <1>2, <1>3, <1>4, EvaluatedVisits DEF Code
<1>6. QED
  BY <1>1, <1>5

-------------------------------------------------------------------------------
(* The visit of an assignment *)

\* The names in the entries that the visit takes are those of the script.
LEMMA MovesHere ==
  ASSUME NEW p \in DOMAIN Script, NEW i \in 1 .. Len(Script[p].code), NEW j,
         Waits(p)[i] \in Seq(Operand(p)), NEW r, Matches(p, Waits(p)[i], r.stack),
         NEW k \in Nat, k = Takes(Script[p].code, i), k <= Len(r.stack),
         NEW deleted, deleted = {n \in Names : DeletesTo(Script[p], i, j, n)},
         NEW t,
         MovesIn(Names \ SetAt(p, i), r, t,
                 GoneWith(r.stack, k) \cup deleted, LoadedWith(r.stack, k))
  PROVE  MovesAt(p, i, j, r, t)
<1> DEFINE x == Script[p]
           w == Waits(p)
           s == r.stack
<1>1. /\ \A n : n \in GoneWith(s, k) <=> TakesLast(x, w, i, n)
      /\ \A n : n \in LoadedWith(s, k) => \E q \in Taken(x.code, w, i) : Reads(x.code, q, n)
  BY GoneIsTaken
<1> SUFFICES ASSUME NEW n \in Names \ SetAt(p, i)
             PROVE  /\ n \in GoneAt(p, i, j) => t.table[n] = NoObj
                    /\ n \notin GoneAt(p, i, j) =>
                         /\ Held(t, n) = Held(r, n)
                         /\ r.table[n] # NoObj => t.table[n] = r.table[n]
                         /\ n \notin ReadAt(p, i) => t.table[n] = r.table[n]
  BY DEF MovesAt, MovesIn
<1>2. n \in GoneAt(p, i, j) <=> n \in GoneWith(s, k) \cup deleted
  BY <1>1 DEF GoneAt
<1>3. n \in LoadedWith(s, k) => n \in ReadAt(p, i)
  BY <1>1 DEF ReadAt
<1> HIDE DEF s
<1>4. QED
  BY <1>2, <1>3 DEF MovesIn, s

\* Entries that are values have no names.
LEMMA FieldsHaveNoNames ==
  ASSUME NEW e, e.obj # NoObj
  PROVE  LastNames(e) = {} /\ LoadedNames(e) = {}
BY DEF LastNames, LoadedNames

\* What an assignment finds, and what each of its two assignments does.
LEMMA VisitAssParts ==
  ASSUME AllConsistent, SemInv, VisitAss
  PROVE  LET m == Node.lhs[1]
             n == Node.lhs[2]
             len == Len(rte.stack)
             one == AssignStackTop(rte, m, IsLast(1))
             two == AssignStackTop(one, n, IsLast(2))
         IN /\ prog \in DOMAIN Script /\ cur \in 1 .. Len(Code) /\ Node = Code[cur]
            /\ Node.op = "ass" /\ Len(Node.lhs) \in 1 .. 2
            /\ DOMAIN Node.lhs = 1 .. Len(Node.lhs)
            /\ ~AfterDeferred(Code, cur)
            /\ Takes(Code, cur) = Len(Node.lhs) /\ Leaves(Code, cur) = 0
            /\ Waits(prog)[cur] \in Seq(Operand(prog))
            /\ Matches(prog, Waits(prog)[cur], rte.stack)
            /\ len \in Nat /\ Len(Node.lhs) <= len
            /\ Owned(rte) /\ Roomy(rte)
            /\ m \in Names /\ IsLast(1) \in BOOLEAN /\ IsLast(2) \in BOOLEAN
            /\ Len(one.stack) = len - 1
            /\ \A a \in 1 .. Len(one.stack) : one.stack[a] = rte.stack[a]
            /\ Len(Node.lhs) = 2 =>
                 /\ n \in Names /\ Owned(one) /\ Roomy(one)
                 /\ rte.stack[len].obj # NoObj /\ rte.stack[len - 1].obj # NoObj
                 /\ one.val = rte.val /\ Top(one) = rte.stack[len - 1]
                 /\ Denotes(one, Top(one)) = Denotes(rte, rte.stack[len - 1])
                 /\ Len(two.stack) = Len(one.stack) - 1
                 /\ \A a \in 1 .. Len(two.stack) : two.stack[a] = one.stack[a]
<1> DEFINE m == Node.lhs[1]
           n == Node.lhs[2]
           len == Len(rte.stack)
           one == AssignStackTop(rte, m, IsLast(1))
           two == AssignStackTop(one, n, IsLast(2))
           rest == Len(one.stack)
<1>1. /\ Visiting /\ Node.op = "ass" /\ ~timeoutput /\ OwnInv /\ Deferral /\ StackInv
      /\ TypeInv /\ cur # 0 /\ status = "running"
  BY DEF VisitAss, SemInv, OwnInv, Visiting
<1>2. /\ prog \in DOMAIN Script /\ cur \in 1 .. Len(Code) /\ WellFormedNode(Code, cur)
      /\ Waits(prog)[cur] \in Seq(Operand(prog))
      /\ Matches(prog, Waits(prog)[cur], rte.stack)
      /\ Takes(Code, cur) <= len /\ len \in Nat
  BY <1>1, StackOfVisit DEF SemInv
<1>3. Node = Code[cur] /\ Len(Node.lhs) \in 1 .. 2 /\ DOMAIN Node.lhs = 1 .. Len(Node.lhs)
  BY <1>1, <1>2 DEF WellFormedNode, Node
<1>4. ~AfterDeferred(Code, cur)
  BY <1>1 DEF Deferral, AfterDeferred
<1>5. Takes(Code, cur) = Len(Node.lhs) /\ Leaves(Code, cur) = 0
  BY <1>1, <1>3, <1>4 DEF Takes, Leaves
<1>6. Owned(rte) /\ Roomy(rte) /\ Cardinality(Free(rte)) >= 4 /\ RteTypeOK(rte)
  BY <1>1, VisitingType DEF OwnInv, TypeInv, Visiting
<1>7. \A k \in 1 .. Len(Node.lhs) : Node.lhs[k] \in Names
  BY <1>1 DEF TypeInv, Deferred, AssignsNoField
<1>8. m \in Names /\ IsLast(1) \in BOOLEAN /\ IsLast(2) \in BOOLEAN /\ len > 0
  BY <1>2, <1>3, <1>5, <1>7, SMTT(60) DEF IsLast
<1>9. /\ rest = len - 1 /\ Roomy(one)
      /\ \A a \in 1 .. rest : one.stack[a] = rte.stack[a]
  BY <1>6, <1>8, AssignStackTopType, AssignStackTopRest
<1>10. ASSUME Len(Node.lhs) = 2
       PROVE  /\ n \in Names /\ Owned(one) /\ Roomy(one)
              /\ rte.stack[len].obj # NoObj /\ rte.stack[len - 1].obj # NoObj
              /\ one.val = rte.val /\ Top(one) = rte.stack[len - 1]
              /\ Denotes(one, Top(one)) = Denotes(rte, rte.stack[len - 1])
              /\ Len(two.stack) = rest - 1
              /\ \A a \in 1 .. Len(two.stack) : two.stack[a] = one.stack[a]
  <2>1. n \in Names
    BY <1>7, <1>10
  <2>2. /\ ShowsOperands(prog, rte.stack, cur - 1)
        /\ Code[cur - 1].op = "expr" /\ Code[cur - 1].fn = "two" /\ Code[cur - 1].r = 2
    BY <1>1, <1>10, AssignedValue
  <2>3. rte.stack[len].obj # NoObj /\ rte.stack[len - 1].obj # NoObj /\ len >= 2
    BY <2>2 DEF ShowsOperands, Shows, PushesField, Code
  <2>4. Owned(one)
    BY <1>6, <1>8, AssignStackTopOwned
  <2>5. one.val = rte.val
    BY <1>6, <1>8, <2>3, AssignStackTopQuiet DEF Top
  <2> HIDE DEF one
  <2>6. Top(one) = rte.stack[len - 1]
    <3>1. Top(one) = one.stack[rest]
      BY DEF Top
    <3> HIDE DEF rest, len
    <3>2. rest = len - 1 /\ rest \in 1 .. rest
      BY <1>2, <1>9, <2>3
    <3>3. QED
      BY <1>9, <3>1, <3>2
  <2>7. Denotes(one, Top(one)) = Denotes(rte, rte.stack[len - 1])
    BY <2>3, <2>5, <2>6 DEF Denotes
  <2>8. RteTypeOK(one) /\ rest > 0
    <3>1. RteTypeOK(one)
      BY <2>4 DEF Owned, Sound
    <3> HIDE DEF rest, len
    <3>2. rest > 0
      BY <1>2, <1>9, <2>3
    <3>3. QED
      BY <3>1, <3>2
  <2> HIDE DEF n
  <2>9. Len(two.stack) = rest - 1 /\ \A a \in 1 .. Len(two.stack) : two.stack[a] = one.stack[a]
    BY <1>8, <1>9, <2>1, <2>8, AssignStackTopType, AssignStackTopRest
  <2>10. QED
    BY <1>9, <2>1, <2>3, <2>4, <2>5, <2>6, <2>7, <2>9
<1> HIDE DEF one, two, m, n
<1>11. QED
  BY <1>1, <1>2, <1>3, <1>4, <1>5, <1>6, <1>8, <1>9, <1>10 DEF one, two, m, n

\* Less is left of the stack, and nothing is left in its place.
LEMMA DropsAt ==
  ASSUME NEW p \in DOMAIN Script, NEW i \in 1 .. Len(Script[p].code), NEW s, NEW t,
         NEW n \in Nat, Len(s) = n, NEW k \in Nat, k <= n, k = Takes(Script[p].code, i),
         Leaves(Script[p].code, i) = 0, Len(t) = n - k, \A a \in 1 .. n - k : t[a] = s[a]
  PROVE  StackAt(p, i, s, t)
<1> DEFINE l == Len(t)
<1>1. l = (n - k) + 0 /\ (n - k) + 1 .. l = {}
  <2>1. l = n - k
    OBVIOUS
  <2> HIDE DEF l
  <2>2. QED
    BY <2>1
<1>2. QED
  BY <1>1 DEF StackAt

\* An assignment takes graphs out of the cache only.
LEMMA AssignCacheAt ==
  ASSUME NEW p \in DOMAIN Script, NEW i \in 1 .. Len(Script[p].code), NEW j,
         Script[p].code[i].op # "jump", NEW r, NEW t, Shrinks(r, t)
  PROVE  CacheAt(p, i, j, r, t)
<1>1. \A n : ~DeletesTo(Script[p], i, j, n)
  BY DEF DeletesTo
<1>2. QED
  BY <1>1 DEF CacheAt, Shrinks

\* The assignment of one value.
LEMMA AssignOneVisits ==
  ASSUME AllConsistent, SemInv, VisitAss, Len(Node.lhs) = 1
  PROVE  Visits(prog, cur, cur', rte, rte', env, env')
<1> DEFINE m == Node.lhs[1]
           len == Len(rte.stack)
           t == AssignStackTop(rte, m, IsLast(1))
           e == Top(rte)
           i == cur
           j == cur'
<1>1. /\ prog \in DOMAIN Script /\ i \in 1 .. Len(Code) /\ Node = Code[i]
      /\ Node.op = "ass" /\ DOMAIN Node.lhs = 1 .. Len(Node.lhs)
      /\ ~AfterDeferred(Code, i)
      /\ Takes(Code, i) = 1 /\ Leaves(Code, i) = 0
      /\ Waits(prog)[i] \in Seq(Operand(prog))
      /\ Matches(prog, Waits(prog)[i], rte.stack)
      /\ len \in Nat /\ 1 <= len
      /\ Owned(rte) /\ Roomy(rte) /\ m \in Names /\ IsLast(1) \in BOOLEAN
      /\ Len(t.stack) = len - 1 /\ \A a \in 1 .. Len(t.stack) : t.stack[a] = rte.stack[a]
  BY VisitAssParts
<1>2. rte' = t /\ env' = [env EXCEPT ![m] = Denotes(rte, e)]
  BY DEF VisitAss
<1>3. env = [n \in Names |-> env[n]]
  BY DEF SemInv, EnvInv, Total
<1>4. env'[m] = Denotes(rte, e) /\ \A n \in Names \ {m} : env'[n] = env[n]
  BY <1>1, <1>2, <1>3
<1>5. SetAt(prog, i) = {m}
  <2>1. DefsAt(Code, i) = {m}
    BY <1>1 DEF DefsAt
  <2>2. QED
    BY <1>1, <2>1 DEF SetAt, Assigned, Code
<1>6. /\ IsLast(1) => t.table[m] = NoObj
      /\ ~IsLast(1) => Held(t, m) = Denotes(rte, e)
      /\ MovesIn(Names \ {m}, rte, t, LastNames(e), LoadedNames(e))
      /\ Shrinks(rte, t)
  <2>1. len > 0
    BY <1>1
  <2>2. QED
    BY <1>1, <2>1, AssignMoves
<1>7. t.faults = rte.faults
  <2>1. Quiet(rte, rte')
    BY ConsistentScripts, VisitAssQuiet DEF SemInv
  <2>2. QED
    BY <1>2, <2>1 DEF Quiet
<1> HIDE DEF t
<1>8. GoneWith(rte.stack, 1) = LastNames(e) /\ LoadedWith(rte.stack, 1) = LoadedNames(e)
  BY <1>1, HighestEntries DEF Top
<1>9. {n \in Names : DeletesTo(Script[prog], i, j, n)} = {}
  BY <1>1 DEF DeletesTo, Code
<1>10. MovesAt(prog, i, j, rte, t)
  <2>1. MovesIn(Names \ SetAt(prog, i), rte, t, GoneWith(rte.stack, 1) \cup {},
                LoadedWith(rte.stack, 1))
    BY <1>5, <1>6, <1>8 DEF MovesIn
  <2>2. 1 \in Nat /\ 1 = Takes(Script[prog].code, i) /\ 1 <= Len(rte.stack)
    BY <1>1 DEF Code
  <2> HIDE DEF i, j, e, len
  <2>3. QED
    BY <1>1, <1>9, <2>1, <2>2, MovesHere DEF Code
<1>11. AssignsAt(prog, i, t, env')
  <2>1. Keeps(Script[prog], i, m) <=> ~IsLast(1)
    <3>1. Len(Node.lhs) = 1
      OBVIOUS
    <3>2. Keeps(Script[prog], i, m) <=>
            \E k \in 1 .. 1 : /\ Node.lhs[k] = m /\ <<i, k>> \notin Script[prog].last
                              /\ \A q \in k + 1 .. 1 : Node.lhs[q] # m
      BY <1>1, <3>1 DEF Keeps, Code
    <3>3. QED
      BY <3>2 DEF IsLast
  <2>2. QED
    BY <1>4, <1>5, <1>6, <2>1 DEF AssignsAt
<1>12. CacheAt(prog, i, j, rte, t)
  BY <1>1, <1>6, AssignCacheAt DEF Code
<1>13. StackAt(prog, i, rte.stack, t.stack)
  BY <1>1, DropsAt DEF Code
<1>14. \A n \in Names \ SetAt(prog, i) : env'[n] = env[n]
  BY <1>4, <1>5
<1>15. QED
  BY <1>2, <1>7, <1>10, <1>11, <1>12, <1>13, <1>14 DEF Visits

\* The assignment of the two results of an operator.
LEMMA AssignTwoVisits ==
  ASSUME AllConsistent, SemInv, VisitAss, Len(Node.lhs) = 2
  PROVE  Visits(prog, cur, cur', rte, rte', env, env')
<1> DEFINE m == Node.lhs[1]
           n == Node.lhs[2]
           len == Len(rte.stack)
           one == AssignStackTop(rte, m, IsLast(1))
           t == AssignStackTop(one, n, IsLast(2))
           e == Top(rte)
           f == Top(one)
           i == cur
           j == cur'
<1>1. /\ prog \in DOMAIN Script /\ i \in 1 .. Len(Code) /\ Node = Code[i]
      /\ Node.op = "ass" /\ DOMAIN Node.lhs = 1 .. Len(Node.lhs)
      /\ ~AfterDeferred(Code, i)
      /\ Takes(Code, i) = 2 /\ Leaves(Code, i) = 0
      /\ Waits(prog)[i] \in Seq(Operand(prog))
      /\ Matches(prog, Waits(prog)[i], rte.stack)
      /\ len \in Nat /\ 2 <= len
      /\ Owned(rte) /\ Roomy(rte) /\ m \in Names /\ n \in Names
      /\ IsLast(1) \in BOOLEAN /\ IsLast(2) \in BOOLEAN
      /\ Len(one.stack) = len - 1
      /\ \A a \in 1 .. Len(one.stack) : one.stack[a] = rte.stack[a]
      /\ Owned(one) /\ Roomy(one)
      /\ rte.stack[len].obj # NoObj /\ rte.stack[len - 1].obj # NoObj
      /\ f = rte.stack[len - 1]
      /\ Len(t.stack) = Len(one.stack) - 1
      /\ \A a \in 1 .. Len(t.stack) : t.stack[a] = one.stack[a]
  BY VisitAssParts
<1>2. /\ rte' = t
      /\ env' = [env EXCEPT ![m] = Denotes(rte, e), ![n] = Denotes(one, f)]
  BY DEF VisitAss
<1>3. env = [q \in Names |-> env[q]]
  BY DEF SemInv, EnvInv, Total
<1>4. /\ env'[n] = Denotes(one, f) /\ (m # n => env'[m] = Denotes(rte, e))
      /\ \A q \in Names \ {m, n} : env'[q] = env[q]
  <2> DEFINE v == Denotes(rte, e)
             u == Denotes(one, f)
  <2> HIDE DEF v, u, m, n
  <2>1. env' = [env EXCEPT ![m] = v, ![n] = u]
    BY <1>2 DEF v, u
  <2>2. /\ env'[n] = u /\ (m # n => env'[m] = v)
        /\ \A q \in Names \ {m, n} : env'[q] = env[q]
    BY <1>1, <1>3, <2>1
  <2>3. QED
    BY <2>2 DEF v, u
<1>5. SetAt(prog, i) = {m, n}
  <2>1. DefsAt(Code, i) = {m, n}
    <3>1. 1 .. Len(Node.lhs) = {1, 2}
      OBVIOUS
    <3>2. DOMAIN Code[i].lhs = {1, 2}
      BY <1>1, <3>1
    <3>3. m = Code[i].lhs[1] /\ n = Code[i].lhs[2]
      BY <1>1
    <3> HIDE DEF m, n, i
    <3>4. QED
      BY <3>2, <3>3 DEF DefsAt
  <2>2. QED
    BY <1>1, <2>1 DEF SetAt, Assigned, Code
<1>6. e.obj # NoObj /\ f.obj # NoObj
  BY <1>1 DEF Top
<1>7. /\ IsLast(1) => one.table[m] = NoObj
      /\ ~IsLast(1) => Held(one, m) = Denotes(rte, e)
      /\ MovesIn(Names \ {m}, rte, one, {}, {})
      /\ Shrinks(rte, one)
  <2>1. len > 0
    <3> HIDE DEF m, n, len, one, t, e, f, i
    <3>1. len \in Nat /\ 2 <= len
      BY <1>1
    <3>2. QED
      BY <3>1
  <2>2. LastNames(e) = {} /\ LoadedNames(e) = {}
    BY <1>6, FieldsHaveNoNames
  <2>3. /\ IsLast(1) => one.table[m] = NoObj
        /\ ~IsLast(1) => Held(one, m) = Denotes(rte, e)
        /\ MovesIn(Names \ {m}, rte, one, LastNames(e), LoadedNames(e))
        /\ Shrinks(rte, one)
    <3>1. Owned(rte) /\ Roomy(rte) /\ m \in Names /\ IsLast(1) \in BOOLEAN
      BY <1>1
    <3>2. QED
      BY <2>1, <3>1, AssignMoves
  <2> HIDE DEF one, e, m
  <2>4. QED
    BY <2>2, <2>3
<1>8. t.faults = rte.faults
  <2>1. Quiet(rte, rte')
    BY ConsistentScripts, VisitAssQuiet DEF SemInv
  <2>2. QED
    BY <1>2, <2>1 DEF Quiet
<1> HIDE DEF one
<1>9. /\ IsLast(2) => t.table[n] = NoObj
      /\ ~IsLast(2) => Held(t, n) = Denotes(one, f)
      /\ MovesIn(Names \ {n}, one, t, {}, {})
      /\ Shrinks(one, t)
  <2>1. Len(one.stack) > 0
    <3> DEFINE l == Len(one.stack)
    <3>1. l = len - 1
      BY <1>1
    <3> HIDE DEF l, len
    <3>2. l > 0
      BY <1>1, <3>1
    <3>3. QED
      BY <3>2 DEF l
  <2>2. LastNames(f) = {} /\ LoadedNames(f) = {}
    BY <1>6, FieldsHaveNoNames
  <2>3. /\ IsLast(2) => t.table[n] = NoObj
        /\ ~IsLast(2) => Held(t, n) = Denotes(one, f)
        /\ MovesIn(Names \ {n}, one, t, LastNames(f), LoadedNames(f))
        /\ Shrinks(one, t)
    <3>1. Owned(one) /\ Roomy(one) /\ n \in Names /\ IsLast(2) \in BOOLEAN
      BY <1>1
    <3> HIDE DEF n, i, j, m, e, len
    <3>2. QED
      BY <2>1, <3>1, AssignMoves
  <2> HIDE DEF t, f, n
  <2>4. QED
    BY <2>2, <2>3
<1> HIDE DEF t
<1>10. GoneWith(rte.stack, 2) = {} /\ LoadedWith(rte.stack, 2) = {}
  <2>1. /\ LastNames(rte.stack[len]) = {} /\ LoadedNames(rte.stack[len]) = {}
        /\ LastNames(rte.stack[len - 1]) = {} /\ LoadedNames(rte.stack[len - 1]) = {}
    BY <1>1, FieldsHaveNoNames
  <2>2. QED
    BY <1>1, <2>1, HighestEntries
<1>11. {q \in Names : DeletesTo(Script[prog], i, j, q)} = {}
  BY <1>1 DEF DeletesTo, Code
<1>12. MovesAt(prog, i, j, rte, t)
  <2>1. MovesIn(Names \ SetAt(prog, i), rte, t, GoneWith(rte.stack, 2) \cup {},
                LoadedWith(rte.stack, 2))
    BY <1>5, <1>7, <1>9, <1>10 DEF MovesIn
  <2>2. 2 \in Nat /\ 2 = Takes(Script[prog].code, i) /\ 2 <= Len(rte.stack)
    BY <1>1 DEF Code
  <2> HIDE DEF i, j, e, len
  <2>3. QED
    BY <1>1, <1>11, <2>1, <2>2, MovesHere DEF Code
<1>13. AssignsAt(prog, i, t, env')
  <2>1. \A q : Keeps(Script[prog], i, q) <=>
                 \E k \in 1 .. 2 : /\ Node.lhs[k] = q /\ <<i, k>> \notin Script[prog].last
                                   /\ \A b \in k + 1 .. 2 : Node.lhs[b] # q
    BY <1>1, ZenonT(60) DEF Keeps, Code
  <2>2. Keeps(Script[prog], i, n) <=> ~IsLast(2)
    BY <2>1 DEF IsLast
  <2>3. m # n => (Keeps(Script[prog], i, m) <=> ~IsLast(1))
    BY <2>1 DEF IsLast
  <2>4. m # n => Held(t, m) = Held(one, m) /\ t.table[m] = one.table[m]
    BY <1>1, <1>9 DEF MovesIn
  <2>5. IF Keeps(Script[prog], i, n) THEN Held(t, n) = env'[n] ELSE t.table[n] = NoObj
    BY <1>4, <1>9, <2>2
  <2>6. m # n =>
          IF Keeps(Script[prog], i, m) THEN Held(t, m) = env'[m] ELSE t.table[m] = NoObj
    BY <1>4, <1>7, <2>3, <2>4
  <2>7. QED
    BY <1>5, <2>5, <2>6 DEF AssignsAt
<1>14. CacheAt(prog, i, j, rte, t)
  <2>1. Shrinks(rte, t)
    BY <1>7, <1>9, ShrinksTwice
  <2>2. QED
    BY <1>1, <2>1, AssignCacheAt DEF Code
<1>15. StackAt(prog, i, rte.stack, t.stack)
  <2> DEFINE a1 == Len(one.stack)
             a2 == Len(t.stack)
  <2>1. a1 = len - 1 /\ a2 = a1 - 1
    BY <1>1
  <2> HIDE DEF a1, a2, len
  <2>2. a2 = len - 2 /\ \A a \in 1 .. len - 2 : a \in 1 .. a2 /\ a \in 1 .. a1
    BY <1>1, <2>1
  <2>3. Len(t.stack) = len - 2 /\ \A a \in 1 .. len - 2 : t.stack[a] = rte.stack[a]
    BY <1>1, <2>2 DEF a1, a2
  <2>4. len = Len(rte.stack) /\ 2 = Takes(Script[prog].code, i) /\ 2 \in Nat
    BY <1>1 DEF len, Code
  <2>5. QED
    BY <1>1, <2>3, <2>4, DropsAt DEF Code
<1>16. \A q \in Names \ SetAt(prog, i) : env'[q] = env[q]
  BY <1>4, <1>5
<1>17. QED
  BY <1>2, <1>8, <1>12, <1>13, <1>14, <1>15, <1>16 DEF Visits

\* The visit of an assignment.
LEMMA VisitAssVisits ==
  ASSUME AllConsistent, SemInv, VisitAss
  PROVE  Visits(prog, cur, cur', rte, rte', env, env')
<1>1. Len(Node.lhs) \in 1 .. 2
  BY VisitAssParts
<1>2. CASE Len(Node.lhs) = 1
  BY <1>2, AssignOneVisits
<1>3. CASE Len(Node.lhs) = 2
  BY <1>3, AssignTwoVisits
<1>4. QED
  BY <1>1, <1>2, <1>3

-------------------------------------------------------------------------------
(* The visits of a time series and of a jump *)

\* The visit of an assignment of what was deferred.
LEMMA AssignOutTssVisits ==
  ASSUME AllConsistent, SemInv, AssignOutTss
  PROVE  Visits(prog, cur, cur', rte, rte', env, env')
<1> DEFINE x == Arguments(rte, 2)
           q == x.r
           d == DeleteFromPcrme(q, {x.f[1]})
           t == DeleteFromPcrme(d, {x.f[2]})
           s == rte.stack
           len == Len(s)
           i == cur
           j == cur'
<1>1. /\ Visiting /\ Node.op = "ass" /\ timeoutput /\ len >= 2 /\ rte' = t /\ env' = env
      /\ OwnInv /\ Deferral /\ TypeInv /\ cur # 0 /\ status = "running"
  BY DEF AssignOutTss, SemInv, OwnInv, Visiting
<1>2. /\ prog \in DOMAIN Script /\ i \in 1 .. Len(Code) /\ Waits(prog)[i] \in Seq(Operand(prog))
      /\ Matches(prog, Waits(prog)[i], s) /\ len \in Nat /\ Sorted(s)
  BY <1>1, StackOfVisit DEF SemInv
<1>3. Code[i].op = "ass" /\ AfterDeferred(Code, i)
  BY <1>1 DEF Deferral, AfterDeferred, Node
<1>4. Takes(Code, i) = 2 /\ Leaves(Code, i) = 0 /\ SetAt(prog, i) = {}
  BY <1>3 DEF Takes, Leaves, SetAt, Assigned, Code
<1>5. Owned(rte) /\ Sound(rte) /\ Roomy(rte)
  BY <1>1, VisitingType DEF OwnInv, TypeInv, Owned
<1>6. InOrder(s) /\ 2 \in 0 .. 2
  BY <1>1, <1>2, SortedInOrder
<1>7. /\ Moves(rte, q, GoneWith(s, 2), LoadedWith(s, 2))
      /\ \A a \in 1 .. len - 2 : q.stack[a] = s[a]
      /\ Adds(rte, q) /\ RteTypeOK(q) /\ Len(q.stack) = len - 2
  <2>1. /\ Moves(rte, q, GoneWith(s, 2), LoadedWith(s, 2))
        /\ \A a \in 1 .. len - 2 : q.stack[a] = s[a]
    BY <1>1, <1>5, <1>6, ArgumentsMoves
  <2>2. Adds(rte, q)
    BY <1>1, <1>5, <1>6, ArgumentsAdds
  <2>3. RteTypeOK(q) /\ Len(q.stack) = len - 2
    BY <1>1, <1>5, <1>6, ArgumentsType DEF ArgsTypeOK, Sound
  <2>4. QED
    BY <2>1, <2>2, <2>3
<1>8. t.faults = rte.faults
  <2>1. Quiet(rte, rte')
    BY <1>1, ConsistentScripts, AssignOutTssQuiet
  <2>2. QED
    BY <1>1, <2>1 DEF Quiet
<1> HIDE DEF x, q
<1>9. /\ RteTypeOK(d) /\ d.val = q.val /\ d.cache = q.cache
      /\ d.table = q.table /\ d.stack = q.stack
  BY <1>7, DeleteTrims, DeleteFromPcrmeType
<1> HIDE DEF d
<1>10. t.val = q.val /\ t.cache = q.cache /\ t.table = q.table /\ t.stack = q.stack
  BY <1>9, DeleteTrims, DeleteFromPcrmeType
<1> HIDE DEF t
<1>11. Moves(rte, t, GoneWith(s, 2), LoadedWith(s, 2))
  BY <1>7, <1>10 DEF Moves, Held
<1>12. {n \in Names : DeletesTo(Script[prog], i, j, n)} = {}
  BY <1>3 DEF DeletesTo, Code
<1>13. MovesAt(prog, i, j, rte, t)
  <2>1. MovesIn(Names \ SetAt(prog, i), rte, t, GoneWith(rte.stack, 2) \cup {},
                LoadedWith(rte.stack, 2))
    BY <1>4, <1>11 DEF Moves, MovesIn
  <2>2. 2 \in Nat /\ 2 = Takes(Script[prog].code, i) /\ 2 <= Len(rte.stack)
    BY <1>1, <1>4 DEF Code
  <2> HIDE DEF i, j, len
  <2>3. QED
    BY <1>2, <1>12, <2>1, <2>2, MovesHere DEF Code
<1>14. AssignsAt(prog, i, t, env')
  BY <1>4 DEF AssignsAt
<1>15. CacheAt(prog, i, j, rte, t)
  <2>1. Shrinks(rte, t)
    BY <1>7, <1>10 DEF Shrinks, Adds
  <2>2. QED
    BY <1>2, <1>3, <2>1, AssignCacheAt DEF Code
<1>16. StackAt(prog, i, s, t.stack)
  <2>1. 2 \in Nat /\ 2 <= len /\ 2 = Takes(Script[prog].code, i)
    BY <1>1, <1>4 DEF Code
  <2>2. Len(t.stack) = len - 2 /\ \A a \in 1 .. len - 2 : t.stack[a] = s[a]
    BY <1>7, <1>10
  <2>3. QED
    BY <1>2, <1>4, <2>1, <2>2, DropsAt DEF Code
<1>17. QED
  BY <1>1, <1>8, <1>13, <1>14, <1>15, <1>16 DEF Visits

\* A jump, after it has popped what it takes.
LEMMA LeaveVisits ==
  ASSUME AllConsistent, SemInv, Visiting, Node.op = "jump",
         NEW b \in BOOLEAN, b => HasBackBranch(Node.kind), Advance(b),
         NEW k \in Nat, k = Takes(Code, cur), NEW q, Sound(q),
         Moves(rte, q, GoneWith(rte.stack, k), LoadedWith(rte.stack, k)),
         q.cache = rte.cache, Len(q.stack) = Len(rte.stack) - k,
         \A a \in 1 .. Len(rte.stack) - k : q.stack[a] = rte.stack[a],
         NEW t, t = Leave(q, b), t.faults = rte.faults
  PROVE  Visits(prog, cur, cur', rte, t, env, env)
<1> DEFINE s == rte.stack
           len == Len(s)
           i == cur
           j == cur'
           x == Script[prog]
           deleted == {n \in Names : DeletesTo(x, i, j, n)}
<1>1. /\ prog \in DOMAIN Script /\ i \in 1 .. Len(Code) /\ WellFormedNode(Code, i)
      /\ Waits(prog)[i] \in Seq(Operand(prog)) /\ Matches(prog, Waits(prog)[i], s)
      /\ len \in Nat /\ Takes(Code, i) <= len /\ Node = Code[i] /\ Len(Code) \in Nat
  BY StackOfVisit, CodeType DEF SemInv, OwnInv, TypeInv, Visiting, Node
<1>2. SetAt(prog, i) = {} /\ Leaves(Code, i) = 0
  BY <1>1 DEF SetAt, Assigned, Leaves, Code
<1>3. deleted = IF b THEN {} ELSE {n \in Names : <<Node.blk, n>> \in x.deletes}
  <2>1. CASE b
    <3>1. j = Code[i].blk /\ Code[i].blk \in 1 .. i - 1
      BY <1>1, <2>1 DEF Advance, Succ, WellFormedNode
    <3>2. j # Succ(Code, i, FALSE)
      BY <1>1, <3>1 DEF Succ
    <3>3. QED
      BY <2>1, <3>2 DEF DeletesTo, Code
  <2>2. CASE ~b
    <3>1. j = Succ(Code, i, FALSE)
      BY <2>2 DEF Advance, Succ
    <3>2. QED
      BY <1>1, <2>2, <3>1 DEF DeletesTo, Code
  <2>3. QED
    BY <2>1, <2>2
<1>4. /\ Moves(q, t, deleted, {}) /\ Shrinks(q, t)
      /\ \A n \in deleted : q.table[n] # NoObj => t.cache[q.table[n]] = NoValue
      /\ t.stack = q.stack
  <2> HIDE DEF deleted
  <2>1. /\ Moves(q, Leave(q, b), deleted, {}) /\ Shrinks(q, Leave(q, b))
        /\ \A n \in deleted : q.table[n] # NoObj => Leave(q, b).cache[q.table[n]] = NoValue
        /\ Leave(q, b).stack = q.stack
    <3>1. deleted = IF b THEN {} ELSE {n \in Names : <<Node.blk, n>> \in Script[prog].deletes}
      BY <1>3
    <3> HIDE DEF x, i, j, s, len
    <3>2. Sound(q) /\ b \in BOOLEAN
      OBVIOUS
    <3>3. QED
      BY ONLY <3>1, <3>2, LeaveMoves
  <2>2. QED
    BY <2>1
<1>5. Moves(rte, t, GoneWith(s, k) \cup deleted, LoadedWith(s, k) \cup {})
  <2> HIDE DEF deleted, s
  <2>1. GoneWith(s, k) \cap {} = {}
    OBVIOUS
  <2>2. QED
    BY <1>4, <2>1, MovesTwice DEF s
<1>6. MovesAt(prog, i, j, rte, t)
  <2>1. MovesIn(Names \ SetAt(prog, i), rte, t, GoneWith(s, k) \cup deleted, LoadedWith(s, k))
    BY <1>2, <1>5 DEF Moves, MovesIn
  <2>2. k = Takes(Script[prog].code, i) /\ k <= Len(rte.stack)
    BY <1>1 DEF Code
  <2>3. deleted = {n \in Names : DeletesTo(Script[prog], i, j, n)}
    OBVIOUS
  <2> HIDE DEF deleted, i, j, len
  <2>4. QED
    BY <1>1, <2>1, <2>2, <2>3, MovesHere DEF Code, s
<1>7. AssignsAt(prog, i, t, env)
  BY <1>2 DEF AssignsAt
<1>8. CacheAt(prog, i, j, rte, t)
  <2>1. \A o \in Obj : t.cache[o] # NoValue =>
          t.cache[o] = rte.cache[o] /\ rte.cache[o] # NoValue
    BY <1>4 DEF Shrinks
  <2>2. ASSUME NEW n \in Names, DeletesTo(x, i, j, n), ~TakesLast(x, Waits(prog), i, n),
               rte.table[n] # NoObj
        PROVE  t.cache[rte.table[n]] = NoValue
    <3>1. n \notin GoneWith(s, k)
      <4>1. k = Takes(Script[prog].code, i) /\ k <= len
        BY <1>1 DEF Code
      <4>2. \A m : m \in GoneWith(s, k) <=> TakesLast(Script[prog], Waits(prog), i, m)
        BY <1>1, <4>1, GoneIsTaken DEF Code
      <4>3. QED
        BY <2>2, <4>2
    <3>2. q.table[n] = rte.table[n]
      BY <2>2, <3>1 DEF Moves
    <3>3. QED
      BY <1>4, <2>2, <3>2
  <2>3. QED
    BY <2>1, <2>2 DEF CacheAt
<1>9. StackAt(prog, i, s, t.stack)
  BY <1>1, <1>2, <1>4, DropsAt DEF Code
<1>10. QED
  BY <1>6, <1>7, <1>8, <1>9 DEF Visits

\* The visit of a jump.
LEMMA JumpVisits ==
  ASSUME AllConsistent, SemInv, JumpOutDynamicSection \/ JumpOutRepeatUntil \/ JumpOutCode
  PROVE  Visits(prog, cur, cur', rte, rte', env, env')
<1>1. /\ Visiting /\ Node.op = "jump" /\ env' = env /\ Owned(rte) /\ Sound(rte)
      /\ OwnInv /\ TypeInv
  BY DEF JumpOutDynamicSection, JumpOutRepeatUntil, JumpOutCode, Visiting, SemInv, OwnInv,
         Owned
<1>2. rte'.faults = rte.faults
  BY <1>1, JumpQuiet DEF Quiet
<1>3. Len(rte.stack) \in Nat /\ Free(rte) # {} /\ RteTypeOK(rte)
  BY <1>1, TypeOf
<1>4. ASSUME NEW b \in BOOLEAN, b => HasBackBranch(Node.kind), Advance(b),
             Takes(Code, cur) = 0, rte' = Leave(rte, b)
      PROVE  Visits(prog, cur, cur', rte, rte', env, env)
  <2>1. GoneWith(rte.stack, 0) = {} /\ LoadedWith(rte.stack, 0) = {}
    BY <1>3, HighestEntries
  <2>2. Moves(rte, rte, GoneWith(rte.stack, 0), LoadedWith(rte.stack, 0))
    BY <2>1, MovesNothing
  <2>3. Len(rte.stack) = Len(rte.stack) - 0 /\ 0 \in Nat
    BY <1>3
  <2>4. QED
    BY <1>1, <1>2, <1>4, <2>2, <2>3, LeaveVisits
<1>5. CASE JumpOutDynamicSection
  <2>1. /\ TakeBackBranch \in BOOLEAN /\ rte' = Leave(rte, TakeBackBranch)
        /\ Advance(TakeBackBranch) /\ HasBackBranch(Node.kind)
    BY <1>5 DEF JumpOutDynamicSection, TakeBackBranch, HasBackBranch
  <2>2. Takes(Code, cur) = 0
    BY <1>1, <1>5 DEF JumpOutDynamicSection, Takes, Node
  <2>3. QED
    BY <1>1, <1>4, <2>1, <2>2
<1>6. CASE JumpOutCode
  <2>1. rte' = Leave(rte, FALSE) /\ Advance(FALSE)
    BY <1>6 DEF JumpOutCode
  <2>2. Takes(Code, cur) = 0
    BY <1>1, <1>6 DEF JumpOutCode, Takes, Node
  <2>3. QED
    BY <1>1, <1>4, <2>1, <2>2
<1>7. CASE JumpOutRepeatUntil
  <2> DEFINE p == Pop(rte)
             q == p.r
             o == p.obj
             r == DeleteFromPcrme(q, {o})
             s == rte.stack
  <2>1. PICK again \in RepeatAgain : /\ Len(rte.stack) >= 1 /\ rte' = Leave(r, again)
                                     /\ Advance(again)
    BY <1>7 DEF JumpOutRepeatUntil
  <2>2. again \in BOOLEAN /\ HasBackBranch(Node.kind) /\ Node.kind = "repeat"
    BY <1>7 DEF RepeatAgain, JumpOutRepeatUntil, HasBackBranch
  <2>3. Takes(Code, cur) = 1
    BY <1>1, <2>2 DEF Takes, Node
  <2>4. Len(rte.stack) > 0
    BY <1>3, <2>1
  <2>5. Sound(q) /\ o \in q.live \ Stacked(q) /\ RteTypeOK(q)
    BY <1>1, <1>3, <2>4, PopSound DEF Sound
  <2>6. Adds(rte, q)
    BY <1>1, <1>3, <2>4, PopAdds
  <2>7. Moves(rte, q, LastNames(Top(rte)), LoadedNames(Top(rte)))
    BY <1>1, <1>3, <2>4, PopMoves
  <2>8. Len(q.stack) = Len(s) - 1 /\ \A a \in 1 .. Len(q.stack) : q.stack[a] = s[a]
    BY <1>3, <2>4, PopType
  <2> HIDE DEF p, q, o
  <2>9. Sound(r)
    <3>1. {o} \cap Stacked(q) = {}
      BY <2>5
    <3>2. QED
      BY <2>5, <3>1, DeleteSound
  <2>10. r.stack = q.stack /\ r.table = q.table /\ r.cache = q.cache /\ r.val = q.val
    BY <2>5, DeleteFromPcrmeType, DeleteTrims
  <2> HIDE DEF r
  <2>11. Moves(rte, r, GoneWith(s, 1), LoadedWith(s, 1))
    <3>1. GoneWith(s, 1) = LastNames(Top(rte)) /\ LoadedWith(s, 1) = LoadedNames(Top(rte))
      BY <1>3, HighestEntries DEF Top
    <3>2. QED
      BY <2>7, <2>10, <3>1 DEF Moves, Held
  <2>12. r.cache = rte.cache /\ Len(r.stack) = Len(s) - 1
    BY <2>6, <2>8, <2>10 DEF Adds
  <2>13. \A a \in 1 .. Len(s) - 1 : r.stack[a] = s[a]
    BY <2>8, <2>10
  <2>14. QED
    BY <1>1, <1>2, <2>1, <2>2, <2>3, <2>9, <2>11, <2>12, <2>13, LeaveVisits
<1>8. QED
  BY <1>1, <1>4, <1>5, <1>6, <1>7

-------------------------------------------------------------------------------
(* The invariant *)

\* Nothing is held, and every name has the value of its file.
LEMMA InitSemInv ==
  ASSUME AllConsistent, Init
  PROVE  SemInv
<1>1. OwnInv /\ Deferral /\ FaultInv
  BY InitOwnInv, InitDeferral, InitFaultInv
<1>2. /\ prog \in DOMAIN Script /\ cur = 1 /\ rte = EmptyRte
      /\ env = [n \in Names |-> FileValue(n)]
  BY DEF Init
<1>3. /\ rte.faults = {} /\ rte.stack = << >>
      /\ \A n \in Names : rte.table[n] = NoObj
      /\ \A o \in Obj : rte.cache[o] = NoValue
  BY <1>2 DEF EmptyRte
<1>4. EnvInv
  BY <1>2 DEF EnvInv, Total
<1>5. WaitInv
  <2>1. Waits(prog)[1] = << >>
    BY <1>2, ScriptBalanced DEF Balanced
  <2>2. Matches(prog, << >>, << >>)
    BY DEF Matches
  <2>3. QED
    BY <1>2, <1>3, <2>1, <2>2 DEF WaitInv
<1>6. CacheInv
  BY <1>3 DEF CacheInv, Cached
<1>7. ValInv
  BY <1>2, <1>3 DEF ValInv, Current, Held
<1>8. QED
  BY <1>1, <1>3, <1>4, <1>5, <1>6, <1>7 DEF SemInv

\* A visit preserves the invariant.
LEMMA VisitSemInv ==
  ASSUME AllConsistent, SemInv, Visiting,
         NEW b \in BOOLEAN, b => Node.op = "jump" /\ HasBackBranch(Node.kind), Advance(b),
         UNCHANGED <<prog, status>>, EnvInv', OwnInv', Deferral', FaultInv',
         Visits(prog, cur, cur', rte, rte', env, env')
  PROVE  SemInv'
<1>1. TypeInv /\ WaitInv /\ CacheInv /\ ValInv /\ rte.faults = {}
      /\ status = "running" /\ cur # 0
  BY DEF SemInv, OwnInv, Visiting
<1>2. /\ StackAt(prog, cur, rte.stack, rte'.stack) /\ MovesAt(prog, cur, cur', rte, rte')
      /\ AssignsAt(prog, cur, rte', env') /\ CacheAt(prog, cur, cur', rte, rte')
      /\ \A n \in Names \ SetAt(prog, cur) : env'[n] = env[n]
      /\ rte'.faults = rte.faults
  BY DEF Visits
<1>3. prog \in DOMAIN Script /\ cur \in 1 .. Len(Script[prog].code)
  BY <1>1, StackOfVisit DEF Code
<1>4. RteTypeOK(rte')
  BY DEF OwnInv, TypeInv, TypeOK
<1>5. /\ cur' \in 0 .. Len(Script[prog].code)
      /\ cur' # 0 => cur' \in Next1(Script[prog].code, cur)
  BY <1>1, NextNode DEF Code
<1>6. WaitInv'
  BY <1>1, <1>2, <1>4, StepWaitInv
<1>7. CacheInv'
  <2>1. Cached(prog, cur', rte')
    <3>1. CASE ~EnableCache
      <4>1. NoCache(rte')
        BY <3>1 DEF FaultInv, NoGraphs
      <4>2. QED
        BY <4>1 DEF NoCache, Cached
    <3>2. CASE EnableCache
      <4>1. Cached(prog, cur, rte)
        BY <1>1 DEF CacheInv
      <4>2. QED
        BY <1>2, <1>3, <1>5, <3>2, <4>1, StepCacheInv
    <3>3. QED
      BY <3>1, <3>2
  <2>2. QED
    BY <2>1 DEF CacheInv
<1>8. ValInv'
  <2>1. ASSUME cur' # 0
        PROVE  Current(prog, cur', rte', env')
    <3>1. Current(prog, cur, rte, env)
      BY <1>1 DEF ValInv
    <3>2. cur' \in Next1(Script[prog].code, cur)
      BY <1>5, <2>1
    <3>3. QED
      BY <1>2, <1>3, <3>1, <3>2, StepValInv
  <2>2. QED
    BY <2>1 DEF ValInv
<1>9. rte'.faults = {}
  BY <1>1, <1>2
<1>10. QED
  BY <1>6, <1>7, <1>8, <1>9 DEF SemInv

\* The end of a run preserves it too.
LEMMA EndSemInv ==
  ASSUME AllConsistent, SemInv, OwnInv', Deferral', FaultInv',
         UNCHANGED <<prog, cur, env>>, status' # "running", rte'.faults = {}
  PROVE  SemInv'
<1>1. EnvInv'
  BY DEF SemInv, EnvInv
<1>2. WaitInv' /\ CacheInv' /\ ValInv'
  BY DEF WaitInv, CacheInv, ValInv
<1>3. QED
  BY <1>1, <1>2 DEF SemInv

\* An exception causes no fault.
LEMMA ThrowSemInv ==
  ASSUME AllConsistent, SemInv, ThrowDomainError
  PROVE  rte'.faults = {}
<1>1. /\ Visiting /\ Node.op = "expr" /\ MayThrow(Node) /\ OwnInv /\ Deferral
      /\ rte.faults = {}
  BY DEF ThrowDomainError, SemInv
<1>2. Node.fn \notin {"nop", "timeoutput"}
  BY <1>1 DEF MayThrow
<1>3. /\ Owned(rte) /\ Cardinality(Free(rte)) >= 4 /\ Sorted(rte.stack)
      /\ WellFormedExpr(Node) /\ Len(rte.stack) >= Node.k
      /\ Fresh(Arguments(rte, Node.k).r)
  BY <1>1, <1>2, FreshArguments
<1>4. Len(rte.stack) \in Nat
  BY <1>1, TypeOf DEF OwnInv
<1>5. Node.k = 2 => InOrder(rte.stack)
  BY <1>3, <1>4, SortedInOrder
<1>6. Ready(rte, Node).r.faults = rte.faults
  <2> DEFINE y == Ready(rte, Node)
  <2>1. /\ Fresh(y.r) /\ y.r.faults = rte.faults
    BY <1>2, <1>3, <1>5, ReadyParts
  <2>2. QED
    BY <2>1
<1>7. NoOperandTwice
  BY ConsistentScripts
<1>8. QED
  BY <1>1, <1>6, <1>7, ThrowQuiet

\* The end of a run causes no fault.
LEMMA DestroySemInv ==
  ASSUME SemInv, Destroy
  PROVE  rte'.faults = {}
<1>1. /\ OwnInv /\ rte.faults = {} /\ RteTypeOK(rte)
      /\ rte' = CleanOnException(rte)
  BY DEF Destroy, CleanOnException, SemInv, OwnInv, TypeInv, TypeOK
<1>2. Sound(rte) \/ Nothing(rte)
  BY <1>1 DEF OwnInv, Owned
<1>3. QED
  BY <1>1, <1>2, CleanQuiet

\* How each visit goes on.
LEMMA VisitAdvances ==
  ASSUME \/ VisitPar \/ VisitNumber \/ VisitExpr \/ DeferTimeoutput \/ VisitAss
         \/ AssignOutTss \/ VisitStat \/ VisitNonAssExpr \/ VisitBlockEntrance
         \/ JumpOutDynamicSection \/ JumpOutRepeatUntil \/ JumpOutCode
  PROVE  /\ Visiting /\ UNCHANGED <<prog, status>>
         /\ \E b \in BOOLEAN :
              (b => Node.op = "jump" /\ HasBackBranch(Node.kind)) /\ Advance(b)
<1>1. CASE JumpOutDynamicSection
  <2>1. TakeBackBranch \in BOOLEAN /\ Advance(TakeBackBranch)
    BY <1>1 DEF JumpOutDynamicSection, TakeBackBranch
  <2>2. QED
    BY <1>1, <2>1 DEF JumpOutDynamicSection, run, HasBackBranch, Advance
<1>2. CASE JumpOutRepeatUntil
  <2>1. PICK again \in RepeatAgain : Advance(again)
    BY <1>2 DEF JumpOutRepeatUntil
  <2>2. again \in BOOLEAN
    BY DEF RepeatAgain
  <2>3. QED
    BY <1>2, <2>1, <2>2 DEF JumpOutRepeatUntil, run, HasBackBranch, Advance
<1>3. CASE ~(JumpOutDynamicSection \/ JumpOutRepeatUntil)
  BY <1>3 DEF VisitPar, VisitNumber, VisitExpr, DeferTimeoutput, VisitAss, AssignOutTss,
     VisitStat, VisitNonAssExpr, VisitBlockEntrance, JumpOutCode, run, Advance
<1>4. QED
  BY <1>1, <1>2, <1>3

\* An assignment gives a value to a name.
LEMMA TotalExcept ==
  ASSUME NEW ev, Total(ev), NEW m, NEW v
  PROVE  Total([ev EXCEPT ![m] = v])
BY DEF Total

\* Every visit does what the visit of its node may do.
LEMMA AllVisit ==
  ASSUME AllConsistent, SemInv,
         \/ VisitPar \/ VisitNumber \/ VisitExpr \/ DeferTimeoutput \/ VisitAss
         \/ AssignOutTss \/ VisitStat \/ VisitNonAssExpr \/ VisitBlockEntrance
         \/ JumpOutDynamicSection \/ JumpOutRepeatUntil \/ JumpOutCode
  PROVE  /\ Visits(prog, cur, cur', rte, rte', env, env')
         /\ EnvInv'
<1>1. Visits(prog, cur, cur', rte, rte', env, env')
  BY VisitParVisits, VisitNumberVisits, VisitExprVisits, IdleVisits, VisitAssVisits,
     AssignOutTssVisits, JumpVisits
<1>2. EnvInv
  BY DEF SemInv
<1>3. CASE ~VisitAss
  <2>1. env' = env
    BY <1>3 DEF VisitPar, VisitNumber, VisitExpr, DeferTimeoutput, AssignOutTss,
       VisitStat, VisitNonAssExpr, VisitBlockEntrance, JumpOutDynamicSection,
       JumpOutRepeatUntil, JumpOutCode
  <2>2. QED
    BY <1>1, <1>2, <2>1 DEF EnvInv
<1>4. CASE VisitAss
  <2> DEFINE v == Denotes(rte, Top(rte))
             one == AssignStackTop(rte, Node.lhs[1], IsLast(1))
             u == Denotes(one, Top(one))
             m == Node.lhs[1]
             n == Node.lhs[2]
  <2>1. env' = [env EXCEPT ![m] = v] \/ env' = [env EXCEPT ![m] = v, ![n] = u]
    BY <1>4 DEF VisitAss
  <2> HIDE DEF v, u, m, n
  <2>2. Total([env EXCEPT ![m] = v])
    BY <1>2, TotalExcept DEF EnvInv
  <2>3. Total([[env EXCEPT ![m] = v] EXCEPT ![n] = u])
    BY <2>2, TotalExcept
  <2>4. [env EXCEPT ![m] = v, ![n] = u] = [[env EXCEPT ![m] = v] EXCEPT ![n] = u]
    OBVIOUS
  <2>5. QED
    BY <1>1, <2>1, <2>2, <2>3, <2>4 DEF EnvInv
<1>5. QED
  BY <1>1, <1>3, <1>4

\* The invariant is inductive.
LEMMA NextSemInv ==
  ASSUME AllConsistent, SemInv, [Next]_vars
  PROVE  SemInv'
<1>1. OwnInv /\ Deferral /\ FaultInv /\ TypeInv
  BY DEF SemInv, OwnInv
<1>2. OwnInv' /\ Deferral' /\ FaultInv'
  BY <1>1, ConsistentScripts, NextOwnInv, NextDeferral, NextFaultInv
<1>3. CASE \/ VisitPar \/ VisitNumber \/ VisitExpr \/ DeferTimeoutput \/ VisitAss
           \/ AssignOutTss \/ VisitStat \/ VisitNonAssExpr \/ VisitBlockEntrance
           \/ JumpOutDynamicSection \/ JumpOutRepeatUntil \/ JumpOutCode
  <2>1. PICK b \in BOOLEAN :
          (b => Node.op = "jump" /\ HasBackBranch(Node.kind)) /\ Advance(b)
    BY <1>3, VisitAdvances
  <2>2. Visiting /\ UNCHANGED <<prog, status>>
    BY <1>3, VisitAdvances
  <2>3. Visits(prog, cur, cur', rte, rte', env, env') /\ EnvInv'
    BY <1>3, AllVisit
  <2>4. QED
    BY <1>2, <2>1, <2>2, <2>3, VisitSemInv
<1>4. CASE ThrowDomainError
  <2>1. UNCHANGED <<prog, cur, env>> /\ status' # "running"
    BY <1>4 DEF ThrowDomainError, run
  <2>2. QED
    BY <1>2, <1>4, <2>1, ThrowSemInv, EndSemInv
<1>5. CASE Destroy
  <2>1. UNCHANGED <<prog, cur, env>> /\ status' # "running"
    BY <1>5 DEF Destroy, run
  <2>2. QED
    BY <1>2, <1>5, <2>1, DestroySemInv, EndSemInv
<1>6. CASE UNCHANGED vars
  <2>1. UNCHANGED <<prog, cur, env, status, rte>>
    BY <1>6 DEF vars, run
  <2>2. EnvInv' /\ WaitInv' /\ CacheInv' /\ ValInv' /\ rte'.faults = {}
    BY <2>1 DEF SemInv, EnvInv, WaitInv, CacheInv, ValInv
  <2>3. QED
    BY <1>2, <2>2 DEF SemInv
<1>7. QED
  BY <1>3, <1>4, <1>5, <1>6 DEF Next, Closed

\* The invariant of every run of consistent scripts.
LEMMA SemInvCorrect ==
  ASSUME AllConsistent
  PROVE  Spec => []SemInv
<1>1. Init => SemInv
  BY InitSemInv
<1>2. SemInv /\ [Next]_vars => SemInv'
  BY NextSemInv
<1>3. QED
  BY <1>1, <1>2, PTL DEF Spec

(***************************************************************************)
(* A graph in the cache is that of a value in the table, with the cells    *)
(* that the value has now: no operator computes from the graph of a value  *)
(* that was overwritten, and none stays after its value.                   *)
(***************************************************************************)
THEOREM CacheFreshCorrect ==
  ASSUME AllConsistent
  PROVE  Spec => []CacheFresh
<1>1. SemInv => CacheFresh
  <2> SUFFICES ASSUME SemInv, NEW o \in Obj, rte.cache[o] # NoValue
               PROVE  o \in Tabled(rte) /\ rte.cache[o] = rte.val[o]
    BY DEF CacheFresh
  <2>1. CASE status = "running"
    <3>1. Cached(prog, cur, rte)
      BY <2>1 DEF SemInv, CacheInv
    <3>2. QED
      BY <3>1, NullIsFree DEF Cached, Tabled
  <2>2. CASE status # "running"
    BY <2>2 DEF SemInv, OwnInv, Nothing, IsEmpty
  <2>3. QED
    BY <2>1, <2>2
<1>2. QED
  BY <1>1, SemInvCorrect, PTL

(***************************************************************************)
(* No value is deleted twice or used after it was deleted, and no graph is *)
(* deleted twice, with and without option m.                               *)
(***************************************************************************)
THEOREM ConsistentNoFaults ==
  ASSUME AllConsistent
  PROVE  Spec => []NoFaults
<1>1. SemInv => NoFaults
  BY DEF SemInv, NoFaults
<1>2. QED
  BY <1>1, SemInvCorrect, PTL

-------------------------------------------------------------------------------
(* Values are there when they are needed, and only then *)

\* A value that is held keeps its reason.
LEMMA NextHeldInv ==
  ASSUME AllConsistent, SemInv, HeldInv, [Next]_vars
  PROVE  HeldInv'
<1>1. CASE \/ VisitPar \/ VisitNumber \/ VisitExpr \/ DeferTimeoutput \/ VisitAss
           \/ AssignOutTss \/ VisitStat \/ VisitNonAssExpr \/ VisitBlockEntrance
           \/ JumpOutDynamicSection \/ JumpOutRepeatUntil \/ JumpOutCode
  <2>1. PICK b \in BOOLEAN :
          (b => Node.op = "jump" /\ HasBackBranch(Node.kind)) /\ Advance(b)
    BY <1>1, VisitAdvances
  <2>2. Visiting /\ UNCHANGED <<prog, status>>
    BY <1>1, VisitAdvances
  <2>3. MovesAt(prog, cur, cur', rte, rte') /\ AssignsAt(prog, cur, rte', env')
    BY <1>1, AllVisit DEF Visits
  <2>4. TypeInv /\ WaitInv
    BY DEF SemInv, OwnInv
  <2>5. prog \in DOMAIN Script /\ cur \in 1 .. Len(Script[prog].code)
    BY <2>2, <2>4, StackOfVisit DEF Code
  <2>6. cur' \in SuccSet(Script[prog].code, cur) \cap (0 .. Len(Script[prog].code))
    BY <2>1, <2>2, <2>4, NextNode DEF Code
  <2>7. \A n \in Names : rte.table[n] # NoObj => HasReason(Script[prog], Waits(prog), cur, n)
    BY <2>2 DEF HeldInv, Visiting
  <2>8. \A n \in Names :
          rte'.table[n] # NoObj => HasReason(Script[prog], Waits(prog), cur', n)
    BY <2>3, <2>5, <2>6, <2>7, StepHeldInv
  <2>9. QED
    BY <2>2, <2>8 DEF HeldInv
<1>2. CASE ThrowDomainError \/ Destroy
  BY <1>2 DEF ThrowDomainError, Destroy, HeldInv
<1>3. CASE UNCHANGED vars
  BY <1>3 DEF vars, run, HeldInv
<1>4. QED
  BY <1>1, <1>2, <1>3 DEF Next, Closed

\* So it is in every run of consistent scripts.
LEMMA HeldInvCorrect ==
  ASSUME AllConsistent
  PROVE  Spec => []HeldInv
<1>1. Init => HeldInv
  BY DEF Init, EmptyRte, HeldInv
<1>2. SemInv /\ HeldInv /\ [Next]_vars => HeldInv'
  BY NextHeldInv
<1>3. QED
  BY <1>1, <1>2, SemInvCorrect, PTL DEF Spec

\* A name whose last use waits on the stack is there as the stacked value.
LEMMA ReasonOnStack ==
  ASSUME AllConsistent, SemInv, status = "running", cur # 0, NEW n \in Names,
         HasReason(Script[prog], Waits(prog), cur, n)
  PROVE  \/ <<cur, n>> \in Script[prog].needed
         \/ \E i \in DOMAIN rte.stack : rte.stack[i] = StackedValue(n, TRUE)
<1> DEFINE x == Script[prog]
           w == Waits(prog)[cur]
           s == rte.stack
<1>1. CASE <<cur, n>> \in x.needed
  BY <1>1
<1>2. CASE <<cur, n>> \notin x.needed
  <2>1. PICK a \in 1 .. Len(w) : ReadsLast(x, w[a], n)
    BY <1>2 DEF HasReason
  <2>2. Matches(prog, w, s)
    BY DEF SemInv, WaitInv
  <2>3. a \in 1 .. Len(s) /\ Shows(prog, w[a], s[a])
    BY <2>1, <2>2 DEF Matches
  <2>4. x.code[w[a]].op = "par" /\ x.code[w[a]].name = n /\ <<w[a], 0>> \in x.last
    BY <2>1 DEF ReadsLast, Reads
  <2>5. s[a] = StackedValue(n, <<w[a], 0>> \in x.last)
    BY <2>3, <2>4 DEF Shows
  <2>6. (<<w[a], 0>> \in x.last) = TRUE
    BY <2>4
  <2>7. s[a] = StackedValue(n, TRUE)
    BY <2>5, <2>6
  <2>8. s \in Seq(Entries)
    BY DEF SemInv, OwnInv, TypeInv, TypeOK, RteTypeOK
  <2>9. a \in DOMAIN s
    BY <2>3, <2>8
  <2>10. QED
    BY <2>7, <2>9
<1>3. QED
  BY <1>1, <1>2

(***************************************************************************)
(* A name has a value in the table only while the value is needed, or      *)
(* while the occurrence that is its last use waits on the stack.           *)
(***************************************************************************)
THEOREM HeldIsNeededCorrect ==
  ASSUME AllConsistent
  PROVE  Spec => []HeldIsNeeded
<1>1. SemInv /\ HeldInv => HeldIsNeeded
  <2> SUFFICES ASSUME SemInv, HeldInv, status = "running",
                      NEW n \in Names, rte.table[n] # NoObj
               PROVE  \/ <<cur, n>> \in Script[prog].needed
                      \/ \E i \in DOMAIN rte.stack : rte.stack[i] = StackedValue(n, TRUE)
    BY DEF HeldIsNeeded
  <2>1. HasReason(Script[prog], Waits(prog), cur, n)
    BY DEF HeldInv
  <2>2. CASE cur = 0
    BY <2>1, <2>2 DEF HasReason
  <2>3. CASE cur # 0
    BY <2>1, <2>3, ReasonOnStack
  <2>4. QED
    BY <2>2, <2>3
<1>2. QED
  BY <1>1, SemInvCorrect, HeldInvCorrect, PTL

(***************************************************************************)
(* At the end of the code, before the environment is destroyed, no name    *)
(* has a value, the cache is empty and so is the stack.                    *)
(***************************************************************************)
THEOREM FreedAtEndCorrect ==
  ASSUME AllConsistent
  PROVE  Spec => []FreedAtEnd
<1>1. SemInv /\ HeldInv => FreedAtEnd
  <2> SUFFICES ASSUME SemInv, HeldInv
               PROVE  /\ cur = 0 => IsEmpty(rte) /\ rte.stack = << >>
                      /\ NothingLeft
    BY DEF FreedAtEnd
  <2>1. status # "running" => Nothing(rte)
    BY DEF SemInv, OwnInv
  <2>2. ASSUME status = "running", cur = 0
        PROVE  IsEmpty(rte) /\ rte.stack = << >>
    <3>1. prog \in DOMAIN Script
      BY DEF SemInv, OwnInv, TypeInv, TypeOK
    <3>2. \A n \in Names : <<0, n>> \notin Script[prog].needed
      BY <3>1, ScriptBalanced DEF UsesEnd
    <3>3. \A n \in Names : rte.table[n] = NoObj
      BY <2>2, <3>2 DEF HeldInv, HasReason
    <3>4. Tabled(rte) = {}
      BY <3>3 DEF Tabled
    <3>5. \A o \in Obj : rte.cache[o] = NoValue
      BY <2>2, <3>3, NullIsFree DEF SemInv, CacheInv, Cached
    <3>6. rte.stack = << >>
      BY <2>2 DEF SemInv, WaitInv
    <3>7. QED
      BY <3>4, <3>5, <3>6 DEF IsEmpty
  <2>3. QED
    BY <2>1, <2>2 DEF Nothing, NothingLeft
<1>2. QED
  BY <1>1, SemInvCorrect, HeldInvCorrect, PTL

\* There are as many operands on the stack as the node pops.
OperandsThere ==
  status = "running" /\ cur # 0 =>
    /\ Len(rte.stack) >= Pops(Node)
    /\ Len(rte.stack) >= Takes(Code, cur)

(***************************************************************************)
(* No node pops more than there is: RunTimeStack::pop never meets an empty *)
(* stack, for an operator, an assignment, a time series or a condition.    *)
(***************************************************************************)
THEOREM OperandsThereCorrect ==
  ASSUME AllConsistent
  PROVE  Spec => []OperandsThere
<1>1. SemInv => OperandsThere
  <2> SUFFICES ASSUME SemInv, status = "running", cur # 0
               PROVE  /\ Len(rte.stack) >= Pops(Node)
                      /\ Len(rte.stack) >= Takes(Code, cur)
    BY DEF OperandsThere
  <2> DEFINE len == Len(rte.stack)
             wait == Len(Waits(prog)[cur])
             k == Takes(Code, cur)
             l == Pops(Node)
  <2>1. /\ prog \in DOMAIN Script /\ cur \in 1 .. Len(Code) /\ WellFormedNode(Code, cur)
        /\ Node = Code[cur]
    BY CodeType DEF SemInv, OwnInv, TypeInv, TypeOK, At, Node
  <2>2. len = wait /\ len \in Nat
    BY DEF SemInv, WaitInv, Matches, OwnInv, TypeInv, TypeOK, RteTypeOK
  <2>3. k <= wait /\ l <= wait
    BY <2>1, ScriptBalanced DEF Balanced, Code
  <2>4. k \in Nat
    BY <2>1, TakesType
  <2>5. l \in Nat
    BY <2>1 DEF Pops, WellFormedNode, WellFormedExpr
  <2> HIDE DEF len, wait, k, l
  <2>6. len >= l /\ len >= k
    BY <2>2, <2>3, <2>4, <2>5
  <2>7. QED
    BY <2>6 DEF len, k, l
<1>2. QED
  BY <1>1, SemInvCorrect, PTL

-------------------------------------------------------------------------------
(* What the stack stands for *)

\* Denoted, of any environment.
DenotedIn(r) == [i \in DOMAIN r.stack |-> Denotes(r, r.stack[i])]

\* There is one value for each entry.
LEMMA DenotedParts ==
  ASSUME NEW r, RteTypeOK(r)
  PROVE  LET d == DenotedIn(r) IN
         /\ Len(d) = Len(r.stack) /\ Len(d) \in Nat
         /\ d \in Seq({d[i] : i \in DOMAIN d})
         /\ \A i \in 1 .. Len(r.stack) : d[i] = Denotes(r, r.stack[i])
<1> DEFINE d == DenotedIn(r)
           s == r.stack
           n == Len(s)
<1>1. s \in Seq(Entries) /\ n \in Nat /\ DOMAIN s = 1 .. n
  BY DEF RteTypeOK
<1>2. d = [i \in 1 .. n |-> Denotes(r, s[i])]
  BY <1>1 DEF DenotedIn
<1> DEFINE S == {d[i] : i \in DOMAIN d}
<1> HIDE DEF d, s, n
<1>3. DOMAIN d = 1 .. n
  BY <1>2
<1>4. d \in [1 .. n -> S]
  <2>1. d = [i \in 1 .. n |-> d[i]]
    BY <1>2
  <2>2. \A i \in 1 .. n : d[i] \in S
    BY <1>3
  <2>3. QED
    BY <2>1, <2>2
<1> HIDE DEF S
<1>5. d \in Seq(S) /\ Len(d) = n
  BY <1>1, <1>4
<1>6. QED
  BY <1>1, <1>2, <1>5 DEF d, s, n, S

\* Values that are equal one by one are the same sequence.
LEMMA SameSequence ==
  ASSUME NEW S, NEW T, NEW s \in Seq(S), NEW t \in Seq(T), Len(s) = Len(t),
         \A i \in 1 .. Len(s) : s[i] = t[i]
  PROVE  s = t
<1>1. s = [i \in 1 .. Len(s) |-> s[i]] /\ t = [i \in 1 .. Len(t) |-> t[i]]
  OBVIOUS
<1>2. QED
  BY <1>1

\* The k highest entries are replaced by entries that denote the values of new.
Replaces(r, t, k, new) ==
  /\ Len(t.stack) = (Len(r.stack) - k) + Len(new)
  /\ \A i \in 1 .. Len(r.stack) - k : Denotes(t, t.stack[i]) = Denotes(r, r.stack[i])
  /\ \A i \in 1 .. Len(new) : Denotes(t, t.stack[(Len(r.stack) - k) + i]) = new[i]

\* The sequence of the values that are left, followed by the new ones.
LEMMA DenotedLike ==
  ASSUME NEW r, RteTypeOK(r), NEW t, RteTypeOK(t),
         NEW k \in Nat, k <= Len(r.stack), NEW N, NEW new \in Seq(N),
         Replaces(r, t, k, new)
  PROVE  DenotedIn(t) = SubSeq(DenotedIn(r), 1, Len(DenotedIn(r)) - k) \o new
<1> DEFINE l == Len(new)
<1>0. /\ l \in Nat /\ Len(t.stack) = (Len(r.stack) - k) + l
      /\ \A i \in 1 .. Len(r.stack) - k : Denotes(t, t.stack[i]) = Denotes(r, r.stack[i])
      /\ \A i \in 1 .. l : Denotes(t, t.stack[(Len(r.stack) - k) + i]) = new[i]
  BY DEF Replaces
<1> HIDE DEF l
<1> DEFINE a == DenotedIn(r)
           b == DenotedIn(t)
           n == Len(r.stack)
           m == n - k
           A == {a[i] : i \in DOMAIN a}
           B == {b[i] : i \in DOMAIN b}
           u == A \cup N
           low == SubSeq(a, 1, m)
<1>1. /\ Len(a) = n /\ n \in Nat /\ a \in Seq(A)
      /\ \A i \in 1 .. n : a[i] = Denotes(r, r.stack[i])
  BY DenotedParts
<1>2. /\ Len(b) = m + l /\ b \in Seq(B)
      /\ \A i \in 1 .. m + l : b[i] = Denotes(t, t.stack[i])
  <2>1. /\ Len(b) = Len(t.stack) /\ b \in Seq(B)
        /\ \A i \in 1 .. Len(t.stack) : b[i] = Denotes(t, t.stack[i])
    BY DenotedParts
  <2> HIDE DEF b, B
  <2>2. QED
    BY <1>0, <2>1
<1>3. /\ m \in Nat /\ m <= n
      /\ \A i \in 1 .. m : b[i] = a[i]
      /\ \A i \in 1 .. l : b[m + i] = new[i]
  <2> HIDE DEF a, b, A, B
  <2>1. m \in Nat /\ m <= n
    BY <1>1
  <2>2. ASSUME NEW i \in 1 .. m PROVE b[i] = a[i]
    <3>1. i \in 1 .. n /\ i \in 1 .. m + l
      <4> HIDE DEF n, m
      <4>1. QED
        BY <1>0, <1>1, <2>1
    <3>2. b[i] = Denotes(t, t.stack[i]) /\ a[i] = Denotes(r, r.stack[i])
      BY <1>1, <1>2, <3>1
    <3>3. QED
      BY <1>0, <3>2
  <2>3. ASSUME NEW i \in 1 .. l PROVE b[m + i] = new[i]
    <3>1. m + i \in 1 .. m + l
      <4> HIDE DEF n, m
      <4>1. QED
        BY <1>0, <2>1
    <3>2. b[m + i] = Denotes(t, t.stack[m + i])
      BY <1>2, <3>1
    <3>3. QED
      BY <1>0, <3>2
  <2>4. QED
    BY <2>1, <2>2, <2>3
<1> HIDE DEF a, b, n, m, A, B, l
<1>4. low \in Seq(A) /\ Len(low) = m /\ \A i \in 1 .. m : low[i] = a[i]
  <2>1. low = Below(a, k)
    BY <1>1 DEF Below, m
  <2>2. k <= Len(a)
    BY <1>1 DEF n
  <2>3. Below(a, k) \in Seq(A) /\ Len(Below(a, k)) = Len(a) - k
        /\ \A i \in 1 .. Len(a) - k : Below(a, k)[i] = a[i]
    BY <1>1, <2>2, LowerPart
  <2>4. QED
    BY <1>1, <2>1, <2>3 DEF m
<1>5. new \in Seq(N) /\ Len(new) = l
  BY DEF l
<1> HIDE DEF low
<1>6. low \in Seq(u) /\ new \in Seq(u)
  BY <1>4, <1>5
<1> HIDE DEF u
<1>7. /\ low \o new \in Seq(u) /\ Len(low \o new) = m + l
      /\ \A i \in 1 .. m : (low \o new)[i] = low[i]
      /\ \A i \in 1 .. l : (low \o new)[m + i] = new[i]
      /\ \A i \in 1 .. m + l : i \in 1 .. m \/ \E j \in 1 .. l : i = m + j
  <2>1. /\ low \o new \in Seq(u) /\ Len(low \o new) = Len(low) + Len(new)
        /\ \A i \in 1 .. Len(low) : (low \o new)[i] = low[i]
        /\ \A i \in 1 .. Len(new) : (low \o new)[Len(low) + i] = new[i]
        /\ \A i \in 1 .. Len(low) + Len(new) :
             i \in 1 .. Len(low) \/ \E j \in 1 .. Len(new) : i = Len(low) + j
    BY <1>6, Joined
  <2>2. QED
    BY <1>4, <1>5, <2>1
<1>8. \A i \in 1 .. m + l : b[i] = (low \o new)[i]
  <2> SUFFICES ASSUME NEW i \in 1 .. m + l
               PROVE  b[i] = (low \o new)[i]
    OBVIOUS
  <2>1. CASE i \in 1 .. m
    BY <1>3, <1>4, <1>7, <2>1
  <2>2. CASE i \notin 1 .. m
    <3>1. PICK j \in 1 .. l : i = m + j
      BY <1>7, <2>2
    <3>2. b[m + j] = new[j] /\ (low \o new)[m + j] = new[j]
      BY <1>3, <1>7
    <3>3. QED
      BY <3>1, <3>2
  <2>3. QED
    BY <2>1, <2>2
<1>9. b = low \o new
  BY <1>2, <1>7, <1>8, SameSequence
<1>10. Len(a) - k = m
  BY <1>1 DEF m
<1>11. QED
  BY <1>9, <1>10 DEF a, b, low

\* The values on top are those of the operands.
LEMMA TopDenotes ==
  ASSUME NEW r, RteTypeOK(r), NEW k \in Nat, k <= Len(r.stack)
  PROVE  Semantics!TopValues(DenotedIn(r), k) = Values(r, k)
<1> DEFINE a == DenotedIn(r)
           n == Len(r.stack)
           A == {a[i] : i \in DOMAIN a}
           s == SubSeq(a, (n - k) + 1, n)
<1>1. /\ Len(a) = n /\ n \in Nat /\ a \in Seq(A)
      /\ \A i \in 1 .. n : a[i] = Denotes(r, r.stack[i])
  BY DenotedParts
<1> HIDE DEF a, A
<1>2. \A i \in 1 .. k : (n - k) + i \in 1 .. n
  <2> HIDE DEF n
  <2>1. k <= n
    BY DEF n
  <2>2. QED
    BY <1>1, <2>1
<1>3. \A i \in 1 .. k : a[(n - k) + i] = Denotes(r, r.stack[(n - k) + i])
  <2> SUFFICES ASSUME NEW i \in 1 .. k
               PROVE  a[(n - k) + i] = Denotes(r, r.stack[(n - k) + i])
    OBVIOUS
  <2>1. QED
    BY <1>1, <1>2
<1>4. s = Values(r, k)
  <2> DEFINE m == (n - k) + 1
             v == Values(r, k)
             V == {v[i] : i \in 1 .. k}
  <2>1. /\ m \in Int /\ n \in Int
        /\ (IF m <= n THEN (n - m) + 1 ELSE 0) = k
        /\ (n - m) + 1 = k
        /\ \A i \in 1 .. k : (m + i) - 1 = (n - k) + i
        /\ \A i \in m .. n : i \in 1 .. n
    <3> HIDE DEF n
    <3>1. k <= n
      BY DEF n
    <3>2. QED
      BY <1>1, <3>1
  <2> HIDE DEF m, n
  <2>2. \A i \in m .. n : a[i] \in A
    BY <1>1, <2>1
  <2> DEFINE sub == SubSeq(a, m, n)
  <2>3. /\ sub \in Seq(A)
        /\ Len(sub) = IF m <= n THEN (n - m) + 1 ELSE 0
        /\ \A i \in 1 .. (n - m) + 1 : sub[i] = a[(m + i) - 1]
    BY <2>1, <2>2, SubSeqProperties
  <2> HIDE DEF sub
  <2>4. Len(sub) = k /\ \A i \in 1 .. k : sub[i] = a[(n - k) + i]
    BY <2>1, <2>3
  <2>5. v = [i \in 1 .. k |-> Denotes(r, r.stack[(n - k) + i])]
    BY DEF Values, n
  <2> HIDE DEF v
  <2>6. v \in [1 .. k -> V] /\ \A i \in 1 .. k : v[i] = Denotes(r, r.stack[(n - k) + i])
    BY <2>5
  <2> HIDE DEF V
  <2>7. v \in Seq(V) /\ Len(v) = k
    BY <2>6
  <2>8. \A i \in 1 .. k : sub[i] = v[i]
    BY <1>3, <2>4, <2>6
  <2>9. sub = v
    BY <2>3, <2>4, <2>7, <2>8, SameSequence
  <2>10. QED
    BY <2>9 DEF sub, v, m, n
<1>5. Semantics!TopValues(a, k) = SubSeq(a, (Len(a) - k) + 1, Len(a))
  BY DEF Semantics!TopValues
<1>6. QED
  BY <1>1, <1>4, <1>5 DEF a

-------------------------------------------------------------------------------
(* Every step is a step of the interpreter *)

\* An entry is pushed, and the others denote what they did.
LEMMA DenotedPush ==
  ASSUME NEW r, RteTypeOK(r), NEW t, RteTypeOK(t), NEW e \in Entries,
         t.stack = Append(r.stack, e),
         \A i \in 1 .. Len(r.stack) : Denotes(t, r.stack[i]) = Denotes(r, r.stack[i])
  PROVE  DenotedIn(t) = Append(DenotedIn(r), Denotes(t, e))
<1> DEFINE a == DenotedIn(r)
           b == DenotedIn(t)
           s == r.stack
           n == Len(s)
           v == Denotes(t, e)
           A == {a[i] : i \in DOMAIN a}
           B == {b[i] : i \in DOMAIN b}
<1>1. /\ Len(a) = n /\ n \in Nat /\ a \in Seq(A)
      /\ \A i \in 1 .. n : a[i] = Denotes(r, s[i])
  BY DenotedParts
<1>2. /\ Len(b) = Len(t.stack) /\ b \in Seq(B)
      /\ \A i \in 1 .. Len(t.stack) : b[i] = Denotes(t, t.stack[i])
  BY DenotedParts
<1>3. s \in Seq(Entries)
  BY DEF RteTypeOK
<1>4. /\ Len(t.stack) = n + 1 /\ t.stack[n + 1] = e
      /\ \A i \in 1 .. n : t.stack[i] = s[i]
  BY <1>3
<1> HIDE DEF a, b, A, B, n
<1>5. \A i \in 1 .. n + 1 : i \in 1 .. n \/ i = n + 1
  BY <1>1
<1>6. b[n + 1] = v /\ \A i \in 1 .. n : b[i] = a[i]
  <2>1. n + 1 \in 1 .. n + 1 /\ \A i \in 1 .. n : i \in 1 .. n + 1
    BY <1>1
  <2>2. QED
    BY <1>1, <1>2, <1>4, <2>1 DEF n
<1> HIDE DEF v
<1> DEFINE U == A \cup {v}
           c == Append(a, v)
<1>7. c \in Seq(U) /\ Len(c) = n + 1 /\ c[n + 1] = v /\ \A i \in 1 .. n : c[i] = a[i]
  BY <1>1
<1> HIDE DEF c, U
<1>8. \A i \in 1 .. n + 1 : b[i] = c[i]
  BY <1>5, <1>6, <1>7
<1>9. b = c
  BY <1>2, <1>4, <1>7, <1>8, SameSequence
<1>10. QED
  BY <1>9 DEF a, b, c, v

\* An entry denotes the same where what it refers to is the same.
LEMMA SameDenotes ==
  ASSUME NEW r, Sound(r), NEW t, Moves(r, t, {}, {}), \A o \in r.live : t.val[o] = r.val[o]
  PROVE  \A i \in 1 .. Len(r.stack) : Denotes(t, r.stack[i]) = Denotes(r, r.stack[i])
<1> SUFFICES ASSUME NEW i \in 1 .. Len(r.stack)
             PROVE  Denotes(t, r.stack[i]) = Denotes(r, r.stack[i])
  OBVIOUS
<1>1. RteTypeOK(r) /\ Stacked(r) \subseteq r.live
  BY DEF Sound
<1>2. r.stack[i] \in Entries
  BY <1>1 DEF RteTypeOK
<1>3. r.stack[i].obj # NoObj => r.stack[i].obj \in r.live
  BY <1>1, StackedType
<1>4. QED
  BY <1>2, <1>3, DenotesKept

\* A name on the stack denotes the value that it was assigned last.
LEMMA VisitParMeans ==
  ASSUME AllConsistent, SemInv, SemInv', VisitPar
  PROVE  Semantics!Read
<1> DEFINE e == StackedValue(Node.name, IsLast(0))
<1>1. /\ Visiting /\ Node.op = "par" /\ rte' = PushEntry(rte, e) /\ Advance(FALSE)
      /\ UNCHANGED <<prog, time, spins, env, out, status>>
  BY DEF VisitPar, run
<1>2. /\ prog \in DOMAIN Script /\ cur \in 1 .. Len(Code) /\ WellFormedNode(Code, cur)
      /\ RteTypeOK(rte) /\ Node = Code[cur]
  BY <1>1, StackOfVisit DEF SemInv, OwnInv, Node
<1>3. Node.name \in Names /\ e \in Entries /\ e.obj = NoObj /\ e.name = Node.name
  <2>1. Node.name \in Names
    BY <1>1, <1>2 DEF WellFormedNode
  <2>2. IsLast(0) \in BOOLEAN
    BY DEF IsLast
  <2>3. e \in Entries
    BY <2>1, <2>2, StackValueType
  <2>4. QED
    BY <2>1, <2>3 DEF StackedValue
<1>4. RteTypeOK(rte') /\ Sound(rte)
  BY <1>1 DEF SemInv, OwnInv, TypeInv, TypeOK, Visiting, Owned
<1> HIDE DEF e
<1>5. rte'.stack = Append(rte.stack, e) /\ rte'.table = rte.table
  BY <1>1, <1>2, <1>3, PushType
<1>6. rte'.val = rte.val
  BY <1>1, <1>2 DEF PushEntry, RteTypeOK
<1>7. Moves(rte, rte', {}, {})
  BY <1>5, <1>6, MovesNothing
<1>8. DenotedIn(rte') = Append(DenotedIn(rte), Denotes(rte', e))
  BY <1>2, <1>3, <1>4, <1>5, <1>6, <1>7, SameDenotes, DenotedPush
<1>9. Denotes(rte', e) = env[Node.name]
  <2>1. Denotes(rte', e) = Held(rte, Node.name)
    BY <1>3, <1>5, <1>6, DenotesHeld DEF Held
  <2>2. UsesKept(Script[prog], Waits(prog), LiveNames(prog), Names)
    BY <1>2, ScriptBalanced DEF LiveNames
  <2>3. <<cur, Node.name>> \in LiveNames(prog)
    BY <1>1, <1>2, <2>2 DEF UsesKept, Code
  <2>4. Held(rte, Node.name) = env[Node.name]
    BY <1>1, <1>3, <2>3 DEF SemInv, ValInv, Current, Visiting
  <2>5. QED
    BY <2>1, <2>4
<1>10. Denoted' = Append(Denoted, env[Node.name])
  BY <1>8, <1>9 DEF Denoted, DenotedIn
<1>11. QED
  BY <1>1, <1>10 DEF Semantics!Read, Semantics!Running, Semantics!Node, Semantics!Code,
     Semantics!Continue, Semantics!Succ, Advance, Succ, Visiting, Node, Code

\* A number is pushed.
LEMMA VisitNumberMeans ==
  ASSUME AllConsistent, SemInv, SemInv', VisitNumber
  PROVE  Semantics!Read
<1> DEFINE v == <<"number", << >> >>
           new == New(rte, v, FALSE)
           e == StackedField(new.obj)
<1>1. /\ Visiting /\ Node.op = "num" /\ rte' = PushEntry(new.r, e) /\ Advance(FALSE)
      /\ UNCHANGED <<prog, time, spins, env, out, status>>
  BY DEF VisitNumber, run
<1>2. /\ RteTypeOK(rte) /\ Free(rte) # {} /\ Sound(rte) /\ RteTypeOK(rte')
  BY <1>1, VisitingType DEF SemInv, OwnInv, TypeInv, TypeOK, Visiting, Owned
<1>3. /\ RteTypeOK(new.r) /\ new.obj \in Obj
      /\ new.r.stack = rte.stack /\ new.r.table = rte.table
  BY <1>2, NewType
<1>4. Adds(rte, new.r)
  BY <1>2, NewAdds
<1>5. new.r.val[new.obj] = v
  <2>1. Alloc(rte) \in Obj
    BY <1>2, AllocType
  <2>2. QED
    BY <1>2, <2>1 DEF New, RteTypeOK
<1> HIDE DEF new, v
<1>6. e \in Entries /\ e.obj = new.obj /\ new.obj # NoObj
  BY <1>3, StackFieldType, NullIsFree DEF StackedField
<1> HIDE DEF e
<1>7. rte'.table = rte.table /\ rte'.stack = Append(rte.stack, e)
  BY <1>1, <1>3, <1>6, PushType
<1>8. rte'.val = new.r.val
  BY <1>1, <1>3 DEF PushEntry, RteTypeOK
<1>9. \A o \in rte.live : rte'.val[o] = rte.val[o]
  BY <1>4, <1>8 DEF Adds
<1>10. Moves(rte, rte', {}, {})
  BY <1>2, <1>7, <1>9, MovesNothing DEF Sound
<1>11. DenotedIn(rte') = Append(DenotedIn(rte), Denotes(rte', e))
  BY <1>2, <1>6, <1>7, <1>9, <1>10, SameDenotes, DenotedPush
<1>12. Denotes(rte', e) = v
  BY <1>5, <1>6, <1>8 DEF Denotes
<1>13. Denoted' = Append(Denoted, v)
  BY <1>11, <1>12 DEF Denoted, DenotedIn
<1>14. QED
  BY <1>1, <1>13 DEF Semantics!Read, Semantics!Running, Semantics!Node, Semantics!Code,
     Semantics!Continue, Semantics!Succ, Advance, Succ, Visiting, Node, Code, v

\* Nodes that leave the environment alone.
LEMMA IdleMeans ==
  ASSUME DeferTimeoutput \/ VisitStat \/ VisitNonAssExpr \/ VisitBlockEntrance
  PROVE  Semantics!Defer \/ Semantics!Nothing \/ Semantics!EnterBlock
<1>1. Denoted' = Denoted /\ Visiting /\ Advance(FALSE)
  BY DEF DeferTimeoutput, VisitStat, VisitNonAssExpr, VisitBlockEntrance, Denoted
<1> DEFINE d == Denoted
<1>2. Semantics!Running /\ Semantics!Continue(FALSE) /\ Semantics!Node = Node
  BY <1>1 DEF Semantics!Running, Semantics!Node, Semantics!Code, Semantics!Continue,
     Semantics!Succ, Advance, Succ, Visiting, Node, Code
<1>3. CASE DeferTimeoutput
  BY <1>1, <1>2, <1>3 DEF DeferTimeoutput, run, Semantics!Defer
<1>4. CASE VisitStat \/ VisitNonAssExpr
  BY <1>1, <1>2, <1>4 DEF VisitStat, VisitNonAssExpr, run, Semantics!Nothing
<1>5. CASE VisitBlockEntrance
  BY <1>1, <1>2, <1>5 DEF VisitBlockEntrance, run, Semantics!EnterBlock, Semantics!NextTime
<1>6. QED
  BY <1>3, <1>4, <1>5

\* An operator takes its operands, and leaves its results.
LEMMA VisitExprMeans ==
  ASSUME AllConsistent, SemInv, SemInv', VisitExpr
  PROVE  Semantics!Evaluate
<1> DEFINE k == Node.k
           l == Node.r
           fn == Node.fn
           new == [i \in 1 .. l |-> Semantics!Result(fn, Values(rte, k), i)]
           s == rte.stack
           t == rte'.stack
<1>1. /\ Visiting /\ Node.op = "expr" /\ Node.fn # "timeoutput" /\ Advance(FALSE)
      /\ UNCHANGED <<prog, time, spins, env, out, status>>
  BY DEF VisitExpr, run
<1>2. WellFormedExpr(Node) /\ k <= Len(s) /\ RteTypeOK(rte)
  <2>1. WellFormedExpr(Node) /\ Len(s) >= k /\ Owned(rte)
    BY <1>1, FreshArguments
  <2>2. k \in Nat /\ Len(s) \in Nat
    BY <2>1 DEF WellFormedExpr, Owned, Sound, RteTypeOK
  <2>3. QED
    BY <2>1, <2>2 DEF Owned, Sound
<1>3. RteTypeOK(rte')
  BY <1>1 DEF SemInv, OwnInv, TypeInv, TypeOK
<1>4. k \in Nat /\ l \in Nat
  BY <1>2 DEF WellFormedExpr
<1>5. Evaluated(rte, rte', Node)
  BY VisitExprEvaluates
<1>6. /\ Len(t) = (Len(s) - k) + l
      /\ \A i \in 1 .. Len(s) - k : Denotes(rte', t[i]) = Denotes(rte, s[i])
      /\ \A i \in 1 .. l : Denotes(rte', t[(Len(s) - k) + i]) =
                             Semantics!Result(fn, Values(rte, k), i)
  BY <1>5 DEF Evaluated
<1>7. DOMAIN new = 1 .. l /\ new = [i \in 1 .. l |-> new[i]]
      /\ \A i \in 1 .. l : Denotes(rte', t[(Len(s) - k) + i]) = new[i]
  BY <1>6
<1> DEFINE N == {new[i] : i \in 1 .. l}
<1> HIDE DEF new, s, t, k, l, fn
<1>8. DenotedIn(rte') = SubSeq(DenotedIn(rte), 1, Len(DenotedIn(rte)) - k) \o new
  <2>1. new \in Seq(N) /\ Len(new) = l
    <3>1. new \in [1 .. l -> N]
      BY <1>7
    <3> HIDE DEF N
    <3>2. QED
      BY <1>4, <3>1
  <2> HIDE DEF N
  <2>2. /\ Len(t) = (Len(s) - k) + Len(new)
        /\ \A i \in 1 .. Len(s) - k : Denotes(rte', t[i]) = Denotes(rte, s[i])
        /\ \A i \in 1 .. Len(new) : Denotes(rte', t[(Len(s) - k) + i]) = new[i]
    BY <1>6, <1>7, <2>1
  <2>3. Replaces(rte, rte', k, new)
    BY <2>2 DEF Replaces, s, t
  <2>4. k <= Len(rte.stack)
    BY <1>2 DEF s
  <2>5. QED
    BY <1>2, <1>3, <1>4, <2>1, <2>3, <2>4, DenotedLike
<1>9. Semantics!TopValues(DenotedIn(rte), k) = Values(rte, k)
  BY <1>2, <1>4, TopDenotes DEF s
<1>10. Denoted' = DenotedIn(rte') /\ Denoted = DenotedIn(rte)
  BY DEF Denoted, DenotedIn
<1>11. Denoted' = Semantics!Rest(Denoted, k)
                    \o [i \in 1 .. l |-> Semantics!Result(fn, Semantics!TopValues(Denoted, k), i)]
  BY <1>8, <1>9, <1>10 DEF Semantics!Rest, new
<1>12. Semantics!Running /\ Semantics!Continue(FALSE) /\ Semantics!Node = Node
  BY <1>1 DEF Semantics!Running, Semantics!Node, Semantics!Code, Semantics!Continue,
     Semantics!Succ, Advance, Succ, Visiting, Node, Code
<1>13. QED
  BY <1>1, <1>11, <1>12 DEF Semantics!Evaluate, k, l, fn

\* An assignment and a jump take all that there is.
LEMMA TakesAll ==
  ASSUME AllConsistent, NEW p \in DOMAIN Script, NEW i \in 1 .. Len(Script[p].code),
         Script[p].code[i].op \in {"ass", "jump"}, Waits(p)[i] \in Seq(Operand(p)),
         NEW s, Matches(p, Waits(p)[i], s)
  PROVE  Len(s) = Takes(Script[p].code, i) /\ Leaves(Script[p].code, i) = 0
<1> DEFINE c == Script[p].code
           w == Waits(p)[i]
           k == Takes(c, i)
           n == Len(w)
           low == Below(w, k)
           new == [a \in 1 .. Leaves(c, i) |-> i]
           O == Operand(p)
           U == O \cup {i}
<1>1. Leaves(c, i) = 0
  BY DEF Leaves
<1>2. /\ After(c, i, w) = << >> /\ k <= n
  BY ScriptBalanced DEF Balanced
<1>3. k \in Nat /\ n \in Nat
  BY TakesType, ProgramsAssumption
<1>4. low \in Seq(O) /\ Len(low) = n - k
  <2> HIDE DEF c, O, k
  <2>1. QED
    BY <1>2, <1>3, LowerPart DEF O
<1>5. new \in Seq({i}) /\ Len(new) = 0
  <2> HIDE DEF c
  <2>1. new = [a \in 1 .. 0 |-> i]
    BY <1>1
  <2>2. 1 .. 0 = {}
    OBVIOUS
  <2>3. new = << >>
    BY <2>1, <2>2
  <2> HIDE DEF new
  <2>4. QED
    BY <2>3
<1>6. Len(low \o new) = 0
  <2>1. After(c, i, w) = low \o new
    BY DEF After
  <2>2. low \o new = << >>
    BY <1>2, <2>1
  <2> HIDE DEF low, new
  <2>3. QED
    BY <2>2
<1> HIDE DEF low, new, n, k, O
<1>7. low \in Seq(U) /\ new \in Seq(U)
  BY <1>4, <1>5
<1> HIDE DEF U
<1>8. Len(low \o new) = Len(low) + Len(new)
  BY <1>7, Joined
<1>9. n = k
  BY <1>3, <1>4, <1>5, <1>6, <1>8
<1>10. QED
  BY <1>1, <1>9 DEF Matches, n, k

\* Nothing is left then.
LEMMA Emptied ==
  ASSUME NEW r, RteTypeOK(r), NEW t, RteTypeOK(t), NEW p \in DOMAIN Script,
         NEW i \in 1 .. Len(Script[p].code), NEW k \in Nat, k = Takes(Script[p].code, i),
         Len(r.stack) = k, Leaves(Script[p].code, i) = 0, StackAt(p, i, r.stack, t.stack)
  PROVE  DenotedIn(t) = << >> /\ Semantics!Rest(DenotedIn(r), k) = << >>
<1>1. Len(t.stack) = 0
  <2>1. Len(t.stack) = (k - k) + 0
    BY DEF StackAt
  <2>2. (k - k) + 0 = 0
    OBVIOUS
  <2>3. QED
    BY <2>1, <2>2
<1>2. t.stack = << >>
  BY <1>1 DEF RteTypeOK
<1>3. DenotedIn(t) = << >>
  BY <1>2 DEF DenotedIn
<1>4. Semantics!Rest(DenotedIn(r), k) = << >>
  <2> DEFINE d == DenotedIn(r)
  <2>1. Len(d) = k
    BY DenotedParts
  <2> HIDE DEF d
  <2>2. Len(d) - k \in Int /\ Len(d) - k < 1 /\ 1 \in Int
    BY <2>1
  <2>3. SubSeq(d, 1, Len(d) - k) = << >>
    BY <2>2, SubSeqEmpty
  <2>4. QED
    BY <2>3 DEF Semantics!Rest, d
<1>5. QED
  BY <1>3, <1>4

\* The same of a step of the executor.
LEMMA StatementEnds ==
  ASSUME AllConsistent, SemInv, SemInv', Visiting, Node.op \in {"ass", "jump"},
         Visits(prog, cur, cur', rte, rte', env, env')
  PROVE  /\ Denoted' = << >>
         /\ Semantics!Rest(Denoted, Takes(Code, cur)) = << >>
         /\ Len(rte.stack) = Takes(Code, cur) /\ Takes(Code, cur) \in Nat
         /\ Takes(Code, cur) = 0 => Denoted = << >>
<1>1. /\ prog \in DOMAIN Script /\ cur \in 1 .. Len(Code) /\ RteTypeOK(rte)
      /\ Waits(prog)[cur] \in Seq(Operand(prog)) /\ Takes(Code, cur) \in Nat
      /\ Matches(prog, Waits(prog)[cur], rte.stack)
  BY StackOfVisit DEF SemInv, OwnInv
<1>2. RteTypeOK(rte')
  BY DEF SemInv, OwnInv, TypeInv, TypeOK
<1>3. Node = Code[cur]
  BY DEF Node
<1>4. Len(rte.stack) = Takes(Code, cur) /\ Leaves(Code, cur) = 0
  BY <1>1, <1>3, TakesAll DEF Code
<1>5. StackAt(prog, cur, rte.stack, rte'.stack)
  BY DEF Visits
<1>6. DenotedIn(rte') = << >> /\ Semantics!Rest(DenotedIn(rte), Takes(Code, cur)) = << >>
  BY <1>1, <1>2, <1>4, <1>5, Emptied DEF Code
<1>7. ASSUME Takes(Code, cur) = 0 PROVE Denoted = << >>
  <2>1. rte.stack = << >>
    BY <1>1, <1>4, <1>7 DEF RteTypeOK
  <2>2. QED
    BY <2>1 DEF Denoted
<1>8. Denoted' = DenotedIn(rte') /\ Denoted = DenotedIn(rte)
  BY DEF Denoted, DenotedIn
<1>9. QED
  BY <1>1, <1>4, <1>6, <1>7, <1>8

\* An assignment, of one name or of two.
LEMMA VisitAssMeans ==
  ASSUME AllConsistent, SemInv, SemInv', VisitAss
  PROVE  Semantics!Assign
<1> DEFINE k == Len(Node.lhs)
           len == Len(rte.stack)
           one == AssignStackTop(rte, Node.lhs[1], IsLast(1))
           d == Denoted
           v(i) == d[(Len(d) + 1) - i]
<1>1. /\ prog \in DOMAIN Script /\ cur \in 1 .. Len(Code) /\ Node = Code[cur]
      /\ Node.op = "ass" /\ k \in 1 .. 2 /\ ~AfterDeferred(Code, cur)
      /\ Takes(Code, cur) = k /\ len \in Nat /\ k <= len /\ Owned(rte)
      /\ k = 2 => Denotes(one, Top(one)) = Denotes(rte, rte.stack[len - 1])
  BY VisitAssParts
<1>2. Visiting /\ Advance(FALSE) /\ UNCHANGED <<prog, time, spins, status>>
  BY DEF VisitAss, run
<1>3. Denoted' = << >> /\ Semantics!Rest(d, k) = << >>
  <2>1. Visits(prog, cur, cur', rte, rte', env, env')
    BY VisitAssVisits
  <2> HIDE DEF d, k
  <2>2. QED
    BY <1>1, <1>2, <2>1, StatementEnds DEF d
<1>4. v(1) = Denotes(rte, Top(rte)) /\ (k = 2 => v(2) = Denotes(one, Top(one)))
  <2>1. RteTypeOK(rte)
    BY <1>1 DEF Owned, Sound
  <2>2. Len(d) = len /\ \A i \in 1 .. len : d[i] = Denotes(rte, rte.stack[i])
    BY <2>1, DenotedParts DEF Denoted, DenotedIn
  <2>3. Top(rte) = rte.stack[len]
    BY DEF Top
  <2> HIDE DEF d, len, one, k
  <2>4. (Len(d) + 1) - 1 = len /\ (Len(d) + 1) - 2 = len - 1
        /\ len \in 1 .. len /\ (k = 2 => len - 1 \in 1 .. len)
    BY <1>1, <2>2
  <2>5. QED
    BY <1>1, <2>2, <2>3, <2>4
<1>5. ~Semantics!Defers(cur)
  BY <1>1 DEF Semantics!Defers, AfterDeferred, IsDeferred, Semantics!Code, Code
<1>6. Semantics!Running /\ Semantics!Continue(FALSE) /\ Semantics!Node = Node
  BY <1>2 DEF Semantics!Running, Semantics!Node, Semantics!Code, Semantics!Continue,
     Semantics!Succ, Advance, Succ, Visiting, Node, Code
<1> DEFINE x == Denotes(rte, Top(rte))
           y == Denotes(one, Top(one))
           m == Node.lhs[1]
           n == Node.lhs[2]
<1>7. Semantics!Value(1) = x /\ (k = 2 => Semantics!Value(2) = y)
  BY <1>4 DEF Semantics!Value
<1> HIDE DEF x, y, v, d
<1>8. env' = [q \in Names |-> Semantics!Assigned(q)]
  <2>1. env = [q \in Names |-> env[q]]
    BY DEF SemInv, EnvInv, Total
  <2>2. CASE k = 1
    <3>1. env' = [env EXCEPT ![m] = x]
      BY <2>2 DEF VisitAss, x
    <3>2. ASSUME NEW q PROVE Semantics!Assigned(q) = IF q = m THEN x ELSE env[q]
      BY <1>6, <1>7, <2>2 DEF Semantics!Assigned
    <3> HIDE DEF m
    <3>3. QED
      BY <2>1, <3>1, <3>2
  <2>3. CASE k = 2
    <3>1. env' = [env EXCEPT ![m] = x, ![n] = y]
      BY <2>3 DEF VisitAss, x, y
    <3>2. ASSUME NEW q
          PROVE  Semantics!Assigned(q) = IF q = n THEN y ELSE IF q = m THEN x ELSE env[q]
      BY <1>6, <1>7, <2>3 DEF Semantics!Assigned
    <3> HIDE DEF m, n
    <3>3. QED
      BY <2>1, <3>1, <3>2
  <2>4. k = 1 \/ k = 2
    BY <1>1
  <2>5. QED
    BY <2>2, <2>3, <2>4
<1>9. out' = IF k = 1 THEN out \o Semantics!Reported(1)
             ELSE out \o Semantics!Reported(1) \o Semantics!Reported(2)
  <2>1. Written(rte, 1) = Semantics!Reported(1)
    BY <1>6, <1>7 DEF Written, Semantics!Reported, x
  <2>2. k = 2 => Written(one, 2) = Semantics!Reported(2)
    BY <1>6, <1>7 DEF Written, Semantics!Reported, y
  <2>3. out' = IF k = 1 THEN out \o Written(rte, 1)
               ELSE out \o Written(rte, 1) \o Written(one, 2)
    BY DEF VisitAss
  <2> HIDE DEF one
  <2>4. QED
    BY <1>1, <2>1, <2>2, <2>3
<1>10. QED
  BY <1>1, <1>2, <1>3, <1>5, <1>6, <1>8, <1>9 DEF Semantics!Assign, d

\* A time series that was deferred.
LEMMA AssignOutTssMeans ==
  ASSUME AllConsistent, SemInv, SemInv', AssignOutTss
  PROVE  Semantics!WriteTimeSeries
<1> DEFINE x == Arguments(rte, 2)
           s == rte.stack
           len == Len(s)
<1>1. /\ Visiting /\ Node.op = "ass" /\ timeoutput /\ Advance(FALSE)
      /\ UNCHANGED <<prog, time, spins, env, status>>
      /\ out' = Append(out, <<Node.lhs[1], time, <<"timeoutput", ArgValues(x)>> >>)
      /\ len >= 2 /\ OwnInv /\ TypeInv /\ Deferral
  BY DEF AssignOutTss, run, SemInv, OwnInv
<1>2. /\ cur \in 1 .. Len(Code) /\ len \in Nat /\ Sorted(s) /\ Node = Code[cur]
      /\ RteTypeOK(rte)
  BY <1>1, StackOfVisit DEF SemInv, Node
<1>3. AfterDeferred(Code, cur)
  BY <1>1 DEF Deferral, AfterDeferred, Visiting
<1>4. Takes(Code, cur) = 2
  BY <1>1, <1>2, <1>3 DEF Takes
<1>5. Denoted' = << >> /\ Semantics!Rest(Denoted, 2) = << >>
  <2>1. Visits(prog, cur, cur', rte, rte', env, env')
    BY AssignOutTssVisits
  <2>2. QED
    BY <1>1, <1>4, <2>1, StatementEnds
<1>6. ArgValues(x) = Semantics!TopValues(Denoted, 2)
  <2>1. Sound(rte) /\ Roomy(rte) /\ InOrder(s) /\ 2 \in 0 .. 2
    BY <1>1, <1>2, VisitingType, SortedInOrder DEF OwnInv, TypeInv, Owned, Visiting
  <2>2. \A i \in 1 .. 2 : x.r.val[x.f[i]] = Denotes(rte, s[(len - 2) + i])
    BY <1>1, <2>1, ArgumentsMoves
  <2>3. DOMAIN x.f = 1 .. 2
    <3>1. Len(x.f) = 2 /\ x.f \in Seq(Obj)
      BY <1>1, <1>2, <2>1, ArgumentsType DEF ArgsTypeOK
    <3> HIDE DEF x
    <3>2. QED
      BY <3>1
  <2> HIDE DEF x
  <2>4. ArgValues(x) = Values(rte, 2)
    BY <2>2, <2>3 DEF ArgValues, Values
  <2>5. Semantics!TopValues(DenotedIn(rte), 2) = Values(rte, 2)
    BY <1>1, <1>2, TopDenotes
  <2>6. DenotedIn(rte) = Denoted
    BY DEF DenotedIn, Denoted
  <2>7. QED
    BY <2>4, <2>5, <2>6
<1> HIDE DEF x
<1>7. Semantics!Defers(cur)
  BY <1>3 DEF Semantics!Defers, AfterDeferred, IsDeferred, Semantics!Code, Code
<1>8. Semantics!Running /\ Semantics!Continue(FALSE) /\ Semantics!Node = Node
  BY <1>1 DEF Semantics!Running, Semantics!Node, Semantics!Code, Semantics!Continue,
     Semantics!Succ, Advance, Succ, Visiting, Node, Code
<1>9. QED
  BY <1>1, <1>5, <1>6, <1>7, <1>8 DEF Semantics!WriteTimeSeries

\* A jump, which has nothing or a condition on the stack.
LEMMA JumpMeans ==
  ASSUME AllConsistent, SemInv, SemInv',
         JumpOutDynamicSection \/ JumpOutRepeatUntil \/ JumpOutCode
  PROVE  Semantics!JumpDynamic \/ Semantics!JumpRepeat \/ Semantics!JumpCode
<1>1. /\ Visiting /\ Node.op = "jump" /\ Node = Code[cur]
      /\ UNCHANGED <<prog, time, env, out, status>>
  BY DEF JumpOutDynamicSection, JumpOutRepeatUntil, JumpOutCode, run, Node
<1>2. /\ Denoted' = << >> /\ Semantics!Rest(Denoted, Takes(Code, cur)) = << >>
      /\ Takes(Code, cur) = 0 => Denoted = << >>
  <2>1. Visits(prog, cur, cur', rte, rte', env, env')
    BY JumpVisits
  <2>2. QED
    BY <1>1, <2>1, StatementEnds
<1>3. Semantics!Running /\ Semantics!Node = Node
      /\ \A b : Semantics!Continue(b) <=> Advance(b)
  BY <1>1 DEF Semantics!Running, Semantics!Node, Semantics!Code, Semantics!Continue,
     Semantics!Succ, Advance, Succ, Visiting, Node, Code
<1>4. CASE JumpOutDynamicSection
  <2>1. Takes(Code, cur) = 0
    BY <1>1, <1>4 DEF JumpOutDynamicSection, Takes
  <2>2. Semantics!Continue(time < LastInt) /\ spins' = spins /\ Node.kind = "dynamic"
    BY <1>3, <1>4 DEF JumpOutDynamicSection, TakeBackBranch
  <2>3. QED
    BY <1>1, <1>2, <1>3, <2>1, <2>2 DEF Semantics!JumpDynamic
<1>5. CASE JumpOutCode
  <2>1. Takes(Code, cur) = 0
    BY <1>1, <1>5 DEF JumpOutCode, Takes
  <2>2. Semantics!Continue(FALSE) /\ spins' = spins /\ Node.kind = "code"
    BY <1>3, <1>5 DEF JumpOutCode
  <2>3. QED
    BY <1>1, <1>2, <1>3, <2>1, <2>2 DEF Semantics!JumpCode
<1>6. CASE JumpOutRepeatUntil
  <2>1. Node.kind = "repeat"
    BY <1>6 DEF JumpOutRepeatUntil
  <2>2. Takes(Code, cur) = 1
    BY <1>1, <2>1 DEF Takes
  <2>3. PICK again \in RepeatAgain :
          /\ spins' = IF again /\ spins < MaxSpins THEN spins + 1 ELSE spins
          /\ Advance(again)
    BY <1>6 DEF JumpOutRepeatUntil
  <2>4. again \in BOOLEAN /\ (again => spins < MaxSpins)
    BY DEF RepeatAgain
  <2>5. spins' = (IF again THEN spins + 1 ELSE spins) /\ Semantics!Continue(again)
    BY <1>3, <2>3, <2>4
  <2>6. Denoted' = Semantics!Rest(Denoted, 1)
    BY <1>2, <2>2
  <2>7. QED
    BY <1>1, <1>3, <2>1, <2>4, <2>5, <2>6 DEF Semantics!JumpRepeat
<1>7. QED
  BY <1>4, <1>5, <1>6

\* An exception, and the end of a run, leave nothing on the stack.
LEMMA EndMeans ==
  ASSUME SemInv, ThrowDomainError \/ Destroy
  PROVE  Semantics!Throw \/ Semantics!Close
<1>1. OwnInv
  BY DEF SemInv
<1>2. Denoted' = << >>
  <2>1. rte'.stack = << >>
    BY <1>1, ThrowNothing, DestroyNothing DEF Nothing
  <2>2. QED
    BY <2>1 DEF Denoted
<1>3. CASE ThrowDomainError
  <2>1. Semantics!Running /\ Semantics!Node = Node
    BY <1>3 DEF ThrowDomainError, Visiting, Semantics!Running, Semantics!Node,
       Semantics!Code, Node, Code
  <2>2. /\ Node.op = "expr" /\ Node.fn \notin {"nop", "timeoutput"} /\ status' = "thrown"
        /\ UNCHANGED <<prog, cur, time, spins, env, out>>
    BY <1>3 DEF ThrowDomainError, MayThrow, run
  <2>3. QED
    BY <1>2, <2>1, <2>2 DEF Semantics!Throw
<1>4. CASE Destroy
  <2>1. /\ status \in {"running", "thrown"} /\ status' = "closed"
        /\ UNCHANGED <<prog, cur, time, spins, env, out>>
    BY <1>4 DEF Destroy, run
  <2>2. QED
    BY <1>2, <2>1 DEF Semantics!Close
<1>5. QED
  BY <1>3, <1>4

(***************************************************************************)
(* The executor computes what the script says: freeing values at their     *)
(* last use, at the end of a block and where they are overwritten, sharing *)
(* values between names and the stack, overwriting operands in place and   *)
(* loading files lazily change no value that is read, reported or written, *)
(* whatever the script, if the marks of the analysis are consistent.       *)
(***************************************************************************)
THEOREM SemanticsImplemented ==
  ASSUME AllConsistent
  PROVE  Spec => ImplementsSemantics
<1>1. Init => Semantics!Init
  <2> SUFFICES ASSUME Init PROVE Semantics!Init
    OBVIOUS
  <2>1. Denoted = << >>
    BY DEF Init, Denoted, EmptyRte
  <2>2. env = [n \in Names |-> <<n, << >> >>]
    BY DEF Init, FileValue
  <2>3. QED
    BY <2>1, <2>2 DEF Init, Semantics!Init
<1>2. SemInv /\ SemInv' /\ [Next]_vars => [Semantics!Next]_(Semantics!vars)
  <2> SUFFICES ASSUME SemInv, SemInv', [Next]_vars
               PROVE  [Semantics!Next]_(Semantics!vars)
    OBVIOUS
  <2>1. CASE VisitPar
    BY <2>1, VisitParMeans DEF Semantics!Next
  <2>2. CASE VisitNumber
    BY <2>2, VisitNumberMeans DEF Semantics!Next
  <2>3. CASE VisitExpr
    BY <2>3, VisitExprMeans DEF Semantics!Next
  <2>4. CASE ThrowDomainError \/ Destroy
    BY <2>4, EndMeans DEF Semantics!Next
  <2>5. CASE DeferTimeoutput \/ VisitStat \/ VisitNonAssExpr \/ VisitBlockEntrance
    BY <2>5, IdleMeans DEF Semantics!Next
  <2>6. CASE VisitAss
    BY <2>6, VisitAssMeans DEF Semantics!Next
  <2>7. CASE AssignOutTss
    BY <2>7, AssignOutTssMeans DEF Semantics!Next
  <2>8. CASE JumpOutDynamicSection \/ JumpOutRepeatUntil \/ JumpOutCode
    BY <2>8, JumpMeans DEF Semantics!Next
  <2>9. CASE UNCHANGED vars
    <3>1. Denoted' = Denoted
      BY <2>9 DEF vars, Denoted
    <3>2. QED
      BY <2>9, <3>1 DEF vars, run, Semantics!vars
  <2>10. QED
    BY <2>1, <2>2, <2>3, <2>4, <2>5, <2>6, <2>7, <2>8, <2>9 DEF Next, Closed
<1>3. QED
  BY <1>1, <1>2, SemInvCorrect, PTL DEF Spec, ImplementsSemantics, Semantics!Spec
================================================================================
