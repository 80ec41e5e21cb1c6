--------------------------- MODULE RunTimeEngineProofs --------------------------
(***************************************************************************)
(* For any number of maps, operations and clones, whatever an operation    *)
(* computes and wherever it fails: an object has one owner, and a field of *)
(* the program is locked only while it is on the stack of the engine; and, *)
(* as long as no field is ordinal, the engine implements PureOperations.   *)
(***************************************************************************)
EXTENDS RunTimeEngine, TLAPS, SequenceTheorems, FiniteSetTheorems

-------------------------------------------------------------------------------
(* The members of a sequence *)

LEMMA InSeq ==
  ASSUME NEW S, NEW s \in Seq(S)
  PROVE  /\ In(s) \subseteq S
         /\ \A i \in 1..Len(s) : s[i] \in In(s)
  BY DEF In

LEMMA InAppend ==
  ASSUME NEW S, NEW s \in Seq(S), NEW e \in S
  PROVE  In(Append(s, e)) = In(s) \cup {e}
<1> DEFINE a == Append(s, e)
<1>1. /\ a \in Seq(S) /\ Len(a) = Len(s) + 1
      /\ \A i \in 1..Len(s) : a[i] = s[i]
      /\ a[Len(s) + 1] = e
  BY AppendProperties
<1>2. DOMAIN a = 1..(Len(s) + 1) /\ DOMAIN s = 1..Len(s) /\ Len(s) \in Nat
  BY <1>1
<1> HIDE DEF a
<1>3. \A i \in 1..(Len(s) + 1) : i \in 1..Len(s) \/ i = Len(s) + 1
  BY <1>2
<1>4. QED
  BY <1>1, <1>2, <1>3 DEF In, a

LEMMA InConcat ==
  ASSUME NEW S, NEW s \in Seq(S), NEW t \in Seq(S)
  PROVE  s \o t \in Seq(S) /\ In(s \o t) = In(s) \cup In(t)
<1> DEFINE c == s \o t
<1>1. /\ c \in Seq(S) /\ Len(c) = Len(s) + Len(t)
      /\ \A i \in 1..(Len(s) + Len(t)) : c[i] = IF i <= Len(s) THEN s[i] ELSE t[i - Len(s)]
  BY ConcatProperties
<1>2. /\ DOMAIN c = 1..(Len(s) + Len(t)) /\ DOMAIN s = 1..Len(s) /\ DOMAIN t = 1..Len(t)
      /\ Len(s) \in Nat /\ Len(t) \in Nat
  BY <1>1
<1> HIDE DEF c
<1>3. \A i \in 1..Len(s) : i \in DOMAIN c /\ c[i] = s[i]
  BY <1>1, <1>2
<1>4. ASSUME NEW i \in 1..Len(t)
      PROVE  Len(s) + i \in DOMAIN c /\ c[Len(s) + i] = t[i]
  <2>1. /\ Len(s) + i \in 1..(Len(s) + Len(t)) /\ ~(Len(s) + i <= Len(s))
        /\ (Len(s) + i) - Len(s) = i
    BY <1>2
  <2>2. QED
    BY <1>1, <1>2, <2>1
<1>5. \A i \in DOMAIN c : c[i] \in In(s) \cup In(t)
  <2>1. TAKE i \in DOMAIN c
  <2>2. CASE i <= Len(s)
    BY <1>1, <1>2, <2>1, <2>2 DEF In
  <2>3. CASE ~(i <= Len(s))
    <3>1. i - Len(s) \in DOMAIN t /\ c[i] = t[i - Len(s)]
      BY <1>1, <1>2, <2>1, <2>3
    <3>2. QED
      BY <3>1 DEF In
  <2>4. QED
    BY <2>2, <2>3
<1>6. In(c) \subseteq In(s) \cup In(t)
  BY <1>5 DEF In
<1>7. In(s) \subseteq In(c) /\ In(t) \subseteq In(c)
  BY <1>2, <1>3, <1>4 DEF In
<1>8. QED
  BY <1>1, <1>6, <1>7 DEF c

\* A sequence in two parts.
LEMMA Parts ==
  ASSUME NEW S, NEW s \in Seq(S), NEW k \in 0..Len(s)
  PROVE  LET left == SubSeq(s, 1, k)
             right == SubSeq(s, k + 1, Len(s))
         IN /\ left \in Seq(S) /\ Len(left) = k
            /\ right \in Seq(S) /\ Len(right) = Len(s) - k
            /\ \A i \in 1..(Len(s) - k) : right[i] = s[k + i]
            /\ \A i \in 1..k : left[i] = s[i]
            /\ In(left) \cup In(right) = In(s)
            /\ s = left \o right
<1> DEFINE left == SubSeq(s, 1, k)
           right == SubSeq(s, k + 1, Len(s))
<1>1. k \in Nat /\ Len(s) \in Nat /\ k <= Len(s)
  OBVIOUS
<1>2. /\ left \in Seq(S) /\ Len(left) = k
      /\ \A i \in 1..k : left[i] = s[i]
  <2>1. \A i \in 1..k : s[i] \in S
    BY <1>1
  <2>2. /\ left \in Seq(S) /\ Len(left) = (IF 1 <= k THEN k - 1 + 1 ELSE 0)
        /\ \A i \in 1..(k - 1 + 1) : left[i] = s[1 + i - 1]
    BY <1>1, <2>1, SubSeqProperties
  <2>3. QED
    BY <1>1, <2>2
<1>3. /\ right \in Seq(S) /\ Len(right) = Len(s) - k
      /\ \A i \in 1..(Len(s) - k) : right[i] = s[k + i]
  <2>1. \A i \in (k + 1)..Len(s) : s[i] \in S
    BY <1>1
  <2>2. /\ right \in Seq(S)
        /\ Len(right) = (IF k + 1 <= Len(s) THEN Len(s) - (k + 1) + 1 ELSE 0)
        /\ \A i \in 1..(Len(s) - (k + 1) + 1) : right[i] = s[(k + 1) + i - 1]
    BY <1>1, <2>1, SubSeqProperties
  <2>3. QED
    BY <1>1, <2>2
<1> HIDE DEF left, right
<1>4. /\ left \o right \in Seq(S) /\ Len(left \o right) = Len(s)
      /\ \A i \in 1..Len(s) : (left \o right)[i] = IF i <= k THEN left[i] ELSE right[i - k]
  <2>1. /\ left \o right \in Seq(S) /\ Len(left \o right) = Len(left) + Len(right)
        /\ \A i \in 1..(Len(left) + Len(right)) :
             (left \o right)[i] = IF i <= Len(left) THEN left[i] ELSE right[i - Len(left)]
    BY <1>2, <1>3, ConcatProperties
  <2>2. Len(left) + Len(right) = Len(s)
    BY <1>1, <1>2, <1>3
  <2>3. QED
    BY <1>2, <2>1, <2>2
<1>5. ASSUME NEW i \in 1..Len(s) PROVE (left \o right)[i] = s[i]
  <2>1. CASE i <= k
    BY <1>1, <1>2, <1>4, <2>1
  <2>2. CASE ~(i <= k)
    <3>1. i - k \in 1..(Len(s) - k) /\ k + (i - k) = i
      BY <1>1, <2>2
    <3>2. QED
      BY <1>3, <1>4, <2>2, <3>1
  <2>3. QED
    BY <2>1, <2>2
<1>6. s = left \o right
  BY <1>4, <1>5, SeqEqual
<1>7. In(left) \cup In(right) = In(s)
  BY <1>2, <1>3, <1>6, InConcat
<1>8. QED
  BY <1>2, <1>3, <1>6, <1>7 DEF left, right


\* A sequence without its last member.
LEMMA LastMember ==
  ASSUME NEW S, NEW s \in Seq(S), s # << >>
  PROVE  LET below == SubSeq(s, 1, Len(s) - 1) IN
         /\ below \in Seq(S) /\ Len(below) \in Nat
         /\ s[Len(s)] \in S /\ In(s) = In(below) \cup {s[Len(s)]}
<1> DEFINE k == Len(s) - 1
           below == SubSeq(s, 1, k)
           right == SubSeq(s, k + 1, Len(s))
<1>1. Len(s) \in Nat \ {0}
  BY EmptySeq
<1>2. k \in 0..Len(s) /\ k + 1 = Len(s) /\ Len(s) - k = 1
  BY <1>1
<1> HIDE DEF k
<1>3. /\ below \in Seq(S) /\ Len(below) = k
      /\ right \in Seq(S) /\ Len(right) = Len(s) - k
      /\ \A i \in 1..(Len(s) - k) : right[i] = s[k + i]
      /\ In(below) \cup In(right) = In(s)
  <2>1. ASSUME NEW n \in 0..Len(s)
        PROVE  LET left == SubSeq(s, 1, n)
                   rest == SubSeq(s, n + 1, Len(s))
               IN /\ left \in Seq(S) /\ Len(left) = n
                  /\ rest \in Seq(S) /\ Len(rest) = Len(s) - n
                  /\ \A i \in 1..(Len(s) - n) : rest[i] = s[n + i]
                  /\ \A i \in 1..n : left[i] = s[i]
                  /\ In(left) \cup In(rest) = In(s)
                  /\ s = left \o rest
    BY Parts, Zenon
  <2>2. k \in 0..Len(s)
    BY <1>2
  <2>3. QED
    BY <2>1, <2>2
<1> HIDE DEF below, right
<1>4. right \in Seq(S) /\ Len(right) = 1 /\ right[1] = s[Len(s)]
  <2>1. Len(right) = 1 /\ \A i \in 1..1 : right[i] = s[k + i]
    BY <1>2, <1>3
  <2>2. right[1] = s[k + 1]
    BY <2>1
  <2>3. QED
    BY <1>2, <1>3, <2>1, <2>2
<1>5. In(right) = {s[Len(s)]} /\ s[Len(s)] \in S
  <2>1. DOMAIN right = {1} /\ right[1] \in S
    BY <1>4
  <2>2. QED
    BY <1>4, <2>1 DEF In
<1>6. Len(below) \in Nat
  BY <1>2, <1>3
<1>7. QED
  BY <1>3, <1>5, <1>6 DEF below, k

-------------------------------------------------------------------------------
(* Objects *)

Rec(kind, cells, vs, size, managed, ro) ==
  [kind |-> kind, cells |-> cells, vs |-> vs, size |-> size, managed |-> managed, ro |-> ro]

Record(x) ==
  \E kind, cells, vs, size : \E managed, ro \in BOOLEAN :
    x = Rec(kind, cells, vs, size, managed, ro)

Heap(h) == h = [o \in Obj |-> h[o]] /\ \A o \in Obj : Record(h[o])

Alive(h) == {o \in Obj : h[o].kind # "free"}

Loose(x) == x.managed /\ ~x.ro

\* What may be on the stack.
Pointer == Obj \cup {Dangling}

(***************************************************************************)
(* On heap h with st on the stack, the fields of H are the program's, the  *)
(* objects of T the table's, and those of R nobody's: this is all there is *)
(* on the heap.                                                            *)
(***************************************************************************)
Owned(h, st, H, T, R) ==
  /\ Heap(h)
  /\ st \in Seq(Pointer) /\ H \subseteq Obj /\ T \subseteq Obj /\ R \subseteq Obj
  /\ NoneObj \in H
  /\ Alive(h) = H \cup T \cup R
  /\ T \cap H = {} /\ R \cap (H \cup T) = {}
  /\ \A o \in H : h[o].ro => o \in In(st)
  /\ \A o \in H \cap In(st) : ~h[o].managed
  /\ \A o \in T : h[o].managed /\ h[o].ro
  /\ \A o \in R : Loose(h[o])

LEMMA RecRecord ==
  ASSUME NEW kind, NEW cells, NEW vs, NEW size, NEW managed \in BOOLEAN, NEW ro \in BOOLEAN
  PROVE  LET x == Rec(kind, cells, vs, size, managed, ro) IN
         Record(x) /\ x.kind = kind /\ x.managed = managed /\ x.ro = ro
<1>1. Record(Rec(kind, cells, vs, size, managed, ro))
  BY Zenon DEF Record
<1>2. QED
  BY <1>1 DEF Rec

LEMMA ObjectRecord ==
  ASSUME NEW kind, NEW cells, NEW vs, NEW size
  PROVE  LET x == Object(kind, cells, vs, size) IN
         Record(x) /\ x.kind = kind /\ x.managed /\ ~x.ro /\ Loose(x)
<1>1. Object(kind, cells, vs, size) = Rec(kind, cells, vs, size, TRUE, FALSE)
  BY DEF Object, Rec
<1> DEFINE y == Rec(kind, cells, vs, size, TRUE, FALSE)
<1>2. Record(y)
  <2>1. TRUE \in BOOLEAN /\ FALSE \in BOOLEAN
    OBVIOUS
  <2>2. QED
    BY <2>1, Zenon DEF Record
<1>3. y.kind = kind /\ y.managed = TRUE /\ y.ro = FALSE
  BY DEF Rec
<1> HIDE DEF y
<1>4. Loose(y)
  BY <1>3 DEF Loose
<1>5. QED
  BY <1>1, <1>2, <1>3, <1>4 DEF y

\* Assignments to members of an object.
LEMMA Members ==
  ASSUME NEW x, Record(x)
  PROVE  /\ \A r \in BOOLEAN :
              LET y == [x EXCEPT !.ro = r] IN
              Record(y) /\ y.kind = x.kind /\ y.managed = x.managed /\ y.ro = r
         /\ \A m \in BOOLEAN :
              LET y == [x EXCEPT !.managed = m] IN
              Record(y) /\ y.kind = x.kind /\ y.managed = m /\ y.ro = x.ro
         /\ \A c :
              LET y == [x EXCEPT !.cells = c] IN
              Record(y) /\ y.kind = x.kind /\ y.managed = x.managed /\ y.ro = x.ro
         /\ \A v :
              LET y == [x EXCEPT !.vs = v] IN
              Record(y) /\ y.kind = x.kind /\ y.managed = x.managed /\ y.ro = x.ro
<1>1. PICK k, a, b, z : \E n, w \in BOOLEAN : x = Rec(k, a, b, z, n, w)
  BY DEF Record
<1>2. PICK n \in BOOLEAN, w \in BOOLEAN : x = Rec(k, a, b, z, n, w)
  BY <1>1
<1>3. x.kind = k /\ x.managed = n /\ x.ro = w
  BY <1>2, RecRecord
<1>4. ASSUME NEW r \in BOOLEAN
      PROVE  LET y == [x EXCEPT !.ro = r] IN
             Record(y) /\ y.kind = x.kind /\ y.managed = x.managed /\ y.ro = r
  <2>1. [Rec(k, a, b, z, n, w) EXCEPT !.ro = r] = Rec(k, a, b, z, n, r)
    BY DEF Rec
  <2>2. [x EXCEPT !.ro = r] = Rec(k, a, b, z, n, r)
    BY <1>2, <2>1, Zenon
  <2>3. QED
    BY <1>2, <1>3, <2>2, RecRecord
<1>5. ASSUME NEW m \in BOOLEAN
      PROVE  LET y == [x EXCEPT !.managed = m] IN
             Record(y) /\ y.kind = x.kind /\ y.managed = m /\ y.ro = x.ro
  <2>1. [Rec(k, a, b, z, n, w) EXCEPT !.managed = m] = Rec(k, a, b, z, m, w)
    BY DEF Rec
  <2>2. [x EXCEPT !.managed = m] = Rec(k, a, b, z, m, w)
    BY <1>2, <2>1, Zenon
  <2>3. QED
    BY <1>2, <1>3, <2>2, RecRecord
<1>6. ASSUME NEW c
      PROVE  LET y == [x EXCEPT !.cells = c] IN
             Record(y) /\ y.kind = x.kind /\ y.managed = x.managed /\ y.ro = x.ro
  <2>1. [Rec(k, a, b, z, n, w) EXCEPT !.cells = c] = Rec(k, c, b, z, n, w)
    BY DEF Rec
  <2>2. [x EXCEPT !.cells = c] = Rec(k, c, b, z, n, w)
    BY <1>2, <2>1, Zenon
  <2>3. QED
    BY <1>2, <1>3, <2>2, RecRecord
<1>7. ASSUME NEW v
      PROVE  LET y == [x EXCEPT !.vs = v] IN
             Record(y) /\ y.kind = x.kind /\ y.managed = x.managed /\ y.ro = x.ro
  <2>1. [Rec(k, a, b, z, n, w) EXCEPT !.vs = v] = Rec(k, a, v, z, n, w)
    BY DEF Rec
  <2>2. [x EXCEPT !.vs = v] = Rec(k, a, v, z, n, w)
    BY <1>2, <2>1, Zenon
  <2>3. QED
    BY <1>2, <1>3, <2>2, RecRecord
<1>8. QED
  BY <1>4, <1>5, <1>6, <1>7

LEMMA FreeRecord == Record(Free) /\ Free.kind = "free"
  BY ObjectRecord DEF Free

LEMMA FreshNew ==
  ASSUME NEW h, Alive(h) # Obj
  PROVE  New(h) \in Obj /\ New(h) \notin Alive(h)
<1>1. \E o \in Obj : h[o].kind = "free"
  BY DEF Alive
<1>2. New(h) \in Obj /\ h[New(h)].kind = "free"
  BY <1>1 DEF New
<1>3. QED
  BY <1>2 DEF Alive

\* One object gets another record.
LEMMA HeapExcept ==
  ASSUME NEW h, Heap(h), NEW o \in Obj, NEW x, Record(x)
  PROVE  /\ Heap([h EXCEPT ![o] = x])
         /\ [h EXCEPT ![o] = x][o] = x
         /\ \A p \in Obj : p # o => [h EXCEPT ![o] = x][p] = h[p]
  BY DEF Heap

\* Nothing changes but what objects contain.
LEMMA SameFlags ==
  ASSUME NEW h, NEW g, NEW st, NEW H, NEW T, NEW R, Owned(h, st, H, T, R), Heap(g),
         \A o \in Obj : /\ g[o].kind = h[o].kind
                        /\ g[o].managed = h[o].managed /\ g[o].ro = h[o].ro
  PROVE  Owned(g, st, H, T, R)
<1>1. Alive(g) = Alive(h)
  BY DEF Alive
<1>2. H \subseteq Obj /\ T \subseteq Obj /\ R \subseteq Obj
  BY DEF Owned
<1>3. QED
  BY <1>1, <1>2 DEF Owned, Loose

\* A new object, for the program, the table or nobody.
LEMMA NewOwned ==
  ASSUME NEW h, NEW st, NEW H, NEW T, NEW R, Owned(h, st, H, T, R),
         In(st) \subseteq H \cup T \cup R \cup {Dangling},
         NEW o \in Obj \ Alive(h), NEW x, Record(x), x.kind # "free"
  PROVE  LET g == [h EXCEPT ![o] = x] IN
         /\ ~x.ro => Owned(g, st, H \cup {o}, T, R)
         /\ x.managed /\ x.ro => Owned(g, st, H, T \cup {o}, R)
         /\ Loose(x) => Owned(g, st, H, T, R \cup {o})
<1> DEFINE g == [h EXCEPT ![o] = x]
<1>1. /\ Heap(g) /\ g[o] = x
      /\ \A p \in Obj : p # o => g[p] = h[p]
  BY HeapExcept DEF Owned
<1> HIDE DEF g
<1>2. Alive(g) = Alive(h) \cup {o}
  BY <1>1 DEF Alive
<1>3. o \notin H \cup T \cup R /\ o \notin In(st)
  BY EngineAssumption DEF Owned
<1>4. \A p \in H \cup T \cup R : p \in Obj /\ g[p] = h[p]
  BY <1>1, <1>3 DEF Owned
<1>5. ~x.ro => Owned(g, st, H \cup {o}, T, R)
  BY <1>1, <1>2, <1>3, <1>4 DEF Owned
<1>6. x.managed /\ x.ro => Owned(g, st, H, T \cup {o}, R)
  BY <1>1, <1>2, <1>3, <1>4 DEF Owned
<1>7. Loose(x) => Owned(g, st, H, T, R \cup {o})
  BY <1>1, <1>2, <1>3, <1>4 DEF Owned
<1>8. QED
  BY <1>5, <1>6, <1>7 DEF g

\* What is invalidated on the stack is no longer there.
LEMMA InInvalidated ==
  ASSUME NEW st \in Seq(Pointer), NEW S
  PROVE  /\ Invalidated(st, S) \in Seq(Pointer) /\ Len(Invalidated(st, S)) = Len(st)
         /\ \A i \in 1..Len(st) : Invalidated(st, S)[i] = IF st[i] \in S THEN Dangling ELSE st[i]
         /\ In(Invalidated(st, S)) \subseteq (In(st) \ S) \cup {Dangling}
         /\ In(st) \ S \subseteq In(Invalidated(st, S))
<1> DEFINE u == Invalidated(st, S)
<1>1. DOMAIN st = 1..Len(st) /\ Len(st) \in Nat /\ \A i \in 1..Len(st) : st[i] \in Pointer
  OBVIOUS
<1>2. /\ u \in Seq(Pointer) /\ Len(u) = Len(st)
      /\ \A i \in 1..Len(st) : u[i] = IF st[i] \in S THEN Dangling ELSE st[i]
  BY <1>1 DEF Invalidated, Pointer
<1> HIDE DEF u
<1>3. DOMAIN u = DOMAIN st
  BY <1>1, <1>2
<1>4. In(u) \subseteq (In(st) \ S) \cup {Dangling} /\ In(st) \ S \subseteq In(u)
  BY <1>1, <1>2, <1>3 DEF In
<1>5. QED
  BY <1>2, <1>4 DEF u

\* Objects of the program or of the table go; what points to them on the stack
\* becomes invalid.
LEMMA DeletedOwned ==
  ASSUME NEW h, NEW st, NEW H, NEW T, NEW R, Owned(h, st, H, T, R),
         NEW S, S \subseteq H \cup T, NoneObj \notin S
  PROVE  Owned(Deleted(h, S), Invalidated(st, S), H \ S, T \ S, R)
<1> DEFINE g == Deleted(h, S)
           u == Invalidated(st, S)
<1>1. /\ g = [o \in Obj |-> g[o]]
      /\ \A o \in Obj : g[o] = IF o \in S THEN Free ELSE h[o]
  BY DEF Deleted
<1> HIDE DEF g
<1>2. Heap(g)
  BY <1>1, FreeRecord DEF Owned, Heap
<1>3. Alive(g) = Alive(h) \ S
  BY <1>1, FreeRecord DEF Alive
<1>4. R \cap S = {} /\ H \subseteq Obj /\ T \subseteq Obj /\ R \subseteq Obj /\ st \in Seq(Pointer)
  BY DEF Owned
<1>5. \A o \in (H \cup T \cup R) \ S : g[o] = h[o]
  BY <1>1, <1>4
<1>6. /\ u \in Seq(Pointer) /\ In(u) \subseteq (In(st) \ S) \cup {Dangling}
      /\ In(st) \ S \subseteq In(u)
  BY <1>4, InInvalidated
<1> HIDE DEF u
<1>7. \A o \in H \ S : o \in In(u) <=> o \in In(st)
  BY <1>4, <1>6, EngineAssumption
<1>8. Owned(g, u, H \ S, T \ S, R)
  BY <1>2, <1>3, <1>4, <1>5, <1>6, <1>7 DEF Owned
<1>9. QED
  BY <1>8 DEF g, u

\* Objects D are popped, which leaves st2 of the stack st; the engine deletes
\* those that nobody owns, and unlocks those of the program.
LEMMA DropOwned ==
  ASSUME NEW h, NEW st, NEW H, NEW T, NEW R, Owned(h, st, H, T, R),
         NEW D, D \subseteq H \cup T \cup R \cup {Dangling}, D \cap H \subseteq In(st),
         NEW st2 \in Seq(Pointer), In(st2) \cap H \subseteq In(st),
         In(st) \subseteq In(st2) \cup D
  PROVE  Owned(DeleteFromPcrme(h, D), st2, H, T, R \ D)
<1> DEFINE g == DeleteFromPcrme(h, D)
<1>1. /\ g = [o \in Obj |-> g[o]]
      /\ \A o \in Obj : g[o] = IF o \notin D THEN h[o]
                 ELSE IF ~h[o].managed THEN [h[o] EXCEPT !.ro = FALSE]
                 ELSE IF h[o].ro THEN h[o] ELSE Free
  BY DEF DeleteFromPcrme
<1> HIDE DEF g
<1>2. H \subseteq Obj /\ T \subseteq Obj /\ R \subseteq Obj
  BY DEF Owned
<1>3. ASSUME NEW o \in Obj, Record(h[o])
      PROVE  LET x == [h[o] EXCEPT !.ro = FALSE] IN
             Record(x) /\ x.kind = h[o].kind /\ x.managed = h[o].managed /\ ~x.ro
  BY <1>3, Members
<1>4. \A o \in Obj : Record(g[o])
  BY <1>1, <1>3, FreeRecord DEF Owned, Heap
<1>5. ASSUME NEW o \in H \ D PROVE g[o] = h[o]
  BY <1>1, <1>2
<1>6. ASSUME NEW o \in H \cap D
      PROVE  g[o].kind = h[o].kind /\ ~g[o].managed /\ ~g[o].ro
  <2>1. ~h[o].managed /\ Record(h[o]) /\ o \in Obj
    BY <1>2 DEF Owned, Heap
  <2>2. g[o] = [h[o] EXCEPT !.ro = FALSE]
    BY <1>1, <2>1
  <2>3. QED
    BY <1>3, <2>1, <2>2
<1>7. ASSUME NEW o \in T PROVE g[o] = h[o]
  BY <1>1, <1>2 DEF Owned
<1>8. ASSUME NEW o \in R \ D PROVE g[o] = h[o]
  BY <1>1, <1>2
<1>9. ASSUME NEW o \in R \cap D PROVE g[o] = Free
  BY <1>1, <1>2 DEF Owned, Loose
<1>10. Alive(g) = H \cup T \cup (R \ D)
  <2>1. \A o \in H \cup T \cup (R \ D) : o \in Alive(h) /\ g[o].kind = h[o].kind
    BY <1>5, <1>6, <1>7, <1>8 DEF Owned
  <2>2. H \cup T \cup (R \ D) \subseteq Alive(g)
    BY <2>1 DEF Alive
  <2>3. \A o \in Obj : o \notin H \cup T \cup R => o \notin Alive(h) /\ g[o] = h[o]
    BY <1>1, EngineAssumption DEF Owned
  <2>4. Alive(g) \subseteq H \cup T \cup (R \ D)
    BY <1>9, <2>3, FreeRecord DEF Alive
  <2>5. QED
    BY <2>2, <2>4
<1>11. \A o \in H : g[o].ro => o \in In(st2)
  <2>1. SUFFICES ASSUME NEW o \in H, g[o].ro PROVE o \in In(st2)
    OBVIOUS
  <2>2. o \notin D /\ h[o].ro
    BY <1>5, <1>6, <2>1
  <2>3. QED
    BY <2>2 DEF Owned
<1>12. \A o \in H \cap In(st2) : ~g[o].managed
  <2>1. TAKE o \in H \cap In(st2)
  <2>2. o \in In(st)
    BY <2>1 DEF Owned
  <2>3. CASE o \in D
    BY <1>6, <2>3
  <2>4. CASE o \notin D
    BY <1>5, <2>2, <2>4 DEF Owned
  <2>5. QED
    BY <2>3, <2>4
<1>13. Owned(g, st2, H, T, R \ D)
  <2>1. Heap(g)
    BY <1>1, <1>4 DEF Heap
  <2>2. \A o \in T : g[o].managed /\ g[o].ro
    BY <1>7 DEF Owned
  <2>3. \A o \in R \ D : Loose(g[o])
    BY <1>8 DEF Owned
  <2>4. QED
    BY <1>2, <1>10, <1>11, <1>12, <2>1, <2>2, <2>3 DEF Owned
<1>14. QED
  BY <1>13 DEF g


\* A field of the program is pushed.
LEMMA PushOwned ==
  ASSUME NEW h, NEW st, NEW H, NEW T, NEW R, Owned(h, st, H, T, R), NEW o \in H
  PROVE  Owned([h EXCEPT ![o].managed = FALSE, ![o].ro = TRUE], Append(st, o), H, T, R)
<1> DEFINE y == [h[o] EXCEPT !.managed = FALSE]
           x == [y EXCEPT !.ro = TRUE]
           g == [h EXCEPT ![o].managed = FALSE, ![o].ro = TRUE]
<1>1. o \in Obj /\ Record(h[o]) /\ Heap(h)
  BY DEF Owned, Heap
<1>2. FALSE \in BOOLEAN /\ TRUE \in BOOLEAN
  OBVIOUS
<1>3. Record(y) /\ y.kind = h[o].kind /\ y.managed = FALSE
  BY <1>1, <1>2, Members
<1>4. Record(x) /\ x.kind = y.kind /\ x.managed = y.managed /\ x.ro = TRUE
  BY <1>2, <1>3, Members
<1>5. g = [h EXCEPT ![o] = x]
  BY <1>1 DEF Heap
<1> HIDE DEF x, y, g
<1>6. Record(x) /\ x.kind = h[o].kind /\ x.managed = FALSE /\ x.ro = TRUE
  BY <1>3, <1>4
<1>7. /\ Heap(g) /\ g[o] = x
      /\ \A p \in Obj : p # o => g[p] = h[p]
  <2>1. Record(x)
    BY <1>6
  <2>2. LET f == [h EXCEPT ![o] = x] IN
        Heap(f) /\ f[o] = x /\ \A p \in Obj : p # o => f[p] = h[p]
    BY <1>1, <2>1, HeapExcept
  <2>3. QED
    BY <1>5, <2>2, Zenon
<1>8. Append(st, o) \in Seq(Pointer) /\ In(Append(st, o)) = In(st) \cup {o}
  BY <1>1, InAppend, AppendProperties DEF Owned, Pointer
<1>9. Alive(g) = Alive(h)
  BY <1>6, <1>7 DEF Alive
<1>10. H \subseteq Obj /\ o \notin T /\ o \notin R /\ T \subseteq Obj /\ R \subseteq Obj
  BY DEF Owned
<1>11. Owned(g, Append(st, o), H, T, R)
  BY <1>6, <1>7, <1>8, <1>9, <1>10 DEF Owned
<1>12. QED
  BY <1>11 DEF g

\* A field that was popped is unlocked.
LEMMA UnlockOwned ==
  ASSUME NEW h, NEW st, NEW H, NEW T, NEW R, Owned(h, st, H, T, R), NEW o \in H, o \in In(st),
         NEW st2 \in Seq(Pointer), In(st2) \cap H \subseteq In(st), In(st) \subseteq In(st2) \cup {o}
  PROVE  Owned([h EXCEPT ![o].ro = FALSE], st2, H, T, R)
<1> DEFINE x == [h[o] EXCEPT !.ro = FALSE]
           g == [h EXCEPT ![o].ro = FALSE]
           d == DeleteFromPcrme(h, {o})
<1>1. o \in Obj /\ Record(h[o]) /\ Heap(h) /\ ~h[o].managed /\ R \ {o} = R
  BY DEF Owned, Heap
<1>2. FALSE \in BOOLEAN
  OBVIOUS
<1>3. Record(x)
  BY <1>1, <1>2, Members
<1>4. g = [h EXCEPT ![o] = x]
  BY <1>1 DEF Heap
<1>5. d = [p \in Obj |-> d[p]] /\ d[o] = x /\ \A p \in Obj : p # o => d[p] = h[p]
  BY <1>1 DEF DeleteFromPcrme
<1>6. Owned(d, st2, H, T, R \ {o})
  <2>1. {o} \subseteq H \cup T \cup R \cup {Dangling} /\ {o} \cap H \subseteq In(st)
    OBVIOUS
  <2>2. QED
    BY <2>1, DropOwned
<1> HIDE DEF x, d
<1>7. /\ Heap(g) /\ g[o] = x
      /\ \A p \in Obj : p # o => g[p] = h[p]
  BY <1>1, <1>3, <1>4, HeapExcept
<1> HIDE DEF g
<1>8. \A p \in Obj : g[p] = d[p]
  BY <1>5, <1>7
<1>9. Owned(g, st2, H, T, R)
  BY <1>1, <1>6, <1>7, <1>8, SameFlags
<1>10. QED
  BY <1>9 DEF g

\* What nobody owned becomes the program's.
LEMMA ReleaseOwned ==
  ASSUME NEW h, NEW st, NEW H, NEW T, NEW o, Owned(h, st, H, T, {o}),
         NEW st2 \in Seq(Pointer), In(st2) \subseteq H \cup {Dangling}, In(st) = In(st2) \cup {o}
  PROVE  Owned([[h EXCEPT ![o].ro = FALSE] EXCEPT ![o].managed = FALSE], st2, H \cup {o}, T, {})
<1> DEFINE y == [h[o] EXCEPT !.ro = FALSE]
           x == [y EXCEPT !.managed = FALSE]
           g == [[h EXCEPT ![o].ro = FALSE] EXCEPT ![o].managed = FALSE]
<1>1. o \in Obj /\ Record(h[o]) /\ Heap(h)
  BY DEF Owned, Heap
<1>2. FALSE \in BOOLEAN
  OBVIOUS
<1>3. Record(y) /\ y.kind = h[o].kind /\ y.ro = FALSE
  BY <1>1, <1>2, Members
<1>4. Record(x) /\ x.kind = y.kind /\ x.managed = FALSE /\ x.ro = y.ro
  BY <1>2, <1>3, Members
<1>5. g = [h EXCEPT ![o] = x]
  BY <1>1 DEF Heap
<1> HIDE DEF x, y, g
<1>6. Record(x) /\ x.kind = h[o].kind /\ x.managed = FALSE /\ x.ro = FALSE
  BY <1>3, <1>4
<1>7. /\ Heap(g) /\ g[o] = x
      /\ \A p \in Obj : p # o => g[p] = h[p]
  <2>1. Record(x)
    BY <1>6
  <2>2. LET f == [h EXCEPT ![o] = x] IN
        Heap(f) /\ f[o] = x /\ \A p \in Obj : p # o => f[p] = h[p]
    BY <1>1, <2>1, HeapExcept
  <2>3. QED
    BY <1>5, <2>2, Zenon
<1>8. Alive(g) = Alive(h)
  BY <1>6, <1>7 DEF Alive
<1>9. H \subseteq Obj /\ T \subseteq Obj /\ o \notin H /\ o \notin T /\ o \notin In(st2)
  BY <1>1, EngineAssumption DEF Owned
<1>10. Owned(g, st2, H \cup {o}, T, {})
  <2>1. \A p \in H \cup T : p \in Obj /\ g[p] = h[p]
    BY <1>7, <1>9
  <2>2. \A p \in H \cup {o} : g[p].ro => p \in In(st2)
    <3>1. SUFFICES ASSUME NEW p \in H \cup {o}, g[p].ro PROVE p \in In(st2)
      OBVIOUS
    <3>2. p \in H /\ h[p].ro
      BY <1>6, <1>7, <2>1, <3>1
    <3>3. p \in In(st) /\ p # o
      BY <1>9, <3>2 DEF Owned
    <3>4. QED
      BY <3>3
  <2>3. \A p \in (H \cup {o}) \cap In(st2) : ~g[p].managed
    BY <1>6, <1>7, <2>1 DEF Owned
  <2>4. \A p \in T : g[p].managed /\ g[p].ro
    BY <2>1 DEF Owned
  <2>5. QED
    BY <1>7, <1>8, <1>9, <2>2, <2>3, <2>4 DEF Owned
<1>11. QED
  BY <1>10 DEF g


-------------------------------------------------------------------------------
(* The invariant *)

Held == py.vars \cup py.frames

\* What an operation may find below its arguments.
Known == Held \cup {Dangling}

\* The result of an operation that nobody owns yet.
Pending == IF call.phase = "pop" THEN {stack[Len(stack)]} \ Held ELSE {}

ProgramOK ==
  /\ py = [vars |-> py.vars, frames |-> py.frames]
  /\ NoneObj \in py.vars /\ py.vars \cap py.frames = {}

CallOK ==
  /\ call = [phase |-> call.phase, op |-> call.op, args |-> call.args,
             rest |-> call.rest, meant |-> call.meant]
  /\ call.phase \in {"idle", "push", "check", "exec", "pop", "undefined"}
  /\ call.args \in Seq(Held \cup {NotAField})
  /\ call.rest \in Seq(Held)
  /\ call.phase = "idle" => call.args = << >> /\ call.rest = << >>
  /\ call.rest # << >> => Arity(call.op) = 2

\* What the operation in progress has pushed is the program's.
Present ==
  \A i \in DOMAIN stack : Len(stack) + Len(call.args) < i + Arity(call.op) => stack[i] \in Held

(***************************************************************************)
(* Outside the execution of an operation there are only fields of the      *)
(* program on the stack, or what was left of them by operations that       *)
(* failed; while it runs, its table may be there too, and at last its      *)
(* result.                                                                 *)
(***************************************************************************)
StackOK ==
  /\ call.phase \in {"idle", "push", "check", "undefined"} => In(stack) \subseteq Known
  /\ call.phase = "push" => /\ call.args # << >>
                            /\ Len(stack) + Len(call.args) >= Arity(call.op)
  /\ call.phase = "check" => call.args = << >>
  /\ call.phase \in {"push", "check"} => Present
  /\ call.phase \in {"check", "exec"} => Len(stack) >= Arity(call.op)
  /\ call.phase = "exec" => /\ In(stack) \subseteq Known \cup Tabled
                            /\ In(Base) \subseteq Known /\ In(Fields) \subseteq Held
                            /\ In(Top) \subseteq Held \cup Tabled
  /\ call.phase = "pop" => /\ stack # << >>
                           /\ In(SubSeq(stack, 1, Len(stack) - 1)) \subseteq Known

Inv == Owned(heap, stack, Held, Tabled, Pending) /\ ProgramOK /\ CallOK /\ StackOK

LEMMA InitInv == Init => Inv
<1> SUFFICES ASSUME Init PROVE Inv
  OBVIOUS
<1> USE EngineAssumption
<1> DEFINE none == Object("none", << >>, {}, 0)
<1>1. Record(none) /\ none.kind = "none" /\ none.managed = TRUE /\ none.ro = FALSE
  BY ObjectRecord DEF Object
<1> HIDE DEF none
<1>2. heap = [o \in Obj |-> IF o = NoneObj THEN none ELSE Free]
  BY DEF Init, none
<1>3. Heap(heap) /\ Alive(heap) = {NoneObj} /\ heap[NoneObj].ro = FALSE
  BY <1>1, <1>2, FreeRecord DEF Heap, Alive
<1>4. /\ py = [vars |-> {NoneObj}, frames |-> {}] /\ py.vars = {NoneObj} /\ py.frames = {}
      /\ stack = << >> /\ table = NoObj
  BY DEF Init
<1>5. /\ call.phase = "idle" /\ call.args = << >> /\ call.rest = << >>
      /\ call = [phase |-> call.phase, op |-> call.op, args |-> call.args,
                 rest |-> call.rest, meant |-> call.meant]
  BY DEF Init, Idle
<1>6. Held = {NoneObj} /\ Tabled = {} /\ Pending = {} /\ In(stack) = {} /\ stack \in Seq(Pointer)
  BY <1>4, <1>5 DEF Held, Tabled, Pending, In
<1>7. Owned(heap, stack, Held, Tabled, Pending)
  BY <1>3, <1>6 DEF Owned
<1>8. ProgramOK
  BY <1>4 DEF ProgramOK
<1>9. CallOK
  BY <1>5 DEF CallOK
<1>10. StackOK
  BY <1>5, <1>6 DEF StackOK
<1>11. QED
  BY <1>7, <1>8, <1>9, <1>10 DEF Inv

\* The frame of a call goes.
LEMMA LeaveInv ==
  ASSUME ProgramOK, NEW h, NEW st, NEW v, NoneObj \in v, v \cap py.frames = {},
         Owned(h, st, v \cup py.frames, Tabled', {}),
         In(st) \subseteq v \cup py.frames \cup {Dangling},
         Leave(h, st, v)
  PROVE  Inv'
<1> DEFINE gone == py.frames
           u == Invalidated(st, gone)
<1>1. /\ heap' = Deleted(h, gone) /\ stack' = u /\ py' = [vars |-> v, frames |-> {}]
      /\ call' = Idle
  BY DEF Leave
<1>2. gone \subseteq (v \cup gone) \cup Tabled' /\ NoneObj \notin gone
  OBVIOUS
<1>3. Owned(Deleted(h, gone), u, (v \cup gone) \ gone, Tabled' \ gone, {})
  BY <1>2, DeletedOwned
<1>4. (v \cup gone) \ gone = v /\ Tabled' \ gone = Tabled' /\ st \in Seq(Pointer)
  BY DEF Owned
<1>5. /\ call'.phase = "idle" /\ call'.args = << >> /\ call'.rest = << >>
      /\ call' = [phase |-> call'.phase, op |-> call'.op, args |-> call'.args,
                  rest |-> call'.rest, meant |-> call'.meant]
  BY <1>1 DEF Idle
<1>6. py'.vars = v /\ py'.frames = {} /\ Held' = v /\ Known' = v \cup {Dangling} /\ Pending' = {}
  BY <1>1, <1>5 DEF Held, Known, Pending
<1>7. In(u) \subseteq v \cup {Dangling}
  BY <1>4, InInvalidated
<1> HIDE DEF u
<1>8. Owned(heap, stack, Held, Tabled, Pending)'
  BY <1>1, <1>3, <1>4, <1>6
<1>9. ProgramOK'
  BY <1>1, <1>6 DEF ProgramOK
<1>10. CallOK'
  BY <1>5 DEF CallOK
<1>11. In(stack') \subseteq Known'
  BY <1>1, <1>6, <1>7
<1>12. StackOK'
  BY <1>5, <1>11 DEF StackOK, In
<1>13. QED
  BY <1>8, <1>9, <1>10, <1>12 DEF Inv

LEMMA RaiseInv ==
  ASSUME ProgramOK, NEW h, NEW st, Owned(h, st, Held, Tabled, {}), In(st) \subseteq Known,
         Raise(h, st)
  PROVE  Inv'
<1>1. Leave(h, st, py.vars) /\ Tabled' = Tabled
  BY DEF Raise, Tabled
<1>2. NoneObj \in py.vars /\ py.vars \cap py.frames = {} /\ Held = py.vars \cup py.frames
  BY DEF ProgramOK, Held
<1>3. In(st) \subseteq py.vars \cup py.frames \cup {Dangling}
  BY DEF Known, Held
<1>4. QED
  BY <1>1, <1>2, <1>3, LeaveInv


-------------------------------------------------------------------------------
(* Steps of the program *)

\* Between two operations.
LEMMA IdleFacts ==
  ASSUME Inv, IsIdle
  PROVE  /\ call.phase = "idle" /\ Pending = {} /\ In(stack) \subseteq Known
         /\ Owned(heap, stack, Held, Tabled, {}) /\ ProgramOK
         /\ call.args = << >> /\ call.rest = << >>
  BY DEF Inv, IsIdle, Pending, StackOK, CallOK

\* A step between two operations that goes on with the same table.
LEMMA IdleStep ==
  ASSUME Inv, IsIdle, UNCHANGED <<table, call>>,
         Owned(heap', stack', Held', Tabled, {}), ProgramOK', In(stack') \subseteq Known'
  PROVE  Inv'
<1>1. call'.phase = "idle" /\ call'.args = << >> /\ call'.rest = << >>
  BY IdleFacts
<1>2. Pending' = {} /\ Tabled' = Tabled
  BY <1>1 DEF Pending, Tabled
<1>3. CallOK'
  BY <1>1 DEF Inv, CallOK
<1>4. StackOK'
  BY <1>1 DEF StackOK, In
<1>5. QED
  BY <1>2, <1>3, <1>4 DEF Inv

LEMMA ReadMapInv == ASSUME Inv, ReadMap PROVE Inv'
<1>1. IsIdle /\ Room /\ UNCHANGED <<stack, table, call>>
  BY DEF ReadMap
<1>2. PICK s \in ReadScales, z \in 1..MaxClones :
        /\ heap' = [heap EXCEPT ![New(heap)] = Object("field", <<"map", nr.maps>>, {s}, z)]
        /\ py' = [py EXCEPT !.vars = @ \cup {New(heap)}]
  BY DEF ReadMap
<1> DEFINE o == New(heap)
           x == Object("field", <<"map", nr.maps>>, {s}, z)
<1>3. Owned(heap, stack, Held, Tabled, {}) /\ ProgramOK /\ In(stack) \subseteq Known
  BY <1>1, IdleFacts
<1>4. o \in Obj \ Alive(heap)
  BY <1>1, FreshNew DEF Room, Live, Alive
<1>5. Record(x) /\ x.kind # "free" /\ ~x.ro
  BY ObjectRecord
<1>6. py' = [vars |-> py.vars \cup {o}, frames |-> py.frames]
  BY <1>2, <1>3 DEF ProgramOK
<1>7. heap' = [heap EXCEPT ![o] = x]
  BY <1>2
<1> HIDE DEF o, x
<1>8. Held' = Held \cup {o} /\ o \notin Held
  BY <1>3, <1>4, <1>6 DEF Held, Owned
<1>9. Owned(heap', stack', Held', Tabled, {})
  <2>1. In(stack) \subseteq Held \cup Tabled \cup {} \cup {Dangling}
    BY <1>3 DEF Known
  <2>2. QED
    BY <1>1, <1>3, <1>4, <1>5, <1>7, <1>8, <2>1, NewOwned
<1>10. ProgramOK'
  BY <1>3, <1>6, <1>8 DEF ProgramOK, Held
<1>11. In(stack') \subseteq Known'
  BY <1>1, <1>3, <1>8 DEF Known
<1>12. QED
  BY <1>1, <1>9, <1>10, <1>11, IdleStep

LEMMA ForgetInv == ASSUME Inv, Forget PROVE Inv'
<1>1. IsIdle /\ UNCHANGED <<table, call>>
  BY DEF Forget
<1>2. PICK o \in Maps : /\ heap' = Deleted(heap, {o}) /\ stack' = Invalidated(stack, {o})
                        /\ py' = [py EXCEPT !.vars = @ \ {o}]
  BY DEF Forget
<1>3. Owned(heap, stack, Held, Tabled, {}) /\ ProgramOK /\ In(stack) \subseteq Known
  BY <1>1, IdleFacts
<1>4. o \in py.vars /\ o # NoneObj /\ o \in Held
  BY <1>2 DEF Maps, Held
<1>5. py' = [vars |-> py.vars \ {o}, frames |-> py.frames]
  BY <1>2, <1>3 DEF ProgramOK
<1>6. Held' = Held \ {o}
  BY <1>3, <1>4, <1>5 DEF Held, ProgramOK
<1>7. Tabled \ {o} = Tabled
  BY <1>3, <1>4 DEF Owned
<1>8. Owned(heap', stack', Held', Tabled, {})
  <2>1. {o} \subseteq Held \cup Tabled /\ NoneObj \notin {o}
    BY <1>4
  <2>2. Owned(Deleted(heap, {o}), Invalidated(stack, {o}), Held \ {o}, Tabled \ {o}, {})
    BY <1>3, <2>1, DeletedOwned
  <2>3. QED
    BY <1>2, <1>6, <1>7, <2>2
<1>9. ProgramOK'
  BY <1>3, <1>4, <1>5 DEF ProgramOK
<1>10. In(stack') \subseteq Known'
  <2>1. stack \in Seq(Pointer)
    BY <1>3 DEF Owned
  <2>2. In(Invalidated(stack, {o})) \subseteq (In(stack) \ {o}) \cup {Dangling}
    BY <2>1, InInvalidated
  <2>3. QED
    BY <1>2, <1>3, <1>6, <2>2 DEF Known
<1>11. QED
  BY <1>1, <1>8, <1>9, <1>10, IdleStep

\* An operation is called with fields and objects of its frame.
LEMMA CalledInv ==
  ASSUME Inv, IsIdle, NEW op, NEW args, NEW rest, NEW h, NEW temps,
         Called(op, args, rest, h, temps),
         Owned(h, stack, Held \cup temps, Tabled, {}), temps \cap Held = {},
         args \in Seq(Held \cup temps \cup {NotAField}), Len(args) = Arity(op),
         rest \in Seq(Held), rest # << >> => Arity(op) = 2
  PROVE  Inv'
<1>1. ProgramOK /\ In(stack) \subseteq Known /\ call.phase = "idle"
  BY IdleFacts
<1>2. /\ heap' = h /\ py' = [py EXCEPT !.frames = @ \cup temps]
      /\ call' = [phase |-> "push", op |-> op, args |-> args, rest |-> rest,
                  meant |-> call'.meant]
      /\ UNCHANGED <<stack, table>>
  BY DEF Called
<1>3. py' = [vars |-> py.vars, frames |-> py.frames \cup temps]
  BY <1>1, <1>2 DEF ProgramOK
<1>4. /\ call'.phase = "push" /\ call'.op = op /\ call'.args = args /\ call'.rest = rest
      /\ call' = [phase |-> call'.phase, op |-> call'.op, args |-> call'.args,
                  rest |-> call'.rest, meant |-> call'.meant]
  BY <1>2
<1>5. Held' = Held \cup temps /\ Pending' = {} /\ Tabled' = Tabled
  BY <1>2, <1>3, <1>4 DEF Held, Pending, Tabled
<1>6. Owned(heap, stack, Held, Tabled, Pending)'
  BY <1>2, <1>5
<1>7. ProgramOK'
  BY <1>1, <1>3 DEF ProgramOK, Held
<1>8. CallOK'
  <2>1. rest \in Seq(Held \cup temps)
    BY SeqMonotonic
  <2>2. QED
    BY <1>4, <1>5, <2>1 DEF CallOK
<1>9. StackOK'
  <2>1. Len(args) \in Nat /\ Arity(op) \in 1..2 /\ Len(stack) \in Nat
    BY LenProperties DEF Arity, Inv, Owned
  <2>2. args # << >> /\ Len(stack) + Len(args) >= Arity(op)
    BY <2>1
  <2>3. In(stack') \subseteq Known'
    BY <1>1, <1>2, <1>5 DEF Known
  <2>4. Present'
    <3>1. DOMAIN stack = 1..Len(stack)
      BY DEF Inv, Owned
    <3>2. QED
      BY <1>2, <1>4, <2>1, <3>1 DEF Present
  <2>5. QED
    BY <1>2, <1>4, <2>2, <2>3, <2>4 DEF StackOK
<1>10. QED
  BY <1>6, <1>7, <1>8, <1>9 DEF Inv

\* A new object of the frame of a call.
LEMMA TemporaryOwned ==
  ASSUME Inv, IsIdle, Room, NEW x, Record(x), x.kind # "free", ~x.ro
  PROVE  LET n == New(heap) IN
         /\ n \in Obj /\ {n} \cap Held = {}
         /\ Owned([heap EXCEPT ![n] = x], stack, Held \cup {n}, Tabled, {})
<1> DEFINE n == New(heap)
<1>1. /\ Owned(heap, stack, Held, Tabled, {})
      /\ In(stack) \subseteq Held \cup Tabled \cup {} \cup {Dangling}
  BY IdleFacts DEF Known
<1>2. n \in Obj \ Alive(heap)
  BY FreshNew DEF Room, Live, Alive
<1> HIDE DEF n
<1>3. n \notin Held
  BY <1>1, <1>2 DEF Owned
<1>4. Owned([heap EXCEPT ![n] = x], stack, Held \cup {n}, Tabled, {})
  BY <1>1, <1>2, NewOwned
<1>5. QED
  BY <1>2, <1>3, <1>4 DEF n

LEMMA CallWithFieldsInv == ASSUME Inv, IsIdle, NEW op, CallWithFields(op) PROVE Inv'
<1>1. PICK args \in [1..Arity(op) -> Arguments] : Called(op, args, << >>, heap, {})
  BY DEF CallWithFields
<1>2. Owned(heap, stack, Held \cup {}, Tabled, {}) /\ {} \cap Held = {}
  BY IdleFacts
<1>3. Arity(op) \in Nat /\ Arguments \subseteq Held \cup {} \cup {NotAField}
  BY DEF Arity, Arguments, Held
<1>4. args \in Seq(Held \cup {} \cup {NotAField}) /\ Len(args) = Arity(op)
  BY <1>1, <1>3
<1>5. << >> \in Seq(Held)
  OBVIOUS
<1>6. QED
  BY <1>1, <1>2, <1>4, <1>5, CalledInv

LEMMA CallWithNumberInv == ASSUME Inv, IsIdle, NEW op, CallWithNumber(op) PROVE Inv'
<1> DEFINE n == New(heap)
           args(i, o) == [j \in 1..Arity(op) |-> IF i = j THEN n ELSE o]
<1>1. Room
  BY DEF CallWithNumber
<1>2. PICK i \in 1..Arity(op), o \in py.vars :
        Called(op, args(i, o), << >>, [heap EXCEPT ![n] = Literal], {n})
  BY DEF CallWithNumber
<1>3. Record(Literal) /\ Literal.kind # "free" /\ ~Literal.ro
  BY ObjectRecord DEF Literal
<1>4. /\ {n} \cap Held = {}
      /\ Owned([heap EXCEPT ![n] = Literal], stack, Held \cup {n}, Tabled, {})
  BY <1>1, <1>3, TemporaryOwned
<1>5. Arity(op) \in Nat /\ o \in Held
  BY DEF Arity, Held
<1> HIDE DEF n
<1>6. args(i, o) \in Seq(Held \cup {n} \cup {NotAField}) /\ Len(args(i, o)) = Arity(op)
  BY <1>5
<1>7. << >> \in Seq(Held)
  OBVIOUS
<1> HIDE DEF args
<1>8. QED
  BY <1>2, <1>4, <1>6, <1>7, CalledInv

LEMMA CallCoverInv == ASSUME Inv, IsIdle, CallCover PROVE Inv'
<1>1. PICK a, b, c \in Maps : Called("cover", <<a, b>>, <<c>>, heap, {})
  BY DEF CallCover
<1>2. Owned(heap, stack, Held \cup {}, Tabled, {}) /\ {} \cap Held = {}
  BY IdleFacts
<1>3. a \in Held /\ b \in Held /\ c \in Held
  BY DEF Maps, Held
<1>4. /\ <<a, b>> \in Seq(Held \cup {} \cup {NotAField}) /\ Len(<<a, b>>) = 2
      /\ <<c>> \in Seq(Held)
  BY <1>3
<1>5. Arity("cover") = 2
  BY DEF Arity
<1>6. QED
  BY <1>1, <1>2, <1>4, <1>5, CalledInv

LEMMA CallLookupInv == ASSUME Inv, IsIdle, CallLookup PROVE Inv'
<1> DEFINE n == New(heap)
<1>1. Room
  BY DEF CallLookup
<1>2. PICK o \in py.vars : Called("lookup", <<n, o>>, << >>, [heap EXCEPT ![n] = TableId], {n})
  BY DEF CallLookup
<1>3. Record(TableId) /\ TableId.kind # "free" /\ ~TableId.ro
  BY ObjectRecord DEF TableId
<1>4. /\ {n} \cap Held = {}
      /\ Owned([heap EXCEPT ![n] = TableId], stack, Held \cup {n}, Tabled, {})
  BY <1>1, <1>3, TemporaryOwned
<1> HIDE DEF n
<1>5. o \in Held
  BY DEF Held
<1>6. <<n, o>> \in Seq(Held \cup {n} \cup {NotAField}) /\ Len(<<n, o>>) = 2 /\ << >> \in Seq(Held)
  BY <1>5
<1>7. Arity("lookup") = 2
  BY DEF Arity
<1>8. QED
  BY <1>2, <1>4, <1>6, <1>7, CalledInv

LEMMA CallInv == ASSUME Inv, Call PROVE Inv'
<1>1. IsIdle
  BY DEF Call
<1>2. CASE \E op \in Operators \ {"lookup"} : CallWithFields(op) \/ CallWithNumber(op)
  BY <1>1, <1>2, CallWithFieldsInv, CallWithNumberInv
<1>3. CASE CallCover
  BY <1>1, <1>3, CallCoverInv
<1>4. CASE CallLookup
  BY <1>1, <1>4, CallLookupInv
<1>5. QED
  BY <1>2, <1>3, <1>4 DEF Call

LEMMA SetCloneInv == ASSUME Inv, SetClone PROVE Inv'
<1>1. /\ Owned(heap, stack, Held, Tabled, {}) /\ ProgramOK /\ In(stack) \subseteq Known
      /\ call.phase = "idle" /\ call.args = << >> /\ call.rest = << >> /\ UNCHANGED py
  BY IdleFacts DEF SetClone
<1>2. Held' = Held /\ Known' = Known /\ ProgramOK'
  BY <1>1 DEF Held, Known, ProgramOK
<1>3. CASE Dangling \in In(stack)
  <2>1. call' = [call EXCEPT !.phase = "undefined"] /\ UNCHANGED <<heap, stack, table>>
    BY <1>3 DEF SetClone
  <2>2. call' = [phase |-> "undefined", op |-> call.op, args |-> call.args,
                 rest |-> call.rest, meant |-> call.meant]
    BY <2>1 DEF Inv, CallOK
  <2>3. /\ call'.phase = "undefined" /\ call'.args = << >> /\ call'.rest = << >>
        /\ call' = [phase |-> call'.phase, op |-> call'.op, args |-> call'.args,
                    rest |-> call'.rest, meant |-> call'.meant]
    BY <1>1, <2>2
  <2>4. Tabled' = Tabled /\ Pending' = {}
    BY <2>1, <2>3 DEF Tabled, Pending
  <2>5. CallOK'
    BY <2>3 DEF CallOK
  <2>6. StackOK'
    <3>1. In(stack') \subseteq Known'
      BY <1>1, <1>2, <2>1
    <3>2. QED
      BY <2>3, <3>1 DEF StackOK
  <2>7. QED
    BY <1>1, <1>2, <2>1, <2>4, <2>5, <2>6 DEF Inv
<1>4. CASE Dangling \notin In(stack)
  <2> DEFINE h == DeleteFromPcrme(heap, In(stack))
             none == << >>
  <2>1. /\ heap' = Deleted(h, Tabled) /\ stack' = << >> /\ table' = NoObj /\ UNCHANGED call
    BY <1>4 DEF SetClone
  <2>2. In(none) = {} /\ none \in Seq(Pointer)
    BY DEF In
  <2>3. Invalidated(none, Tabled) = none
    <3>1. Len(none) = 0
      OBVIOUS
    <3>2. /\ Invalidated(none, Tabled) \in Seq(Pointer)
          /\ Len(Invalidated(none, Tabled)) = Len(none)
      BY <2>2, InInvalidated
    <3>3. \A t \in Seq(Pointer) : Len(t) = 0 => t = << >>
      BY EmptySeq
    <3>4. QED
      BY <3>1, <3>2, <3>3
  <2> HIDE DEF none, h
  <2>4. Owned(h, none, Held, Tabled, {})
    <3>1. /\ In(stack) \subseteq Held \cup Tabled \cup {} \cup {Dangling}
          /\ In(stack) \cap Held \subseteq In(stack)
          /\ In(none) \cap Held \subseteq In(stack) /\ In(stack) \subseteq In(none) \cup In(stack)
          /\ {} \ In(stack) = {}
      BY <1>1, <2>2 DEF Known
    <3>2. Owned(DeleteFromPcrme(heap, In(stack)), none, Held, Tabled, {} \ In(stack))
      BY <1>1, <2>2, <3>1, DropOwned
    <3>3. QED
      BY <3>1, <3>2 DEF h
  <2>5. Tabled \subseteq Held \cup Tabled /\ NoneObj \notin Tabled
    BY <1>1 DEF Owned
  <2>6. Owned(Deleted(h, Tabled), none, Held \ Tabled, Tabled \ Tabled, {})
    BY <2>3, <2>4, <2>5, DeletedOwned
  <2>7. Held \ Tabled = Held /\ Tabled \ Tabled = {}
    BY <1>1 DEF Owned
  <2>8. Tabled' = {} /\ Pending' = {}
    BY <1>1, <2>1 DEF Tabled, Pending
  <2>9. Owned(heap, stack, Held, Tabled, Pending)'
    <3>1. heap' = Deleted(h, Tabled) /\ stack' = none
      BY <2>1 DEF none, h
    <3>2. QED
      BY <1>2, <2>6, <2>7, <2>8, <3>1
  <2>10. CallOK'
    BY <1>1, <1>2, <2>1 DEF Inv, CallOK
  <2>11. StackOK'
    <3>1. In(stack') = {} /\ call'.phase = "idle"
      BY <1>1, <2>1, <2>2 DEF none
    <3>2. QED
      BY <3>1 DEF StackOK
  <2>12. QED
    BY <1>2, <2>9, <2>10, <2>11 DEF Inv
<1>5. QED
  BY <1>3, <1>4


-------------------------------------------------------------------------------
(* Steps of the engine *)

LEMMA PushArgumentInv == ASSUME Inv, PushArgument PROVE Inv'
<1> DEFINE o == Head(call.args)
<1>1. call.phase = "push"
  BY DEF PushArgument
<1>2. /\ Owned(heap, stack, Held, Tabled, {}) /\ ProgramOK /\ CallOK
      /\ In(stack) \subseteq Known /\ call.args # << >> /\ Present
      /\ Len(stack) + Len(call.args) >= Arity(call.op)
  BY <1>1 DEF Inv, StackOK, Pending
<1>3. CASE o = NotAField
  <2>1. Raise(heap, stack)
    BY <1>3 DEF PushArgument
  <2>2. QED
    BY <1>2, <2>1, RaiseInv
<1>4. CASE o # NotAField
  <2>1. /\ PushUnmanaged(o)
        /\ call' = [call EXCEPT !.args = Tail(@),
                                !.phase = IF Tail(call.args) = << >> THEN "check" ELSE @]
        /\ UNCHANGED <<table, py>>
    BY <1>4 DEF PushArgument
  <2>2. /\ o \in Held \cup {NotAField}
        /\ Tail(call.args) \in Seq(Held \cup {NotAField})
        /\ Len(Tail(call.args)) = Len(call.args) - 1
    BY <1>2, HeadTailProperties DEF CallOK
  <2>3. o \in Held
    BY <1>4, <2>2
  <2>4. /\ call' = [phase |-> call'.phase, op |-> call.op, args |-> Tail(call.args),
                    rest |-> call.rest, meant |-> call.meant]
        /\ call'.phase = IF Tail(call.args) = << >> THEN "check" ELSE "push"
    BY <1>1, <1>2, <2>1 DEF CallOK
  <2> DEFINE rest == Tail(call.args)
  <2> HIDE DEF o
  <2>5. /\ call'.op = call.op /\ call'.args = rest /\ call'.rest = call.rest
        /\ call' = [phase |-> call'.phase, op |-> call'.op, args |-> call'.args,
                    rest |-> call'.rest, meant |-> call'.meant]
    BY <2>4
  <2>6. Held' = Held /\ Known' = Known /\ Tabled' = Tabled /\ Pending' = {}
    BY <2>1, <2>4 DEF Held, Known, Tabled, Pending
  <2>7. Owned(heap', stack', Held, Tabled, {})
    <3>1. Owned([heap EXCEPT ![o].managed = FALSE, ![o].ro = TRUE], Append(stack, o),
                Held, Tabled, {})
      BY <1>2, <2>3, PushOwned
    <3>2. QED
      BY <2>1, <3>1 DEF PushUnmanaged
  <2>8. /\ In(stack') = In(stack) \cup {o} /\ stack' \in Seq(Pointer)
        /\ Len(stack') = Len(stack) + 1 /\ stack \in Seq(Pointer)
        /\ stack'[Len(stack) + 1] = o
        /\ \A i \in 1..Len(stack) : stack'[i] = stack[i]
    <3>1. stack \in Seq(Pointer) /\ o \in Pointer /\ stack' = Append(stack, o)
      BY <1>2, <2>1, <2>3 DEF PushUnmanaged, Owned, Pointer
    <3>2. QED
      BY <3>1, InAppend, AppendProperties
  <2>9. CallOK'
    <3>1. rest \in Seq(Held \cup {NotAField})
      BY <2>2
    <3> HIDE DEF rest
    <3>2. QED
      BY <1>1, <1>2, <2>4, <2>5, <2>6, <3>1 DEF CallOK
  <2>10. StackOK'
    <3>1. In(stack') \subseteq Known'
      BY <1>2, <2>3, <2>6, <2>8 DEF Known
    <3>2. /\ Len(stack') + Len(rest) >= Arity(call.op)
          /\ rest = << >> => Len(stack') >= Arity(call.op)
      <4>1. Arity(call.op) \in Nat /\ Len(stack) \in Nat /\ Len(call.args) \in Nat
        BY <1>2, <2>8 DEF Arity, CallOK
      <4>2. Len(rest) = Len(call.args) - 1
        BY <2>2
      <4>3. Len(<< >>) = 0
        OBVIOUS
      <4> HIDE DEF rest
      <4>4. rest = << >> => Len(rest) = 0
        BY <4>3
      <4>5. Len(stack') = Len(stack) + 1 /\ Len(stack) + Len(call.args) >= Arity(call.op)
        BY <1>2, <2>8
      <4>6. ASSUME NEW n \in Nat, NEW m \in Nat, NEW k \in Nat, n + m >= k
            PROVE  (n + 1) + (m - 1) >= k /\ (m - 1 = 0 => n + 1 >= k)
        BY <4>6
      <4>7. /\ (Len(stack) + 1) + (Len(call.args) - 1) >= Arity(call.op)
            /\ Len(call.args) - 1 = 0 => Len(stack) + 1 >= Arity(call.op)
        BY <4>1, <4>5, <4>6
      <4>8. QED
        BY <4>2, <4>4, <4>5, <4>7
    <3>3. call'.phase = IF rest = << >> THEN "check" ELSE "push"
      BY <2>4
    <3>4. Len(rest) = Len(call.args) - 1
      BY <2>2
    <3> HIDE DEF rest
    <3>5. Present'
      <4>1. SUFFICES ASSUME NEW i \in DOMAIN stack',
                            Len(stack') + Len(call'.args) < i + Arity(call'.op)
                     PROVE  stack'[i] \in Held'
        BY DEF Present
      <4>2. /\ Len(stack) \in Nat /\ Len(call.args) \in Nat /\ DOMAIN stack = 1..Len(stack)
            /\ DOMAIN stack' = 1..(Len(stack) + 1) /\ Arity(call.op) \in Nat
        BY <1>2, <2>8 DEF CallOK, Arity
      <4>3. (Len(stack) + 1) + (Len(call.args) - 1) < i + Arity(call.op)
        BY <2>5, <2>8, <3>4, <4>1
      <4>4. Len(stack) + Len(call.args) < i + Arity(call.op)
        <5>1. ASSUME NEW n \in Nat, NEW m \in Nat PROVE (n + 1) + (m - 1) = n + m
          OBVIOUS
        <5>2. QED
          BY <4>2, <4>3, <5>1
      <4>5. CASE i = Len(stack) + 1
        BY <2>3, <2>6, <2>8, <4>5
      <4>6. CASE i # Len(stack) + 1
        <5>1. i \in 1..Len(stack)
          BY <4>2, <4>6
        <5>2. QED
          BY <1>2, <2>6, <2>8, <4>2, <4>4, <5>1 DEF Present
      <4>7. QED
        BY <4>5, <4>6
    <3>6. QED
      BY <2>5, <3>1, <3>2, <3>3, <3>5 DEF StackOK
  <2>11. ProgramOK'
    BY <1>2, <2>1 DEF ProgramOK
  <2>12. QED
    BY <2>6, <2>7, <2>9, <2>10, <2>11 DEF Inv
<1>5. QED
  BY <1>3, <1>4

\* The arguments of an operation on the stack.
LEMMA TopFacts ==
  ASSUME stack \in Seq(Pointer), Len(stack) >= Arity(call.op)
  PROVE  /\ Arity(call.op) \in {1, 2}
         /\ Base \in Seq(Pointer) /\ Len(Base) = Len(stack) - Arity(call.op)
         /\ Top \in Seq(Pointer) /\ Len(Top) = Arity(call.op)
         /\ stack = Base \o Top /\ In(Base) \cup In(Top) = In(stack)
         /\ Fields \in Seq(Pointer) /\ In(Fields) \subseteq In(Top)
         /\ call.op = "lookup" => /\ In(Top) = {Top[1]} \cup In(Fields)
                                  /\ Len(Fields) = 1
         /\ call.op # "lookup" => Fields = Top
<1> DEFINE k == Len(stack) - Arity(call.op)
<1>1. Arity(call.op) \in {1, 2} /\ (call.op = "lookup" => Arity(call.op) = 2)
  BY DEF Arity
<1>2. k \in 0..Len(stack) /\ Len(stack) - k = Arity(call.op)
  BY <1>1
<1> HIDE DEF k
<1>3. Base = SubSeq(stack, 1, k)
  BY DEF Base, k
<1>4. Base \in Seq(Pointer) /\ Len(Base) = k
  BY <1>2, <1>3, Parts
<1>5. Top = SubSeq(stack, k + 1, Len(stack))
  BY <1>4 DEF Top
<1>6. /\ Top \in Seq(Pointer) /\ Len(Top) = Arity(call.op)
      /\ stack = Base \o Top /\ In(Base) \cup In(Top) = In(stack)
  <2> DEFINE low == SubSeq(stack, 1, k)
             high == SubSeq(stack, k + 1, Len(stack))
  <2>1. /\ high \in Seq(Pointer) /\ Len(high) = Len(stack) - k
        /\ stack = low \o high /\ In(low) \cup In(high) = In(stack)
    BY <1>2, Parts
  <2> HIDE DEF low, high
  <2>2. Base = low /\ Top = high
    BY <1>3, <1>5 DEF low, high
  <2>3. QED
    BY <1>2, <2>1, <2>2
<1>7. CASE call.op = "lookup"
  <2>1. Fields = Tail(Top)
    BY <1>7 DEF Fields, FieldsOf
  <2>2. Len(Top) = 2 /\ Top # << >>
    BY <1>1, <1>6, <1>7
  <2>3. /\ Fields \in Seq(Pointer) /\ Len(Fields) = 1
        /\ \A i \in 1..Len(Fields) : Fields[i] = Top[i + 1]
    BY <1>6, <2>1, <2>2, HeadTailProperties
  <2>4. DOMAIN Top = {1, 2} /\ DOMAIN Fields = {1} /\ Fields[1] = Top[2]
    <3>1. DOMAIN Top = 1..2 /\ DOMAIN Fields = 1..1 /\ 1 + 1 = 2
      BY <1>6, <2>2, <2>3
    <3>2. QED
      BY <2>3, <3>1
  <2>5. In(Top) = {Top[1]} \cup In(Fields)
    BY <1>6, <2>2, <2>4 DEF In
  <2>6. QED
    BY <1>1, <1>2, <1>4, <1>6, <1>7, <2>3, <2>5 DEF k
<1>8. CASE call.op # "lookup"
  <2>1. Fields = Top
    BY <1>8 DEF Fields, FieldsOf
  <2>2. QED
    BY <1>1, <1>2, <1>4, <1>6, <1>8, <2>1 DEF k
<1>9. QED
  BY <1>7, <1>8

\* The arguments that are checked are the program's.
LEMMA TopHeld ==
  ASSUME Inv, call.phase = "check"
  PROVE  In(Top) \subseteq Held
<1> DEFINE k == Len(stack) - Arity(call.op)
<1>1. /\ stack \in Seq(Pointer) /\ Len(stack) >= Arity(call.op) /\ Present /\ call.args = << >>
  BY DEF Inv, StackOK, Owned
<1>2. Arity(call.op) \in {1, 2} /\ Len(stack) \in Nat
  BY <1>1 DEF Arity
<1>3. k \in 0..Len(stack) /\ Len(stack) - k = Arity(call.op)
  BY <1>1, <1>2
<1>4. Base = SubSeq(stack, 1, k)
  BY DEF Base
<1> HIDE DEF k
<1>5. Len(Base) = k
  BY <1>1, <1>3, <1>4, Parts
<1>6. Top = SubSeq(stack, k + 1, Len(stack))
  BY <1>5 DEF Top
<1>7. /\ Top \in Seq(Pointer) /\ Len(Top) = Len(stack) - k
      /\ \A i \in 1..(Len(stack) - k) : Top[i] = stack[k + i]
  BY <1>1, <1>3, <1>6, Parts
<1>8. ASSUME NEW i \in 1..Len(Top) PROVE Top[i] \in Held
  <2>1. /\ k + i \in 1..Len(stack) /\ Len(stack) + 0 < (k + i) + Arity(call.op)
        /\ DOMAIN stack = 1..Len(stack) /\ i \in 1..(Len(stack) - k)
    BY <1>1, <1>2, <1>3, <1>7
  <2>2. Len(call.args) = 0
    BY <1>1
  <2>3. stack[k + i] \in Held
    BY <1>1, <2>1, <2>2 DEF Present
  <2>4. QED
    BY <1>7, <2>1, <2>3
<1>9. QED
  BY <1>7, <1>8 DEF In

\* What is given back and what stays are the whole stack.
LEMMA RejectedParts ==
  ASSUME Inv, Rejected
  PROVE  \E D : \E st \in Seq(Pointer) :
           Raise(DeleteFromPcrme(heap, D), st) /\ In(st) \cup D = In(stack)
<1> DEFINE first == IF Mismatched = {} THEN 1
                    ELSE CHOOSE i \in Mismatched : \A j \in Mismatched : j <= i
           D == In(SubSeq(Top, first, Len(Top)))
           st == Base \o SubSeq(Top, 1, first - 1)
<1>1. /\ call.phase = "check" /\ Raise(DeleteFromPcrme(heap, D), st)
  BY DEF Rejected
<1>2. /\ Owned(heap, stack, Held, Tabled, {}) /\ ProgramOK
      /\ In(stack) \subseteq Known /\ Len(stack) >= Arity(call.op) /\ stack \in Seq(Pointer)
  BY <1>1 DEF Inv, StackOK, Pending, Owned
<1>3. /\ In(Base) \cup In(Top) = In(stack) /\ Base \in Seq(Pointer) /\ Top \in Seq(Pointer)
      /\ Len(Top) \in {1, 2}
  BY <1>2, TopFacts
<1>4. first \in 1..Len(Top)
  <2>1. Mismatched \subseteq 1..Len(Top) /\ 1 \in 1..Len(Top)
    <3>1. DOMAIN Top = 1..Len(Top)
      BY <1>3, LenProperties
    <3>2. Mismatched \subseteq DOMAIN Top
      BY DEF Mismatched
    <3>3. QED
      BY <1>3, <3>1, <3>2
  <2>2. Mismatched \subseteq {1, 2}
    <3>1. 1..1 \subseteq {1, 2} /\ 1..2 \subseteq {1, 2}
      OBVIOUS
    <3>2. QED
      BY <1>3, <2>1, <3>1
  <2>3. ASSUME Mismatched # {}
        PROVE  \E i \in Mismatched : \A j \in Mismatched : j <= i
    <3>1. CASE 2 \in Mismatched
      <4>1. \A j \in Mismatched : j <= 2
        BY <2>2
      <4>2. QED
        BY <3>1, <4>1
    <3>2. CASE 2 \notin Mismatched
      <4>1. Mismatched = {1}
        BY <2>2, <2>3, <3>2
      <4>2. QED
        BY <4>1
    <3>3. QED
      BY <3>1, <3>2
  <2>4. Mismatched # {} =>
          (CHOOSE i \in Mismatched : \A j \in Mismatched : j <= i) \in Mismatched
    BY <2>3
  <2>5. QED
    BY <2>1, <2>4
<1> DEFINE kept == SubSeq(Top, 1, first - 1)
<1> HIDE DEF first
<1>5. kept \in Seq(Pointer) /\ In(kept) \cup D = In(Top)
  <2>1. first - 1 \in 0..Len(Top) /\ (first - 1) + 1 = first
    BY <1>3, <1>4
  <2>2. kept \in Seq(Pointer) /\ In(kept) \cup In(SubSeq(Top, (first - 1) + 1, Len(Top))) = In(Top)
    BY <1>3, <2>1, Parts
  <2>3. QED
    BY <2>1, <2>2
<1>6. st \in Seq(Pointer) /\ In(st) = In(Base) \cup In(kept)
  <2>1. st = Base \o kept
    OBVIOUS
  <2> HIDE DEF kept, st
  <2>2. QED
    BY <1>3, <1>5, <2>1, InConcat
<1> HIDE DEF kept
<1> HIDE DEF st, D
<1>7. In(st) \cup D = In(stack)
  BY <1>3, <1>5, <1>6
<1>8. QED
  BY <1>1, <1>6, <1>7

LEMMA RejectedInv == ASSUME Inv, Rejected PROVE Inv'
<1>1. PICK D : \E st \in Seq(Pointer) :
        Raise(DeleteFromPcrme(heap, D), st) /\ In(st) \cup D = In(stack)
  BY RejectedParts
<1>2. PICK st \in Seq(Pointer) : Raise(DeleteFromPcrme(heap, D), st) /\ In(st) \cup D = In(stack)
  BY <1>1
<1>3. /\ Owned(heap, stack, Held, Tabled, {}) /\ ProgramOK /\ In(stack) \subseteq Known
  BY DEF Inv, StackOK, Pending, Rejected
<1>4. Owned(DeleteFromPcrme(heap, D), st, Held, Tabled, {})
  <2>1. /\ D \subseteq Held \cup Tabled \cup {} \cup {Dangling} /\ D \cap Held \subseteq In(stack)
        /\ In(st) \cap Held \subseteq In(stack) /\ In(stack) \subseteq In(st) \cup D
        /\ {} \ D = {}
    BY <1>2, <1>3 DEF Known
  <2>2. QED
    BY <1>2, <1>3, <2>1, DropOwned
<1>5. In(st) \subseteq Known
  BY <1>2, <1>3
<1>6. QED
  BY <1>2, <1>3, <1>4, <1>5, RaiseInv

LEMMA LoadFailsInv == ASSUME Inv, LoadFails PROVE Inv'
<1>1. call.phase = "check" /\ Raise(DeleteFromPcrme(heap, In(Top)), Base)
  BY DEF LoadFails
<1>2. /\ Owned(heap, stack, Held, Tabled, {}) /\ ProgramOK
      /\ In(stack) \subseteq Known /\ Len(stack) >= Arity(call.op) /\ stack \in Seq(Pointer)
  BY <1>1 DEF Inv, StackOK, Pending, Owned
<1>3. In(Base) \cup In(Top) = In(stack) /\ Base \in Seq(Pointer)
  BY <1>2, TopFacts
<1>4. Owned(DeleteFromPcrme(heap, In(Top)), Base, Held, Tabled, {})
  <2>1. /\ In(Top) \subseteq Held \cup Tabled \cup {} \cup {Dangling} /\ In(Top) \cap Held \subseteq In(stack)
        /\ In(Base) \cap Held \subseteq In(stack) /\ In(stack) \subseteq In(Base) \cup In(Top)
        /\ {} \ In(Top) = {}
    BY <1>2, <1>3 DEF Known
  <2>2. QED
    BY <1>2, <1>3, <2>1, DropOwned
<1>5. In(Base) \subseteq Known
  BY <1>2, <1>3
<1>6. QED
  BY <1>1, <1>2, <1>4, <1>5, RaiseInv


\* The operands get other scales.
LEMMA NarrowedOwned ==
  ASSUME NEW h, NEW st, NEW H, NEW T, NEW R, Owned(h, st, H, T, R)
  PROVE  Owned(Narrowed(h), st, H, T, R)
<1> DEFINE vs == ArgScales(call.op, Operands)
           at(o) == vs[CHOOSE i \in DOMAIN Fields : Fields[i] = o]
           g == Narrowed(h)
<1>1. /\ g = [o \in Obj |-> g[o]]
      /\ \A o \in Obj : g[o] = IF o \in In(Fields) THEN [h[o] EXCEPT !.vs = at(o)] ELSE h[o]
  BY DEF Narrowed
<1> HIDE DEF g, at
<1>2. ASSUME NEW o \in Obj
      PROVE  /\ Record(g[o]) /\ g[o].kind = h[o].kind
             /\ g[o].managed = h[o].managed /\ g[o].ro = h[o].ro
  <2>1. Record(h[o])
    BY DEF Owned, Heap
  <2>2. CASE o \in In(Fields)
    <3>1. g[o] = [h[o] EXCEPT !.vs = at(o)]
      BY <1>1, <2>2
    <3>2. \A v : LET y == [h[o] EXCEPT !.vs = v] IN
          Record(y) /\ y.kind = h[o].kind /\ y.managed = h[o].managed /\ y.ro = h[o].ro
      BY <2>1, Members
    <3>3. QED
      BY <3>1, <3>2
  <2>3. CASE o \notin In(Fields)
    BY <1>1, <2>1, <2>3
  <2>4. QED
    BY <2>2, <2>3
<1>3. Heap(g)
  BY <1>1, <1>2 DEF Heap
<1>4. Owned(g, st, H, T, R)
  BY <1>2, <1>3, SameFlags
<1>5. QED
  BY <1>4 DEF g

\* The parts of a sequence that was put together.
LEMMA ConcatParts ==
  ASSUME NEW S, NEW s \in Seq(S), NEW t \in Seq(S)
  PROVE  /\ SubSeq(s \o t, 1, Len(s)) = s
         /\ SubSeq(s \o t, Len(s) + 1, Len(s \o t)) = t
<1> DEFINE c == s \o t
           left == SubSeq(c, 1, Len(s))
           right == SubSeq(c, Len(s) + 1, Len(c))
<1>1. /\ c \in Seq(S) /\ Len(c) = Len(s) + Len(t) /\ Len(s) \in Nat /\ Len(t) \in Nat
      /\ \A i \in 1..(Len(s) + Len(t)) : c[i] = IF i <= Len(s) THEN s[i] ELSE t[i - Len(s)]
  BY ConcatProperties
<1> HIDE DEF c
<1>2. Len(s) \in 0..Len(c) /\ Len(c) - Len(s) = Len(t)
  BY <1>1
<1>3. /\ left \in Seq(S) /\ Len(left) = Len(s)
      /\ right \in Seq(S) /\ Len(right) = Len(t)
      /\ \A i \in 1..Len(t) : right[i] = c[Len(s) + i]
      /\ \A i \in 1..Len(s) : left[i] = c[i]
  <2>1. /\ left \in Seq(S) /\ Len(left) = Len(s)
        /\ right \in Seq(S) /\ Len(right) = Len(c) - Len(s)
        /\ \A i \in 1..(Len(c) - Len(s)) : right[i] = c[Len(s) + i]
        /\ \A i \in 1..Len(s) : left[i] = c[i]
    BY <1>1, <1>2, Parts
  <2>2. QED
    BY <1>2, <2>1
<1> HIDE DEF left, right
<1>4. ASSUME NEW i \in 1..Len(s) PROVE left[i] = s[i]
  BY <1>1, <1>3
<1>5. ASSUME NEW i \in 1..Len(t) PROVE right[i] = t[i]
  <2>1. Len(s) + i \in 1..(Len(s) + Len(t)) /\ ~(Len(s) + i <= Len(s)) /\ (Len(s) + i) - Len(s) = i
    BY <1>1
  <2>2. QED
    BY <1>1, <1>3, <2>1
<1>6. left = s /\ right = t
  BY <1>3, <1>4, <1>5, SeqEqual
<1>7. QED
  BY <1>6 DEF left, right, c

LEMMA LoadTableOwned ==
  ASSUME Inv, call.phase = "check", Room, LoadTable,
         call' = [call EXCEPT !.phase = "exec"], UNCHANGED py
  PROVE  /\ Owned(heap', stack', Held, Tabled', {})
         /\ Len(stack') >= Arity(call.op)
         /\ In(stack') \subseteq Known \cup Tabled'
         /\ In(Base') \subseteq Known /\ In(Fields') \subseteq Held /\ Fields' = Fields
         /\ In(Top') \subseteq Held \cup Tabled'
         /\ \E h : /\ heap' = Narrowed(DeleteFromPcrme(h, {Top[1]}))
                   /\ Owned(h, stack, Held, Tabled', {}) /\ \A o \in Held : h[o] = heap[o]
<1> DEFINE t == IF table = NoObj THEN New(heap) ELSE table
           x == [Object("table", << >>, Operands[1].vs, 0) EXCEPT !.ro = TRUE]
           h == IF table # NoObj THEN heap ELSE [heap EXCEPT ![t] = x]
           st == Base \o <<t>> \o Fields
<1>1. /\ call.op = "lookup" /\ heap' = Narrowed(DeleteFromPcrme(h, {Top[1]}))
      /\ table' = t /\ stack' = st
  BY DEF LoadTable
<1>2. /\ Owned(heap, stack, Held, Tabled, {}) /\ CallOK
      /\ In(stack) \subseteq Known /\ Len(stack) >= Arity(call.op) /\ stack \in Seq(Pointer)
      /\ In(Top) \subseteq Held
  BY TopHeld DEF Inv, StackOK, Pending, Owned
<1>3. t \in Obj /\ Tabled' = {t} /\ Owned(h, stack, Held, {t}, {})
  <2>1. CASE table # NoObj
    <3>1. t = table /\ Tabled = {table} /\ Tabled' = {t}
      BY <1>1, <2>1 DEF Tabled
    <3>2. h = heap
      BY <2>1
    <3>3. QED
      BY <1>2, <3>1, <3>2 DEF Owned
  <2>2. CASE table = NoObj
    <3>1. t = New(heap) /\ Tabled = {} /\ h = [heap EXCEPT ![t] = x]
      BY <2>2 DEF Tabled
    <3>2. t \in Obj \ Alive(heap) /\ NoObj \notin Obj
      BY <3>1, FreshNew, EngineAssumption DEF Room, Live, Alive
    <3>3. Record(x) /\ x.kind = "table" /\ x.managed /\ x.ro
      <4>1. TRUE \in BOOLEAN
        OBVIOUS
      <4> DEFINE y == Object("table", << >>, Operands[1].vs, 0)
      <4>2. Record(y) /\ y.kind = "table" /\ y.managed
        BY ObjectRecord
      <4> HIDE DEF y
      <4>3. /\ Record([y EXCEPT !.ro = TRUE]) /\ [y EXCEPT !.ro = TRUE].kind = y.kind
            /\ [y EXCEPT !.ro = TRUE].managed = y.managed /\ [y EXCEPT !.ro = TRUE].ro = TRUE
        BY <4>1, <4>2, Members
      <4>4. x = [y EXCEPT !.ro = TRUE]
        BY DEF y
      <4> HIDE DEF x
      <4>5. QED
        BY <4>2, <4>3, <4>4
    <3> HIDE DEF x, t, h
    <3>4. Owned([heap EXCEPT ![t] = x], stack, Held, Tabled \cup {t}, {})
      <4>1. x.kind # "free" /\ In(stack) \subseteq Held \cup Tabled \cup {} \cup {Dangling}
        BY <1>2, <3>3 DEF Known
      <4>2. QED
        BY <1>2, <3>2, <3>3, <4>1, NewOwned
    <3>5. Tabled \cup {t} = {t} /\ Tabled' = {t}
      BY <1>1, <3>1, <3>2 DEF Tabled
    <3>6. QED
      BY <3>1, <3>2, <3>4, <3>5
  <2>3. QED
    BY <2>1, <2>2
<1> HIDE DEF t, h, x
<1>4. /\ Base \in Seq(Pointer) /\ Fields \in Seq(Pointer) /\ Len(Base) = Len(stack) - Arity(call.op)
      /\ In(Base) \cup In(Top) = In(stack) /\ In(Top) = {Top[1]} \cup In(Fields)
      /\ Len(Fields) = 1
  BY <1>1, <1>2, TopFacts
<1> DEFINE one == <<t>>
           top == one \o Fields
<1>5. one \in Seq(Pointer) /\ In(one) = {t} /\ Len(one) = 1
  <2>1. <<t>> \in Seq(Pointer) /\ Len(<<t>>) = 1 /\ DOMAIN <<t>> = {1} /\ <<t>>[1] = t
    BY <1>3 DEF Pointer
  <2>2. QED
    BY <2>1 DEF In
<1> HIDE DEF one
<1>6. top \in Seq(Pointer) /\ In(top) = {t} \cup In(Fields) /\ Len(top) = 2
  <2>1. top \in Seq(Pointer) /\ In(top) = In(one) \cup In(Fields)
    BY <1>4, <1>5, InConcat
  <2>2. Len(top) = Len(one) + Len(Fields)
    BY <1>4, <1>5, ConcatProperties
  <2>3. QED
    BY <1>4, <1>5, <2>1, <2>2
<1>7. st = Base \o top
  BY <1>4, <1>5, ConcatAssociative DEF one
<1>8. Tail(top) = Fields
  <2>1. SubSeq(top, 2, Len(top)) = Fields
    <3>1. SubSeq(top, Len(one) + 1, Len(top)) = Fields
      BY <1>4, <1>5, ConcatParts
    <3>2. Len(one) + 1 = 2
      BY <1>5
    <3> HIDE DEF top
    <3>3. QED
      BY <3>1, <3>2
  <2> HIDE DEF top
  <2>2. top # << >>
    BY <1>6
  <2>3. QED
    BY <1>6, <2>1, <2>2, TailIsSubSeq
<1> HIDE DEF st, top
<1>9. /\ st \in Seq(Pointer) /\ In(st) = In(Base) \cup {t} \cup In(Fields)
      /\ Len(st) = Len(Base) + 2
      /\ SubSeq(st, 1, Len(Base)) = Base /\ SubSeq(st, Len(Base) + 1, Len(st)) = top
  <2>1. st \in Seq(Pointer) /\ In(st) = In(Base) \cup In(top)
    BY <1>4, <1>6, <1>7, InConcat
  <2>2. Len(st) = Len(Base) + Len(top)
    BY <1>4, <1>6, <1>7, ConcatProperties
  <2>3. SubSeq(st, 1, Len(Base)) = Base /\ SubSeq(st, Len(Base) + 1, Len(st)) = top
    BY <1>4, <1>6, <1>7, ConcatParts
  <2>4. QED
    BY <1>6, <2>1, <2>2, <2>3
<1>10. Arity(call.op) = 2 /\ call'.op = call.op
  BY <1>1, <1>2 DEF Arity, CallOK
<1>11. Base' = Base
  <2>1. Len(stack) \in Nat /\ Len(Base) \in Nat
    BY <1>2, <1>4
  <2>2. Len(st) - 2 = Len(Base)
    BY <1>9, <2>1
  <2>3. Base' = SubSeq(st, 1, Len(st) - 2)
    BY <1>1, <1>10 DEF Base
  <2>4. QED
    BY <1>9, <2>2, <2>3
<1>12. Fields' = Fields
  <2>1. Top' = SubSeq(st, Len(Base') + 1, Len(st))
    BY <1>1 DEF Top
  <2>2. Top' = top
    BY <1>9, <1>11, <2>1
  <2>3. Fields' = Tail(Top')
    BY <1>1, <1>10 DEF Fields, FieldsOf
  <2>4. QED
    BY <1>8, <2>2, <2>3
<1>13. Owned(DeleteFromPcrme(h, {Top[1]}), st, Held, {t}, {})
  <2>1. /\ {Top[1]} \subseteq Held \cup {t} \cup {} \cup {Dangling} /\ {Top[1]} \cap Held \subseteq In(stack)
        /\ In(st) \cap Held \subseteq In(stack) /\ In(stack) \subseteq In(st) \cup {Top[1]}
        /\ {} \ {Top[1]} = {}
    <3>1. t \notin Held
      BY <1>3 DEF Owned
    <3>2. QED
      BY <1>2, <1>4, <1>9, <3>1
  <2>2. QED
    BY <1>3, <1>9, <2>1, DropOwned
<1>14. Owned(heap', stack', Held, Tabled', {})
  BY <1>1, <1>3, <1>13, NarrowedOwned
<1>15. Len(st) >= Arity(call.op)
  <2>1. Len(Base) \in Nat
    BY <1>4
  <2>2. QED
    BY <1>9, <1>10, <2>1
<1>16. \A o \in Held : h[o] = heap[o]
  <2>1. t \notin Held /\ Held \subseteq Obj
    BY <1>3 DEF Owned
  <2>2. h = IF table # NoObj THEN heap ELSE [heap EXCEPT ![t] = x]
    BY DEF h
  <2>3. Heap(heap)
    BY <1>2 DEF Owned
  <2>4. QED
    BY <1>3, <2>1, <2>2, <2>3 DEF Heap
<1>17. In(Top') \subseteq Held \cup Tabled'
  <2>1. Top' = SubSeq(st, Len(Base') + 1, Len(st))
    BY <1>1 DEF Top
  <2>2. QED
    BY <1>2, <1>3, <1>4, <1>6, <1>9, <1>11, <2>1
<1>18. In(stack') \subseteq Known \cup Tabled' /\ In(Base') \subseteq Known
  BY <1>1, <1>2, <1>3, <1>4, <1>9, <1>11 DEF Known
<1>19. QED
  BY <1>1, <1>2, <1>3, <1>4, <1>12, <1>14, <1>15, <1>16, <1>17, <1>18

LEMMA CheckedInv == ASSUME Inv, Checked PROVE Inv'
<1>1. /\ call.phase = "check" /\ Room /\ call' = [call EXCEPT !.phase = "exec"]
      /\ UNCHANGED py
  BY DEF Checked
<1>2. /\ Owned(heap, stack, Held, Tabled, {}) /\ ProgramOK /\ CallOK
      /\ In(stack) \subseteq Known /\ Len(stack) >= Arity(call.op) /\ stack \in Seq(Pointer)
      /\ In(Top) \subseteq Held
  BY <1>1, TopHeld DEF Inv, StackOK, Pending, Owned
<1>3. /\ call' = [phase |-> "exec", op |-> call.op, args |-> call.args,
                  rest |-> call.rest, meant |-> call.meant]
  BY <1>1, <1>2 DEF CallOK
<1>4. /\ call'.phase = "exec" /\ call'.op = call.op /\ call'.args = call.args
      /\ call'.rest = call.rest
      /\ call' = [phase |-> call'.phase, op |-> call'.op, args |-> call'.args,
                  rest |-> call'.rest, meant |-> call'.meant]
  BY <1>3
<1>5. Held' = Held /\ Known' = Known /\ Pending' = {} /\ ProgramOK'
  BY <1>1, <1>2, <1>4 DEF Held, Known, Pending, ProgramOK
<1>6. CallOK'
  BY <1>2, <1>4, <1>5 DEF CallOK
<1>7. /\ Owned(heap', stack', Held, Tabled', {})
      /\ Len(stack') >= Arity(call.op)
      /\ In(stack') \subseteq Known \cup Tabled'
      /\ In(Base') \subseteq Known /\ In(Fields') \subseteq Held
      /\ In(Top') \subseteq Held \cup Tabled'
  <2>1. CASE LoadTable
    BY <1>1, <2>1, LoadTableOwned
  <2>2. CASE call.op # "lookup" /\ heap' = Narrowed(heap) /\ UNCHANGED <<table, stack>>
    <3>1. Owned(heap', stack', Held, Tabled', {})
      BY <1>2, <2>2, NarrowedOwned DEF Tabled
    <3>2. In(Base) \subseteq Known /\ In(Fields) \subseteq Held
      BY <1>2, TopFacts
    <3>3. Base' = Base
      BY <1>4, <2>2 DEF Base
    <3>4. Top' = Top
      BY <2>2, <3>3 DEF Top
    <3>5. Fields' = Fields
      BY <1>4, <3>4 DEF Fields
    <3>6. QED
      BY <1>2, <2>2, <3>1, <3>2, <3>3, <3>4, <3>5
  <2>3. QED
    BY <2>1, <2>2 DEF Checked
<1>8. StackOK'
  BY <1>4, <1>5, <1>7 DEF StackOK
<1>9. QED
  BY <1>5, <1>6, <1>7, <1>8 DEF Inv


-------------------------------------------------------------------------------
(* Execution *)

\* When an operation is executed.
LEMMA ExecFacts ==
  ASSUME Inv, call.phase = "exec"
  PROVE  /\ Owned(heap, stack, Held, Tabled, {}) /\ ProgramOK /\ CallOK
         /\ stack \in Seq(Pointer) /\ Len(stack) >= Arity(call.op)
         /\ In(stack) \subseteq Known \cup Tabled
         /\ In(Base) \subseteq Known /\ In(Fields) \subseteq Held
  BY DEF Inv, StackOK, Pending, Owned

LEMMA DestinationOwned ==
  ASSUME Inv, call.phase = "exec", Room
  PROVE  /\ Destination = [h |-> Destination.h, obj |-> Destination.obj]
         /\ Destination.obj \in Obj
         /\ Destination.obj \in Held => Destination.obj \in In(Fields)
         /\ Owned(Destination.h, stack, Held, Tabled, {Destination.obj} \ Held)
<1> DEFINE n == New(heap)
<1>1. /\ Owned(heap, stack, Held, Tabled, {}) /\ In(stack) \subseteq Known \cup Tabled
      /\ stack \in Seq(Pointer) /\ Len(stack) >= Arity(call.op)
      /\ In(Fields) \subseteq Held /\ Held \subseteq Obj
  BY ExecFacts DEF Owned
<1>2. n \in Obj \ Alive(heap)
  BY FreshNew DEF Room, Live, Alive
<1>3. n \notin Held
  BY <1>1, <1>2 DEF Owned
<1> HIDE DEF n
<1>4. ASSUME NEW x, Record(x), x.kind # "free", Loose(x)
      PROVE  Owned([heap EXCEPT ![n] = x], stack, Held, Tabled, {n})
  <2>1. In(stack) \subseteq Held \cup Tabled \cup {} \cup {Dangling} /\ {} \cup {n} = {n}
    BY <1>1 DEF Known
  <2>2. Owned([heap EXCEPT ![n] = x], stack, Held, Tabled, {} \cup {n})
    BY <1>1, <1>2, <1>4, <2>1, NewOwned
  <2>3. QED
    BY <2>1, <2>2
<1>5. CASE InPlace
  <2> DEFINE i == DestArg(Operands)
             d == Fields[i]
  <2>1. ASSUME NEW x PROVE DestArg(x) \in {1, 2} /\ (Len(x) = 1 => DestArg(x) = 1)
    BY DEF DestArg
  <2>2. call.op # "lookup" /\ Fields = Top /\ Top \in Seq(Pointer) /\ Len(Top) \in {1, 2}
    BY <1>1, <1>5, TopFacts DEF InPlace
  <2>3. Fields \in Seq(Pointer) /\ DOMAIN Fields = 1..Len(Fields) /\ Len(Fields) \in {1, 2}
    BY <2>2, LenProperties
  <2>4. Len(Operands) = Len(Fields)
    BY <2>3 DEF Operands
  <2>5. i \in 1..Len(Fields)
    <3>1. i \in {1, 2} /\ (Len(Fields) = 1 => i = 1)
      BY <2>1, <2>4
    <3> HIDE DEF i
    <3>2. QED
      BY <2>3, <3>1
  <2> HIDE DEF i
  <2>6. d \in In(Fields) /\ d \in Held /\ d \in Obj
    BY <1>1, <2>3, <2>5 DEF In
  <2>7. Destination = IF heap[d].ro THEN Clone(heap, d) ELSE SameObject(heap, d)
    BY <1>5 DEF Destination, i
  <2> HIDE DEF d
  <2>8. CASE heap[d].ro
    <3> DEFINE x == Object(heap[d].kind, heap[d].cells, heap[d].vs, heap[d].size)
    <3>1. Destination = [h |-> [heap EXCEPT ![n] = x], obj |-> n]
      BY <2>7, <2>8 DEF Clone, n
    <3>2. Record(x) /\ x.kind = heap[d].kind /\ Loose(x)
      BY ObjectRecord
    <3>3. heap[d].kind # "free"
      BY <1>1, <2>6 DEF Owned, Alive
    <3> HIDE DEF x
    <3>4. Owned([heap EXCEPT ![n] = x], stack, Held, Tabled, {n})
      BY <1>4, <3>2, <3>3
    <3>5. Destination.h = [heap EXCEPT ![n] = x] /\ Destination.obj = n /\ {n} \ Held = {n}
      BY <1>3, <3>1
    <3>6. QED
      BY <1>2, <1>3, <3>1, <3>4, <3>5
  <2>9. CASE ~heap[d].ro
    <3>1. Destination = [h |-> heap, obj |-> d]
      BY <2>7, <2>9 DEF SameObject
    <3>2. Destination.h = heap /\ Destination.obj = d /\ {d} \ Held = {}
      BY <2>6, <3>1
    <3>3. QED
      BY <1>1, <2>6, <3>1, <3>2
  <2>10. QED
    BY <2>8, <2>9
<1>6. CASE ~InPlace
  <2> DEFINE x == Result(call.op, [i \in DOMAIN Top |-> heap[Top[i]]])
  <2>1. Destination = [h |-> [heap EXCEPT ![n] = x], obj |-> n]
    BY <1>6 DEF Destination, n
  <2>2. Record(x) /\ x.kind = "field" /\ Loose(x)
    BY ObjectRecord DEF Result
  <2> HIDE DEF x
  <2>3. Owned([heap EXCEPT ![n] = x], stack, Held, Tabled, {n})
    BY <1>4, <2>2
  <2>4. Destination.h = [heap EXCEPT ![n] = x] /\ Destination.obj = n /\ {n} \ Held = {n}
    BY <1>3, <2>1
  <2>5. QED
    BY <1>2, <1>3, <2>1, <2>3, <2>4
<1>7. QED
  BY <1>5, <1>6

\* An object gets other contents.
LEMMA ContentsOwned ==
  ASSUME NEW h, NEW st, NEW H, NEW T, NEW R, Owned(h, st, H, T, R),
         NEW o \in Obj, NEW c, NEW v
  PROVE  Owned([h EXCEPT ![o].cells = c, ![o].vs = v], st, H, T, R)
<1> DEFINE y == [h[o] EXCEPT !.cells = c]
           x == [y EXCEPT !.vs = v]
           g == [h EXCEPT ![o].cells = c, ![o].vs = v]
<1>1. Heap(h) /\ Record(h[o])
  BY DEF Owned, Heap
<1>2. g = [h EXCEPT ![o] = x]
  BY <1>1 DEF Heap
<1>3. Record(y) /\ y.kind = h[o].kind /\ y.managed = h[o].managed /\ y.ro = h[o].ro
  BY <1>1, Members
<1> HIDE DEF y
<1>4. \A w : LET z == [y EXCEPT !.vs = w] IN
      Record(z) /\ z.kind = y.kind /\ z.managed = y.managed /\ z.ro = y.ro
  BY <1>3, Members
<1>5. Record(x) /\ x.kind = y.kind /\ x.managed = y.managed /\ x.ro = y.ro
  BY <1>4
<1> HIDE DEF x
<1>6. Heap([h EXCEPT ![o] = x]) /\ [h EXCEPT ![o] = x][o] = x
      /\ \A p \in Obj : p # o => [h EXCEPT ![o] = x][p] = h[p]
  BY <1>1, <1>5, HeapExcept
<1> HIDE DEF g
<1>7. Heap(g) /\ g[o] = x /\ \A p \in Obj : p # o => g[p] = h[p]
  BY <1>2, <1>6, Zenon
<1>8. \A p \in Obj : /\ g[p].kind = h[p].kind
                     /\ g[p].managed = h[p].managed /\ g[p].ro = h[p].ro
  BY <1>3, <1>5, <1>7
<1>9. Owned(g, st, H, T, R)
  BY <1>7, <1>8, SameFlags
<1>10. QED
  BY <1>9 DEF g

LEMMA WrittenOwned ==
  ASSUME Inv, call.phase = "exec", Room
  PROVE  /\ Written.obj \in Obj
         /\ Written.obj \in Held => Written.obj \in In(Fields)
         /\ Owned(Written.h, stack, Held, Tabled, {Written.obj} \ Held)
<1> DEFINE d == Destination
           r == Result(call.op, [i \in DOMAIN Top |-> heap[Top[i]]])
           g == [d.h EXCEPT ![d.obj].cells = r.cells, ![d.obj].vs = r.vs]
<1>1. Written.h = g /\ Written.obj = d.obj
  BY DEF Written
<1> HIDE DEF r, d
<1>2. /\ d.obj \in Obj /\ (d.obj \in Held => d.obj \in In(Fields))
      /\ Owned(d.h, stack, Held, Tabled, {d.obj} \ Held)
  BY DestinationOwned DEF d
<1>3. Owned(g, stack, Held, Tabled, {d.obj} \ Held)
  BY <1>2, ContentsOwned
<1>4. QED
  BY <1>1, <1>2, <1>3

\* The operation is done: its result is on the stack.
LEMMA DoneInv ==
  ASSUME Inv, call.phase = "exec", call' = [call EXCEPT !.phase = "pop"],
         UNCHANGED <<table, py>>, NEW st \in Seq(Pointer), NEW o, stack' = Append(st, o),
         In(st) \subseteq Known, Owned(heap', stack', Held, Tabled, {o} \ Held)
  PROVE  Inv'
<1>1. ProgramOK /\ CallOK
  BY ExecFacts
<1>2. call' = [phase |-> "pop", op |-> call.op, args |-> call.args,
               rest |-> call.rest, meant |-> call.meant]
  BY <1>1 DEF CallOK
<1>3. /\ call'.phase = "pop" /\ call'.op = call.op /\ call'.args = call.args
      /\ call'.rest = call.rest
      /\ call' = [phase |-> call'.phase, op |-> call'.op, args |-> call'.args,
                  rest |-> call'.rest, meant |-> call'.meant]
  BY <1>2
<1>4. /\ Len(stack') = Len(st) + 1 /\ stack'[Len(st) + 1] = o /\ stack' # << >>
      /\ SubSeq(stack', 1, Len(st)) = st /\ Len(st) \in Nat
  <2> DEFINE a == Append(st, o)
  <2>1. a \in Seq(Pointer \cup {o}) /\ Len(a) = Len(st) + 1 /\ a # << >> /\ a[Len(st) + 1] = o
        /\ Len(st) \in Nat /\ \A i \in 1..Len(st) : a[i] = st[i]
    BY SeqMonotonic, AppendProperties
  <2> HIDE DEF a
  <2>2. Len(st) \in 0..Len(a)
    BY <2>1
  <2> DEFINE left == SubSeq(a, 1, Len(st))
  <2>3. left \in Seq(Pointer \cup {o}) /\ Len(left) = Len(st) /\ \A i \in 1..Len(st) : left[i] = a[i]
    BY <2>1, <2>2, Parts
  <2> HIDE DEF left
  <2>4. left = st
    <3>1. st \in Seq(Pointer \cup {o})
      BY SeqMonotonic
    <3>2. \A i \in 1..Len(left) : left[i] = st[i]
      BY <2>1, <2>3
    <3>3. QED
      BY <2>3, <3>1, <3>2, SeqEqual
  <2>5. QED
    BY <2>1, <2>4 DEF a, left
<1>5. /\ Held' = Held /\ Known' = Known /\ Tabled' = Tabled /\ ProgramOK'
      /\ Pending' = {o} \ Held
  BY <1>1, <1>3, <1>4 DEF Held, Known, Tabled, ProgramOK, Pending
<1>6. CallOK'
  BY <1>1, <1>3, <1>5 DEF CallOK
<1>7. StackOK'
  <2>1. Len(stack') - 1 = Len(st)
    BY <1>4
  <2>2. In(SubSeq(stack', 1, Len(stack') - 1)) \subseteq Known
    BY <1>4, <2>1
  <2>3. QED
    BY <1>3, <1>4, <1>5, <2>2 DEF StackOK, In
<1>8. QED
  BY <1>5, <1>6, <1>7 DEF Inv

LEMMA ExecuteInv == ASSUME Inv, Execute PROVE Inv'
<1> DEFINE o == Written.obj
           D == In(Top) \ {o}
<1>1. /\ call.phase = "exec" /\ Room /\ heap' = DeleteFromPcrme(Written.h, D)
      /\ stack' = Append(Base, o) /\ call' = [call EXCEPT !.phase = "pop"]
      /\ UNCHANGED <<table, py>>
  BY DEF Execute
<1>2. /\ stack \in Seq(Pointer) /\ Len(stack) >= Arity(call.op)
      /\ In(stack) \subseteq Known \cup Tabled
      /\ In(Base) \subseteq Known /\ In(Fields) \subseteq Held
  BY <1>1, ExecFacts
<1>3. /\ o \in Obj /\ (o \in Held => o \in In(Fields))
      /\ Owned(Written.h, stack, Held, Tabled, {o} \ Held)
  BY <1>1, WrittenOwned
<1>4. /\ Base \in Seq(Pointer) /\ In(Base) \cup In(Top) = In(stack) /\ In(Fields) \subseteq In(Top)
  BY <1>2, TopFacts
<1> HIDE DEF o
<1>5. stack' \in Seq(Pointer) /\ In(stack') = In(Base) \cup {o}
  BY <1>1, <1>3, <1>4, InAppend, AppendProperties DEF Pointer
<1>6. Owned(heap', stack', Held, Tabled, {o} \ Held)
  <2>1. /\ D \subseteq Held \cup Tabled \cup ({o} \ Held) \cup {Dangling} /\ D \cap Held \subseteq In(stack)
        /\ In(stack') \cap Held \subseteq In(stack) /\ In(stack) \subseteq In(stack') \cup D
        /\ ({o} \ Held) \ D = {o} \ Held
    BY <1>2, <1>3, <1>4, <1>5 DEF Known
  <2> HIDE DEF D
  <2>2. Owned(DeleteFromPcrme(Written.h, D), stack', Held, Tabled, ({o} \ Held) \ D)
    BY <1>3, <1>5, <2>1, DropOwned
  <2>3. QED
    BY <1>1, <2>1, <2>2
<1>7. QED
  BY <1>1, <1>2, <1>4, <1>6, DoneInv

LEMMA DomainErrorInv == ASSUME Inv, DomainError PROVE Inv'
<1> DEFINE o == Written.obj
           D == In(Top) \cup {o}
<1>1. call.phase = "exec" /\ Room /\ Raise(DeleteFromPcrme(Written.h, D), Base)
  BY DEF DomainError
<1>2. /\ stack \in Seq(Pointer) /\ Len(stack) >= Arity(call.op) /\ ProgramOK
      /\ In(stack) \subseteq Known \cup Tabled
      /\ In(Base) \subseteq Known /\ In(Fields) \subseteq Held
  BY <1>1, ExecFacts
<1>3. /\ o \in Obj /\ (o \in Held => o \in In(Fields))
      /\ Owned(Written.h, stack, Held, Tabled, {o} \ Held)
  BY <1>1, WrittenOwned
<1>4. /\ Base \in Seq(Pointer) /\ In(Base) \cup In(Top) = In(stack) /\ In(Fields) \subseteq In(Top)
  BY <1>2, TopFacts
<1> HIDE DEF o
<1>5. Owned(DeleteFromPcrme(Written.h, D), Base, Held, Tabled, {})
  <2>1. /\ D \subseteq Held \cup Tabled \cup ({o} \ Held) \cup {Dangling} /\ D \cap Held \subseteq In(stack)
        /\ In(Base) \cap Held \subseteq In(stack) /\ In(stack) \subseteq In(Base) \cup D
        /\ ({o} \ Held) \ D = {}
    BY <1>2, <1>3, <1>4 DEF Known
  <2> HIDE DEF D
  <2>2. Owned(DeleteFromPcrme(Written.h, D), Base, Held, Tabled, ({o} \ Held) \ D)
    BY <1>3, <1>4, <2>1, DropOwned
  <2>3. QED
    BY <2>1, <2>2
<1>6. QED
  BY <1>1, <1>2, <1>5, RaiseInv


LEMMA ConvertInv == ASSUME Inv, Convert PROVE Inv'
<1> DEFINE o == Top[1]
           v == {Target(call.op)}
           x == [heap[o] EXCEPT !.vs = v]
           g == [heap EXCEPT ![o].vs = v]
<1>1. /\ call.phase = "exec" /\ Nop /\ heap' = g
      /\ call' = [call EXCEPT !.phase = "pop"] /\ UNCHANGED <<stack, table, py>>
  BY DEF Convert
<1>2. /\ Owned(heap, stack, Held, Tabled, {}) /\ stack \in Seq(Pointer)
      /\ Len(stack) >= Arity(call.op)
      /\ In(Base) \subseteq Known /\ In(Fields) \subseteq Held
  BY <1>1, ExecFacts
<1>3. Arity(call.op) = 1 /\ call.op # "lookup"
  BY <1>1 DEF Nop, IsConversion, Arity
<1>4. /\ Base \in Seq(Pointer) /\ Top \in Seq(Pointer) /\ Len(Top) = 1 /\ stack = Base \o Top
      /\ Fields = Top
  BY <1>2, <1>3, TopFacts
<1>5. o \in Obj /\ o \in In(Top) /\ Top = <<o>>
  <2>1. DOMAIN Top = 1..1
    BY <1>4, LenProperties
  <2>2. o \in Pointer /\ o \in Obj /\ o \in In(Top)
    <3>1. 1 \in 1..Len(Top)
      BY <1>4
    <3>2. o \in Pointer /\ o \in In(Top)
      BY <1>4, <3>1, InSeq
    <3>3. QED
      BY <1>2, <1>4, <3>2 DEF Owned
  <2>3. <<o>> \in Seq(Pointer) /\ Len(<<o>>) = 1 /\ \A i \in 1..Len(Top) : Top[i] = <<o>>[i]
    BY <1>4, <2>2
  <2>4. Top = <<o>>
    BY <1>4, <2>3, SeqEqual
  <2>5. QED
    BY <2>2, <2>4
<1> HIDE DEF o, v
<1>6. stack = Append(Base, o)
  BY <1>4, <1>5, AppendIsConcat
<1>7. Heap(heap) /\ Record(heap[o])
  BY <1>2, <1>5 DEF Owned, Heap
<1>8. Record(x) /\ x.kind = heap[o].kind /\ x.managed = heap[o].managed /\ x.ro = heap[o].ro
  BY <1>7, Members
<1>9. g = [heap EXCEPT ![o] = x]
  BY <1>5, <1>7 DEF Heap
<1> HIDE DEF x, g
<1>10. Heap(g) /\ g[o] = x /\ \A p \in Obj : p # o => g[p] = heap[p]
  <2>1. LET f == [heap EXCEPT ![o] = x] IN
        Heap(f) /\ f[o] = x /\ \A p \in Obj : p # o => f[p] = heap[p]
    BY <1>5, <1>7, <1>8, HeapExcept
  <2>2. QED
    BY <1>9, <2>1, Zenon
<1>11. \A p \in Obj : /\ g[p].kind = heap[p].kind
                      /\ g[p].managed = heap[p].managed /\ g[p].ro = heap[p].ro
  BY <1>8, <1>10
<1>12. Owned(g, stack, Held, Tabled, {})
  BY <1>2, <1>10, <1>11, SameFlags
<1>13. {o} \ Held = {}
  BY <1>2, <1>4, <1>5
<1>14. Owned(heap', stack', Held, Tabled, {o} \ Held) /\ stack' = Append(Base, o)
  BY <1>1, <1>6, <1>12, <1>13
<1>15. QED
  BY <1>1, <1>2, <1>4, <1>14, DoneInv

\* The result is released, and belongs to the program.
LEMMA Released ==
  ASSUME Inv, call.phase = "pop", Room
  PROVE  LET r == Release(stack[Len(stack)])
             below == SubSeq(stack, 1, Len(stack) - 1)
         IN /\ r.obj \in Obj /\ r.obj \notin Held /\ below \in Seq(Pointer) /\ In(below) \subseteq Known
            /\ Owned(r.h, below, Held \cup {r.obj}, Tabled, {})
            /\ Len(below) \in Nat
<1> DEFINE top == stack[Len(stack)]
           r == Release(top)
           below == SubSeq(stack, 1, Len(stack) - 1)
<1>1. /\ Owned(heap, stack, Held, Tabled, {top} \ Held) /\ stack \in Seq(Pointer)
      /\ stack # << >> /\ In(below) \subseteq Known
  BY DEF Inv, Pending, StackOK, Owned
<1>2. stack \in Seq(Pointer) /\ stack # << >>
  BY <1>1
<1>3. /\ below \in Seq(Pointer) /\ Len(below) \in Nat
      /\ In(stack) = In(below) \cup {top} /\ top \in In(stack)
  BY <1>2, LastMember
<1>4. Held \subseteq Obj /\ top \in Obj
  BY <1>1 DEF Owned
<1> HIDE DEF top, below
<1>5. CASE top \in Held
  <2> DEFINE u == [heap EXCEPT ![top].ro = FALSE]
             n == New(u)
             x == Object(u[top].kind, u[top].cells, u[top].vs, u[top].size)
  <2>1. {top} \ Held = {} /\ Owned(heap, stack, Held, Tabled, {}) /\ ~heap[top].managed
    <3>1. {top} \ Held = {}
      BY <1>5
    <3>2. QED
      BY <1>1, <1>3, <1>5, <3>1 DEF Owned
  <2>2. Owned(u, below, Held, Tabled, {})
    <3>1. In(below) \cap Held \subseteq In(stack) /\ In(stack) \subseteq In(below) \cup {top}
      BY <1>3
    <3>2. QED
      BY <1>3, <1>5, <2>1, <3>1, UnlockOwned
  <2>3. r = Clone(u, top) /\ r = [h |-> [u EXCEPT ![n] = x], obj |-> n]
    BY <2>1 DEF Release, Clone
  <2> HIDE DEF r, u
  <2>4. Alive(u) # Obj
    <3>1. Alive(u) = Alive(heap)
      BY <2>1, <2>2 DEF Owned
    <3>2. QED
      BY <3>1 DEF Room, Live, Alive
  <2>5. n \in Obj \ Alive(u)
    BY <2>4, FreshNew
  <2> HIDE DEF n
  <2>6. n \notin Held
    BY <2>2, <2>5 DEF Owned
  <2>7. Record(x) /\ x.kind = u[top].kind /\ ~x.ro
    BY ObjectRecord
  <2>8. x.kind # "free"
    BY <1>5, <2>2, <2>7 DEF Owned, Alive
  <2> HIDE DEF x
  <2>9. Owned([u EXCEPT ![n] = x], below, Held \cup {n}, Tabled, {})
    <3>1. In(below) \subseteq Held \cup Tabled \cup {} \cup {Dangling}
      BY <1>1 DEF Known
    <3>2. QED
      BY <2>2, <2>5, <2>7, <2>8, <3>1, NewOwned
  <2>10. r.obj = n /\ r.h = [u EXCEPT ![n] = x]
    BY <2>3
  <2>11. QED
    BY <1>1, <1>3, <2>5, <2>6, <2>9, <2>10 DEF r, top, below
<1>6. CASE top \notin Held
  <2> DEFINE g == [[heap EXCEPT ![top].ro = FALSE] EXCEPT ![top].managed = FALSE]
  <2>1. Owned(heap, stack, Held, Tabled, {top}) /\ heap[top].managed /\ ~heap[top].ro
    <3>1. {top} \ Held = {top}
      BY <1>6
    <3>2. QED
      BY <1>1, <3>1 DEF Owned, Loose
  <2>2. r = [h |-> g, obj |-> top]
    BY <2>1 DEF Release, SameObject
  <2>3. Owned(g, below, Held \cup {top}, Tabled, {})
    BY <1>1, <1>3, <2>1, ReleaseOwned DEF Known
  <2> HIDE DEF g, r
  <2>4. r.h = g /\ r.obj = top
    BY <2>2
  <2>5. QED
    BY <1>1, <1>3, <1>4, <1>6, <2>3, <2>4 DEF r, top, below
<1>7. QED
  BY <1>5, <1>6

LEMMA ReleasePopInv == ASSUME Inv, ReleasePop PROVE Inv'
<1> DEFINE r == Release(stack[Len(stack)])
           below == SubSeq(stack, 1, Len(stack) - 1)
           o == r.obj
<1>1. /\ call.phase = "pop" /\ Room /\ UNCHANGED table
      /\ IF call.rest = << >>
         THEN Leave(r.h, below, py.vars \cup {o})
         ELSE /\ heap' = r.h /\ stack' = below
              /\ py' = [py EXCEPT !.frames = @ \cup {o}]
              /\ call' = [call EXCEPT !.phase = "push", !.args = <<o, Head(call.rest)>>,
                                      !.rest = Tail(@)]
  BY DEF ReleasePop
<1>2. ProgramOK /\ CallOK
  BY DEF Inv
<1>3. /\ o \in Obj /\ o \notin Held /\ below \in Seq(Pointer) /\ In(below) \subseteq Known
      /\ Owned(r.h, below, Held \cup {o}, Tabled, {}) /\ Len(below) \in Nat
  BY <1>1, Released
<1>4. Tabled' = Tabled
  BY <1>1 DEF Tabled
<1> HIDE DEF r, below, o
<1>5. CASE call.rest = << >>
  <2> DEFINE v == py.vars \cup {o}
  <2>1. NoneObj \in v /\ v \cap py.frames = {} /\ v \cup py.frames = Held \cup {o}
    BY <1>2, <1>3 DEF ProgramOK, Held
  <2>2. Leave(r.h, below, v)
    BY <1>1, <1>5
  <2>3. In(below) \subseteq v \cup py.frames \cup {Dangling}
    BY <1>3, <2>1 DEF Known
  <2>4. Owned(r.h, below, v \cup py.frames, Tabled', {})
    BY <1>3, <1>4, <2>1
  <2> HIDE DEF v
  <2>5. QED
    BY <1>2, <2>1, <2>2, <2>3, <2>4, LeaveInv
<1>6. CASE call.rest # << >>
  <2> DEFINE next == Head(call.rest)
             args == <<o, next>>
             rest == Tail(call.rest)
  <2>1. /\ heap' = r.h /\ stack' = below /\ py' = [py EXCEPT !.frames = @ \cup {o}]
        /\ call' = [call EXCEPT !.phase = "push", !.args = args, !.rest = rest]
    BY <1>1, <1>6
  <2>2. py' = [vars |-> py.vars, frames |-> py.frames \cup {o}]
    BY <1>2, <2>1 DEF ProgramOK
  <2>3. next \in Held /\ rest \in Seq(Held)
    BY <1>2, <1>6, HeadTailProperties DEF CallOK
  <2>4. call' = [phase |-> "push", op |-> call.op, args |-> args, rest |-> rest,
                 meant |-> call.meant]
    BY <1>2, <2>1 DEF CallOK
  <2> HIDE DEF next, rest
  <2>5. args \in Seq(Held \cup {o} \cup {NotAField}) /\ Len(args) = 2 /\ args # << >>
    BY <2>3
  <2>6. rest \in Seq(Held \cup {o})
    BY <2>3, SeqMonotonic
  <2> HIDE DEF args
  <2>7. /\ call'.phase = "push" /\ call'.op = call.op /\ call'.args = args /\ call'.rest = rest
        /\ call' = [phase |-> call'.phase, op |-> call'.op, args |-> call'.args,
                    rest |-> call'.rest, meant |-> call'.meant]
    BY <2>4
  <2>8. Held' = Held \cup {o} /\ Pending' = {}
    BY <2>2, <2>7 DEF Held, Pending
  <2>9. Owned(heap, stack, Held, Tabled, Pending)'
    BY <1>3, <1>4, <2>1, <2>8
  <2>10. ProgramOK'
    BY <1>2, <1>3, <2>2 DEF ProgramOK, Held
  <2>11. Arity(call.op) = 2
    BY <1>2, <1>6 DEF CallOK
  <2>12. CallOK'
    BY <2>5, <2>6, <2>7, <2>8, <2>11 DEF CallOK
  <2>13. StackOK'
    <3>1. Len(stack') + Len(args) >= Arity(call.op)
      BY <1>3, <2>1, <2>5, <2>11
    <3>2. In(stack') \subseteq Known'
      BY <1>3, <2>1, <2>8 DEF Known
    <3>3. Present'
      <4>1. DOMAIN stack' = 1..Len(stack') /\ Len(stack') \in Nat
        BY <1>3, <2>1
      <4>2. Len(call'.args) = 2 /\ Arity(call'.op) = 2
        BY <2>5, <2>7, <2>11
      <4>3. \A i \in DOMAIN stack' : ~(Len(stack') + Len(call'.args) < i + Arity(call'.op))
        BY <4>1, <4>2
      <4>4. QED
        BY <4>3 DEF Present
    <3>4. QED
      BY <2>5, <2>7, <3>1, <3>2, <3>3 DEF StackOK
  <2>14. QED
    BY <2>9, <2>10, <2>12, <2>13 DEF Inv
<1>7. QED
  BY <1>5, <1>6

-------------------------------------------------------------------------------
(* Theorems *)

LEMMA StutterInv == ASSUME Inv, UNCHANGED vars PROVE Inv'
<1>1. /\ heap' = heap /\ stack' = stack /\ table' = table /\ py' = py /\ call' = call
  BY DEF vars
<1>2. /\ Held' = Held /\ Known' = Known /\ Tabled' = Tabled /\ Pending' = Pending
      /\ Base' = Base /\ Top' = Top /\ Fields' = Fields
  BY <1>1 DEF Held, Known, Tabled, Pending, Base, Top, Fields
<1>3. Owned(heap, stack, Held, Tabled, Pending)' /\ ProgramOK'
  BY <1>1, <1>2 DEF Inv, ProgramOK
<1>4. CallOK'
  BY <1>1, <1>2 DEF Inv, CallOK
<1>5. StackOK'
  BY <1>1, <1>2 DEF Inv, StackOK, Present
<1>6. QED
  BY <1>3, <1>4, <1>5 DEF Inv

LEMMA InvInductive == Inv /\ [Next]_vars => Inv'
<1> SUFFICES ASSUME Inv, [Next]_vars PROVE Inv'
  OBVIOUS
<1>1. CASE ReadMap
  BY <1>1, ReadMapInv
<1>2. CASE Forget
  BY <1>2, ForgetInv
<1>3. CASE Call
  BY <1>3, CallInv
<1>4. CASE SetClone
  BY <1>4, SetCloneInv
<1>5. CASE PushArgument
  BY <1>5, PushArgumentInv
<1>6. CASE Rejected
  BY <1>6, RejectedInv
<1>7. CASE LoadFails
  BY <1>7, LoadFailsInv
<1>8. CASE Checked
  BY <1>8, CheckedInv
<1>9. CASE Execute
  BY <1>9, ExecuteInv
<1>10. CASE DomainError
  BY <1>10, DomainErrorInv
<1>11. CASE Convert
  BY <1>11, ConvertInv
<1>12. CASE ReleasePop
  BY <1>12, ReleasePopInv
<1>13. CASE UNCHANGED vars
  BY <1>13, StutterInv
<1>14. QED
  BY <1>1, <1>2, <1>3, <1>4, <1>5, <1>6, <1>7, <1>8, <1>9, <1>10, <1>11, <1>12, <1>13 DEF Next

LEMMA InvImpliesOneOwner == Inv => OneOwner
<1> SUFFICES ASSUME Inv PROVE OneOwner
  OBVIOUS
<1> DEFINE result == IF call.phase = "pop" THEN {stack[Len(stack)]} ELSE {}
<1>1. /\ Owned(heap, stack, Held, Tabled, Pending) /\ StackOK /\ CallOK
  BY DEF Inv
<1>2. Live = Held \cup Tabled \cup Pending /\ Tabled \cap Held = {}
  BY <1>1 DEF Owned, Live, Alive
<1>3. Held \cup Pending = Held \cup result
  BY DEF Pending
<1>4. In(stack) \subseteq Held \cup Tabled \cup result \cup {Dangling}
  <2>1. CASE call.phase \in {"idle", "push", "check", "undefined"}
    BY <1>1, <2>1 DEF StackOK, Known
  <2>2. CASE call.phase = "exec"
    BY <1>1, <2>2 DEF StackOK, Known
  <2>3. CASE call.phase = "pop"
    <3>1. /\ stack \in Seq(Pointer) /\ stack # << >>
          /\ In(SubSeq(stack, 1, Len(stack) - 1)) \subseteq Known
      BY <1>1, <2>3 DEF StackOK, Owned
    <3>2. In(stack) = In(SubSeq(stack, 1, Len(stack) - 1)) \cup {stack[Len(stack)]}
      BY <3>1, LastMember
    <3>3. QED
      BY <2>3, <3>1, <3>2 DEF Known
  <2>4. QED
    BY <1>1, <2>1, <2>2, <2>3 DEF CallOK
<1>5. call.phase \in {"check", "exec"} => In(Top) \subseteq Held \cup Tabled
  BY <1>1, TopHeld DEF StackOK
<1> HIDE DEF result
<1>6. Held = py.vars \cup py.frames
  BY DEF Held
<1>7. QED
  BY <1>2, <1>3, <1>4, <1>5, <1>6 DEF OneOwner, result

\* Every object has one owner: nothing that the program, the table or the
\* operation in progress refers to is deleted, and nothing is left behind; what
\* Python deletes is not asked to be off the stack.
THEOREM OneOwnerCorrect == Spec => []OneOwner
<1>1. Spec => []Inv
  BY InitInv, InvInductive, PTL DEF Spec
<1>2. QED
  BY <1>1, InvImpliesOneOwner, PTL

\* A field of the program that the engine has popped is not locked.
THEOREM FlagsCorrect == Spec => []OutsideNotReadOnly
<1>1. Spec => []Inv
  BY InitInv, InvInductive, PTL DEF Spec
<1>2. Inv => OutsideNotReadOnly
  BY DEF Inv, Owned, Held, OutsideNotReadOnly
<1>3. QED
  BY <1>1, <1>2, PTL

-------------------------------------------------------------------------------
(* What an object contains *)

Same(x, y) == Value(x) = Value(y)

LEMMA ValueFields ==
  \A x, y : Same(x, y) <=> x.cells = y.cells /\ x.vs = y.vs /\ x.size = y.size
BY DEF Same, Value

\* Flags say nothing of what an object contains.
LEMMA FlagsSame ==
  ASSUME NEW x, Record(x)
  PROVE  /\ \A r \in BOOLEAN : Same([x EXCEPT !.ro = r], x)
         /\ \A m \in BOOLEAN : Same([x EXCEPT !.managed = m], x)
         /\ \A v : LET y == [x EXCEPT !.vs = v] IN
                   y.cells = x.cells /\ y.vs = v /\ y.size = x.size
         /\ \A c : LET y == [x EXCEPT !.cells = c] IN
                   y.cells = c /\ y.vs = x.vs /\ y.size = x.size
<1>1. PICK k, a, b, z : \E n, w \in BOOLEAN : x = Rec(k, a, b, z, n, w)
  BY DEF Record
<1>2. PICK n \in BOOLEAN, w \in BOOLEAN : x = Rec(k, a, b, z, n, w)
  BY <1>1
<1>3. QED
  BY <1>2, ValueFields DEF Rec

LEMMA ObjectContents ==
  \A kind, cells, vs, size :
    LET x == Object(kind, cells, vs, size) IN
    x.cells = cells /\ x.vs = vs /\ x.size = size
BY DEF Object

\* One object gets other contents.
LEMMA PutHeap ==
  ASSUME NEW h, Heap(h), NEW o \in Obj, NEW x
  PROVE  /\ [h EXCEPT ![o] = x][o] = x
         /\ \A p \in Obj : p # o => [h EXCEPT ![o] = x][p] = h[p]
BY DEF Heap

\* What the program has on the stack is not managed, and is not deleted.
LEMMA DropSame ==
  ASSUME NEW h, NEW st, NEW H, NEW T, NEW R, Owned(h, st, H, T, R),
         NEW D, D \cap H \subseteq In(st)
  PROVE  \A o \in H : Same(DeleteFromPcrme(h, D)[o], h[o])
<1> SUFFICES ASSUME NEW o \in H PROVE Same(DeleteFromPcrme(h, D)[o], h[o])
  OBVIOUS
<1>1. o \in Obj /\ Record(h[o])
  BY DEF Owned, Heap
<1>2. o \in D => ~h[o].managed
  BY DEF Owned
<1>3. DeleteFromPcrme(h, D)[o] = IF o \notin D THEN h[o] ELSE [h[o] EXCEPT !.ro = FALSE]
  BY <1>1, <1>2 DEF DeleteFromPcrme
<1>4. Same([h[o] EXCEPT !.ro = FALSE], h[o]) /\ Same(h[o], h[o])
  BY <1>1, FlagsSame DEF Same
<1>5. QED
  BY <1>3, <1>4

LEMMA DeletedSame ==
  ASSUME NEW h, NEW S, NEW o \in Obj, o \notin S
  PROVE  Deleted(h, S)[o] = h[o]
BY DEF Deleted

LEMMA PushSame ==
  ASSUME NEW h, Heap(h), NEW o \in Obj
  PROVE  LET g == [h EXCEPT ![o].managed = FALSE, ![o].ro = TRUE] IN
         /\ \A p \in Obj : Same(g[p], h[p]) /\ (h[p].ro => g[p].ro)
         /\ g[o].ro
<1> DEFINE y == [h[o] EXCEPT !.managed = FALSE]
           x == [y EXCEPT !.ro = TRUE]
           g == [h EXCEPT ![o].managed = FALSE, ![o].ro = TRUE]
<1>1. Record(h[o]) /\ FALSE \in BOOLEAN /\ TRUE \in BOOLEAN
  BY DEF Heap
<1>2. Record(y) /\ Same(y, h[o])
  BY <1>1, Members, FlagsSame
<1> HIDE DEF y
<1>3. Record(x) /\ Same(x, y) /\ x.ro = TRUE
  BY <1>1, <1>2, Members, FlagsSame
<1>4. g = [h EXCEPT ![o] = x]
  BY DEF Heap, y
<1> HIDE DEF x
<1>5. \A p \in Obj : [h EXCEPT ![o] = x][p] = IF p = o THEN x ELSE h[p]
  BY PutHeap
<1> HIDE DEF g
<1>6. \A p \in Obj : g[p] = IF p = o THEN x ELSE h[p]
  BY <1>4, <1>5
<1>7. QED
  BY <1>2, <1>3, <1>6 DEF Same, g

-------------------------------------------------------------------------------
(* What an operator computes *)

\* For a clone of size z: whether an operation is accepted, and its result.
AcceptedAt(z, op, x) ==
  LET f == FieldsOf(op, x) IN
  /\ \A i \in DOMAIN f : f[i].size \in {0, z} /\ ArgScales(op, f)[i] # {}
  /\ Cardinality(ResultScales(op, f)) = 1

Outcome(z, op, x) == IF AcceptedAt(z, op, x) THEN Result(op, x) ELSE Free

LEMMA AtSpace ==
  \A op, x : /\ Accepted(op, x) <=> AcceptedAt(space, op, x)
             /\ ResultOf(op, x) = Outcome(space, op, x)
<1>1. \A op, x : Accepted(op, x) <=> AcceptedAt(space, op, x)
  BY DEF Accepted, AcceptedAt
<1>2. QED
  BY <1>1 DEF ResultOf, Outcome

\* Two sequences of objects that contain the same.
Alike(f, g) == DOMAIN f = DOMAIN g /\ \A i \in DOMAIN f : Same(f[i], g[i])

LEMMA AlikeScales ==
  ASSUME NEW op, NEW f, NEW g, Alike(f, g), op = "cover" => {1, 2} \subseteq DOMAIN f,
         IsConversion(op) => 1 \in DOMAIN f
  PROVE  /\ \A i \in DOMAIN f : ArgScales(op, f)[i] = ArgScales(op, g)[i]
         /\ ResultScales(op, f) = ResultScales(op, g)
         /\ CellsOf(op, f) = CellsOf(op, g)
<1>1. /\ DOMAIN f = DOMAIN g
      /\ \A i \in DOMAIN f : f[i].cells = g[i].cells /\ f[i].vs = g[i].vs /\ f[i].size = g[i].size
  BY ValueFields DEF Alike
<1>2. op = "cover" => f[1].vs = g[1].vs /\ f[2].vs = g[2].vs
  BY <1>1
<1>3. ArgScales(op, f) = ArgScales(op, g)
  BY <1>1, <1>2 DEF ArgScales
<1>4. ResultScales(op, f) = ResultScales(op, g)
  BY <1>3 DEF ResultScales
<1>5. IsConversion(op) => f[1].cells = g[1].cells /\ (IsNop(op, f[1]) <=> IsNop(op, g[1]))
  BY <1>1 DEF IsNop
<1>6. [i \in DOMAIN f |-> f[i].cells] = [i \in DOMAIN g |-> g[i].cells]
  BY <1>1
<1>7. CellsOf(op, f) = CellsOf(op, g)
  BY <1>5, <1>6 DEF CellsOf
<1>8. QED
  BY <1>3, <1>4, <1>7

\* The operands that an operator gets.
Wide(op, f) == DOMAIN f = (IF op \in {"badd", "cover"} THEN {1, 2} ELSE {1})

LEMMA WideFields ==
  ASSUME NEW op, NEW f, Wide(op, f)
  PROVE  /\ 1 \in DOMAIN f /\ (op = "cover" => {1, 2} \subseteq DOMAIN f)
BY DEF Wide

\* Fields that fit have the size of the clone or none.
LEMMA SizeFits ==
  ASSUME NEW z, NEW f, \A i \in DOMAIN f : f[i].size \in {0, z}
  PROVE  SizeOf(f) = IF \E i \in DOMAIN f : f[i].size # 0 THEN z ELSE 0
<1>1. CASE \E i \in DOMAIN f : f[i].size # 0
  <2> DEFINE c == CHOOSE i \in DOMAIN f : f[i].size # 0
  <2>1. c \in DOMAIN f /\ f[c].size # 0
    BY <1>1, Zenon
  <2>2. SizeOf(f) = f[c].size
    BY <1>1, Zenon DEF SizeOf
  <2> HIDE DEF c
  <2>3. QED
    BY <1>1, <2>1, <2>2
<1>2. CASE ~\E i \in DOMAIN f : f[i].size # 0
  BY <1>2, Zenon DEF SizeOf
<1>3. QED
  BY <1>1, <1>2

\* What is computed depends on what the operands contain.
LEMMA AlikeResult ==
  ASSUME NEW z, NEW op, NEW x, NEW y, Wide(op, FieldsOf(op, x)),
         Alike(FieldsOf(op, x), FieldsOf(op, y))
  PROVE  /\ AcceptedAt(z, op, x) <=> AcceptedAt(z, op, y)
         /\ Same(Outcome(z, op, x), Outcome(z, op, y))
<1> DEFINE f == FieldsOf(op, x)
           g == FieldsOf(op, y)
<1>1. /\ \A i \in DOMAIN f : ArgScales(op, f)[i] = ArgScales(op, g)[i]
      /\ ResultScales(op, f) = ResultScales(op, g)
      /\ CellsOf(op, f) = CellsOf(op, g)
  BY WideFields, AlikeScales
<1>2. DOMAIN f = DOMAIN g /\ \A i \in DOMAIN f : f[i].size = g[i].size
  BY ValueFields DEF Alike
<1> HIDE DEF f, g
<1>3. AcceptedAt(z, op, x) <=> AcceptedAt(z, op, y)
  BY <1>1, <1>2 DEF AcceptedAt, f, g
<1>4. CASE AcceptedAt(z, op, x)
  <2>1. \A i \in DOMAIN f : f[i].size \in {0, z}
    BY <1>4 DEF AcceptedAt, f
  <2>2. \A i \in DOMAIN g : g[i].size \in {0, z}
    BY <1>2, <2>1
  <2>3. SizeOf(f) = SizeOf(g)
    <3>1. SizeOf(f) = IF \E i \in DOMAIN f : f[i].size # 0 THEN z ELSE 0
      BY <2>1, SizeFits
    <3>2. SizeOf(g) = IF \E i \in DOMAIN g : g[i].size # 0 THEN z ELSE 0
      BY <2>2, SizeFits
    <3>3. QED
      BY <1>2, <3>1, <3>2
  <2>4. Result(op, x) = Result(op, y)
    BY <1>1, <2>3 DEF Result, f, g
  <2>5. QED
    BY <1>3, <1>4, <2>4 DEF Outcome, Same
<1>5. CASE ~AcceptedAt(z, op, x)
  BY <1>3, <1>5 DEF Outcome, Same
<1>6. QED
  BY <1>3, <1>4, <1>5

\* The operands narrowed to the scales that the operator allows.
Narrow(op, f, g) ==
  /\ DOMAIN f = DOMAIN g
  /\ \A i \in DOMAIN f : /\ g[i].cells = f[i].cells /\ g[i].size = f[i].size
                         /\ g[i].vs = ArgScales(op, f)[i]

\* Narrowing changes nothing of the result.
LEMMA NarrowResult ==
  ASSUME NEW z, NEW op, NEW x, NEW y, Wide(op, FieldsOf(op, x)), AcceptedAt(z, op, x),
         Narrow(op, FieldsOf(op, x), FieldsOf(op, y))
  PROVE  AcceptedAt(z, op, y) /\ Same(Outcome(z, op, x), Outcome(z, op, y))
<1> DEFINE f == FieldsOf(op, x)
           g == FieldsOf(op, y)
<1>1. /\ DOMAIN f = DOMAIN g
      /\ \A i \in DOMAIN f : /\ g[i].cells = f[i].cells /\ g[i].size = f[i].size
                             /\ g[i].vs = ArgScales(op, f)[i]
  BY DEF Narrow
<1>2. Wide(op, f) /\ 1 \in DOMAIN f /\ (op = "cover" => {1, 2} \subseteq DOMAIN f)
  BY WideFields
<1>3. /\ \A i \in DOMAIN f : f[i].size \in {0, z} /\ ArgScales(op, f)[i] # {}
      /\ Cardinality(ResultScales(op, f)) = 1
  BY DEF AcceptedAt
<1>4. IsConversion(op) => op \notin {"abs", "badd", "cover"}
  BY DEF IsConversion
<1> HIDE DEF f, g
<1>5. [i \in DOMAIN f |-> f[i].cells] = [i \in DOMAIN g |-> g[i].cells]
  BY <1>1
<1>6. /\ \A i \in DOMAIN f : ArgScales(op, g)[i] = ArgScales(op, f)[i]
      /\ ResultScales(op, g) = ResultScales(op, f)
      /\ CellsOf(op, g) = CellsOf(op, f)
  <2>1. CASE op \in {"abs", "badd"}
    <3>1. \A h : \A i \in DOMAIN h : ArgScales(op, h)[i] = h[i].vs \cap {"S"}
      BY <2>1 DEF ArgScales
    <3>2. ASSUME NEW i \in DOMAIN f PROVE ArgScales(op, g)[i] = ArgScales(op, f)[i]
      <4>1. i \in DOMAIN g /\ g[i].vs = ArgScales(op, f)[i]
        BY <1>1
      <4>2. /\ ArgScales(op, f)[i] = f[i].vs \cap {"S"}
            /\ ArgScales(op, g)[i] = g[i].vs \cap {"S"}
        BY <3>1, <4>1
      <4>3. QED
        BY <4>1, <4>2
    <3>3. ResultScales(op, g) = ResultScales(op, f)
      BY <2>1 DEF ResultScales
    <3>4. QED
      BY <1>4, <1>5, <2>1, <3>2, <3>3 DEF CellsOf
  <2>2. CASE op = "cover"
    <3>1. \A h : \A i \in DOMAIN h : ArgScales(op, h)[i] = h[1].vs \cap h[2].vs
      BY <2>2 DEF ArgScales
    <3>2. g[1].vs = f[1].vs \cap f[2].vs /\ g[2].vs = f[1].vs \cap f[2].vs
      BY <1>1, <1>2, <2>2, <3>1
    <3>3. g[1].vs \cap g[2].vs = f[1].vs \cap f[2].vs
      BY <3>2
    <3>4. ASSUME NEW i \in DOMAIN f PROVE ArgScales(op, g)[i] = ArgScales(op, f)[i]
      <4>1. i \in DOMAIN g
        BY <1>1
      <4>2. /\ ArgScales(op, f)[i] = f[1].vs \cap f[2].vs
            /\ ArgScales(op, g)[i] = g[1].vs \cap g[2].vs
        BY <3>1, <4>1
      <4>3. QED
        BY <3>3, <4>2
    <3>5. ResultScales(op, g) = ResultScales(op, f)
      BY <1>1, <1>2, <2>2, <3>4 DEF ResultScales
    <3>6. QED
      BY <1>4, <1>5, <2>2, <3>4, <3>5 DEF CellsOf
  <2>3. CASE op \notin {"abs", "badd", "cover"}
    <3>1. \A h : \A i \in DOMAIN h : ArgScales(op, h)[i] = h[i].vs
      BY <2>3 DEF ArgScales
    <3>2. \A i \in DOMAIN f : g[i].vs = f[i].vs
      BY <1>1, <3>1
    <3>3. ResultScales(op, g) = ResultScales(op, f)
      BY <2>3 DEF ResultScales
    <3>4. g[1].cells = f[1].cells /\ (IsNop(op, f[1]) <=> IsNop(op, g[1]))
      BY <1>1, <1>2, <3>2 DEF IsNop
    <3>5. QED
      BY <1>1, <1>5, <3>1, <3>2, <3>3, <3>4 DEF CellsOf
  <2>4. QED
    BY <2>1, <2>2, <2>3
<1>7. AcceptedAt(z, op, y)
  BY <1>1, <1>3, <1>6 DEF AcceptedAt, f, g
<1>8. SizeOf(f) = SizeOf(g)
  <2>1. /\ \A i \in DOMAIN f : f[i].size \in {0, z}
        /\ \A i \in DOMAIN g : g[i].size \in {0, z}
    BY <1>1, <1>3
  <2>2. SizeOf(f) = IF \E i \in DOMAIN f : f[i].size # 0 THEN z ELSE 0
    BY <2>1, SizeFits
  <2>3. SizeOf(g) = IF \E i \in DOMAIN g : g[i].size # 0 THEN z ELSE 0
    BY <2>1, SizeFits
  <2>4. QED
    BY <1>1, <2>2, <2>3
<1>9. Result(op, x) = Result(op, y)
  BY <1>6, <1>8 DEF Result, f, g
<1>10. QED
  BY <1>7, <1>9 DEF Outcome, Same

\* The arguments of an operation, of which a lookup's first is no field.
Shaped(op, x) == x = [i \in 1..Arity(op) |-> x[i]]

LEMMA OneTwo == 1..1 = {1} /\ 1..2 = {1, 2}
OBVIOUS

LEMMA FunctionSeq ==
  ASSUME NEW n \in Nat, NEW S, NEW x \in [1..n -> S]
  PROVE  x \in Seq(S) /\ Len(x) = n
OBVIOUS

LEMMA TailOfTwo ==
  ASSUME NEW S, NEW x \in Seq(S), Len(x) = 2
  PROVE  Tail(x) = <<x[2]>> /\ DOMAIN Tail(x) = {1} /\ Tail(x)[1] = x[2]
<1> DEFINE t == Tail(x)
<1>1. x # << >>
  BY EmptySeq
<1>2. /\ t \in Seq(S) /\ Len(t) = Len(x) - 1
      /\ \A i \in 1..Len(t) : t[i] = x[i + 1]
  BY <1>1, HeadTailProperties
<1> HIDE DEF t
<1>3. Len(t) = 1 /\ t[1] = x[2] /\ DOMAIN t = {1}
  BY <1>2
<1>4. t = <<x[2]>>
  <2>1. t = [i \in 1..1 |-> t[i]]
    BY <1>2, <1>3
  <2>2. QED
    BY <1>3, <2>1
<1>5. QED
  BY <1>3, <1>4 DEF t

LEMMA FieldsShape ==
  ASSUME NEW op \in Operators, NEW x, Shaped(op, x)
  PROVE  /\ Wide(op, FieldsOf(op, x))
         /\ op # "lookup" => FieldsOf(op, x) = x
         /\ op = "lookup" => FieldsOf(op, x)[1] = x[2] /\ FieldsOf(op, x) = <<x[2]>>
<1>1. CASE op = "lookup"
  <2> DEFINE S == {x[1], x[2]}
  <2>1. Arity(op) = 2
    BY <1>1 DEF Arity
  <2>2. x = [i \in 1..2 |-> x[i]]
    BY <2>1 DEF Shaped
  <2>3. x \in [1..2 -> S]
    BY <2>2, OneTwo
  <2> HIDE DEF S
  <2>4. x \in Seq(S) /\ Len(x) = 2
    BY <2>3, FunctionSeq
  <2>5. Tail(x) = <<x[2]>> /\ DOMAIN Tail(x) = {1} /\ Tail(x)[1] = x[2]
    BY <2>4, TailOfTwo
  <2>6. QED
    BY <1>1, <2>5 DEF FieldsOf, Wide
<1>2. CASE op # "lookup"
  <2>1. FieldsOf(op, x) = x
    BY <1>2 DEF FieldsOf
  <2>2. DOMAIN x = 1..Arity(op)
    BY DEF Shaped
  <2>3. DOMAIN x = (IF op \in {"badd", "cover"} THEN {1, 2} ELSE {1})
    BY <1>2, <2>2, OneTwo DEF Arity
  <2>4. QED
    BY <1>2, <2>1, <2>3 DEF Wide
<1>3. QED
  BY <1>1, <1>2

LEMMA ShapedAlike ==
  ASSUME NEW op \in Operators, NEW x, NEW y, Shaped(op, x), Shaped(op, y),
         \A i \in 1..Arity(op) : (op = "lookup" /\ i = 1) \/ Same(x[i], y[i])
  PROVE  Alike(FieldsOf(op, x), FieldsOf(op, y))
<1>1. /\ Wide(op, FieldsOf(op, x)) /\ Wide(op, FieldsOf(op, y))
      /\ op # "lookup" => FieldsOf(op, x) = x /\ FieldsOf(op, y) = y
      /\ op = "lookup" => FieldsOf(op, x)[1] = x[2] /\ FieldsOf(op, y)[1] = y[2]
  BY FieldsShape
<1>2. CASE op = "lookup"
  <2>1. Same(x[2], y[2])
    BY <1>2 DEF Arity
  <2>2. QED
    BY <1>1, <1>2, <2>1 DEF Alike, Wide
<1>3. CASE op # "lookup"
  <2>1. DOMAIN x = 1..Arity(op) /\ DOMAIN y = 1..Arity(op)
    BY DEF Shaped
  <2>2. QED
    BY <1>1, <1>3, <2>1 DEF Alike
<1>4. QED
  BY <1>2, <1>3

LEMMA ShapedResult ==
  ASSUME NEW z, NEW op \in Operators, NEW x, NEW y, Shaped(op, x), Shaped(op, y),
         \A i \in 1..Arity(op) : (op = "lookup" /\ i = 1) \/ Same(x[i], y[i])
  PROVE  /\ AcceptedAt(z, op, x) <=> AcceptedAt(z, op, y)
         /\ Same(Outcome(z, op, x), Outcome(z, op, y))
BY FieldsShape, ShapedAlike, AlikeResult

\* What a call gives in the end: cover goes on with the third argument.
Goes(z, op, rest, h, r) ==
  IF rest = << >> THEN Value(r) ELSE Value(Outcome(z, op, <<r, h[rest[1]]>>))

LEMMA GoesAlike ==
  ASSUME NEW z, NEW op \in Operators, NEW rest, rest # << >> => op = "cover",
         NEW r, NEW s, Same(r, s), NEW h, NEW g,
         rest # << >> => Same(h[rest[1]], g[rest[1]])
  PROVE  Goes(z, op, rest, h, r) = Goes(z, op, rest, g, s)
<1>1. CASE rest = << >>
  BY <1>1 DEF Goes, Same
<1>2. CASE rest # << >>
  <2> DEFINE a == h[rest[1]]
             b == g[rest[1]]
             x == <<r, a>>
             y == <<s, b>>
  <2>1. op = "cover" /\ Arity(op) = 2 /\ Same(a, b)
    BY <1>2 DEF Arity
  <2> HIDE DEF a, b
  <2>2. Shaped(op, x) /\ Shaped(op, y)
    BY <2>1, OneTwo DEF Shaped
  <2>3. x[1] = r /\ x[2] = a /\ y[1] = s /\ y[2] = b
    OBVIOUS
  <2> HIDE DEF x, y
  <2>4. \A i \in 1..Arity(op) : Same(x[i], y[i])
    BY <2>1, <2>3, OneTwo
  <2>5. Same(Outcome(z, op, x), Outcome(z, op, y))
    BY <2>2, <2>4, ShapedResult
  <2>6. QED
    BY <1>2, <2>5 DEF Goes, Same, x, y, a, b
<1>3. QED
  BY <1>1, <1>2

-------------------------------------------------------------------------------
(* An operation as the program means it *)

\* How many arguments were pushed, the i-th of all, and what they contain.
Pushed == Arity(call.op) - Len(call.args)
Arg(i) == IF i <= Pushed THEN stack[Len(stack) - Pushed + i] ELSE call.args[i - Pushed]
Args   == [i \in 1..Arity(call.op) |-> heap[Arg(i)]]

\* Scales of a field that an operator made or that was read; of a literal, and
\* of what is not a field.
Definite   == {{"N"}, {"S"}}
Indefinite == {{}, Scales}

Scaled ==
  /\ \A o \in Held : heap[o].vs \in Definite \cup Indefinite
  /\ \A o \in Maps : heap[o].vs \in Definite
  /\ call.phase = "pop" => heap[stack[Len(stack)]].vs \in Definite

Calling == InProgress =>
  /\ call.op \in Operators
  /\ Len(call.args) <= Arity(call.op) /\ (call.phase # "push" => call.args = << >>)
  /\ call.rest # << >> => /\ call.op = "cover" /\ Len(call.rest) = 1
                          /\ call.rest[1] \in Maps

Asking == call.phase \in {"push", "check", "exec"}

\* The arguments that were pushed are locked: what is overwritten is a clone.
Locked == Asking /\ InPlace => \A i \in 1..Pushed : heap[Arg(i)].ro

\* What the call has to give is what comes of its arguments as they are now.
Meant ==
  /\ Asking /\ NotAField \notin In(call.args) =>
       call.meant = Goes(space, call.op, call.rest, heap, Outcome(space, call.op, Args))
  /\ call.phase = "exec" => AcceptedAt(space, call.op, Args)
  /\ call.phase = "pop" =>
       call.meant = Goes(space, call.op, call.rest, heap, heap[stack[Len(stack)]])

PureInv == Inv /\ Scaled /\ Calling /\ Locked /\ Meant

\* No field has the scale between nominal and scalar.
NoOrdinals == ReadScales \subseteq {"N", "S"} /\ "ordinal" \notin Operators

LEMMA ShapedArgs == Shaped(call.op, Args)
BY DEF Shaped, Args

LEMMA ArityValues == \A op : Arity(op) \in {1, 2} /\ Arity(op) \in Nat
BY DEF Arity

\* Intersections of scales.
LEMMA Meets ==
  ASSUME NEW v \in Definite \cup Indefinite, NEW w \in Definite \cup Indefinite
  PROVE  /\ v \cap w \in Definite \cup Indefinite /\ v \cap {"S"} \in Definite \cup Indefinite
         /\ v \in Definite /\ v \cap w # {} => v \cap w = v /\ w \cap v = v
         /\ v \in Definite /\ v \cap {"S"} # {} => v \cap {"S"} = v
BY DEF Definite, Indefinite, Scales

LEMMA OneScale ==
  ASSUME NEW v \in Definite \cup Indefinite, Cardinality(v) = 1
  PROVE  v \in Definite
<1>1. PICK e : v = {e}
  <2>1. IsFiniteSet(v)
    <3>1. IsFiniteSet({}) /\ IsFiniteSet({"N"}) /\ IsFiniteSet({"S"})
      BY FS_EmptySet, FS_Singleton
    <3>2. IsFiniteSet(({"N"} \cup {"S"}) \cup {"O"})
      BY <3>1, FS_Singleton, FS_Union
    <3>3. Scales = ({"N"} \cup {"S"}) \cup {"O"}
      BY DEF Scales
    <3>4. QED
      BY <3>1, <3>2, <3>3 DEF Definite, Indefinite
  <2>2. QED
    BY <2>1, FS_Singleton
<1>2. QED
  BY <1>1 DEF Definite, Indefinite, Scales

-------------------------------------------------------------------------------
(* Steps of the program, and of the engine, as steps on values *)

HeldSame == Maps' = Maps /\ \A o \in Maps : Same(heap'[o], heap[o])

LEMMA SameValues == ASSUME HeldSame PROVE ValuesOf(Maps)' = ValuesOf(Maps)
<1>1. Maps' = Maps /\ \A o \in Maps : Value(heap'[o]) = Value(heap[o])
  BY DEF HeldSame, Same
<1>2. ValuesOf(Maps)' = [o \in Maps' |-> Value(heap'[o])]
  BY DEF ValuesOf
<1>3. ValuesOf(Maps) = [o \in Maps |-> Value(heap[o])]
  BY DEF ValuesOf
<1>4. QED
  BY <1>1, <1>2, <1>3

LEMMA PureStutter ==
  ASSUME HeldSame, InProgress' <=> InProgress, InProgress => call'.meant = call.meant
  PROVE  UNCHANGED Pure!vars
<1>1. ValuesOf(Maps)' = ValuesOf(Maps)
  BY SameValues
<1>2. (IF InProgress THEN <<call.meant>> ELSE << >>)' = IF InProgress THEN <<call.meant>> ELSE << >>
  BY Zenon
<1>3. QED
  BY <1>1, <1>2 DEF Pure!vars

\* Between the operations nothing is asked.
LEMMA IdleNot == (IsIdle => ~InProgress) /\ (IsIdle' => ~InProgress')
BY DEF IsIdle, InProgress

LEMMA PureRaise == ASSUME HeldSame, InProgress, IsIdle' PROVE Pure!Raise
<1>1. ValuesOf(Maps)' = ValuesOf(Maps)
  BY SameValues
<1>2. QED
  BY <1>1, IdleNot DEF Pure!Raise

\* The program gets a field.
LEMMA PureMore ==
  ASSUME NEW o, o \notin Maps, Maps' = Maps \cup {o},
         \A p \in Maps : Same(heap'[p], heap[p])
  PROVE  /\ Pure!OneMore
         /\ DOMAIN ValuesOf(Maps)' \ DOMAIN ValuesOf(Maps) = {o}
         /\ ValuesOf(Maps)'[o] = Value(heap'[o])
<1>1. \A p \in Maps : Value(heap'[p]) = Value(heap[p])
  BY DEF Same
<1>2. ValuesOf(Maps)' = [p \in Maps \cup {o} |-> Value(heap'[p])]
  BY DEF ValuesOf
<1>3. ValuesOf(Maps) = [p \in Maps |-> Value(heap[p])]
  BY DEF ValuesOf
<1> DEFINE new == ValuesOf(Maps)'
           old == ValuesOf(Maps)
<1>4. /\ DOMAIN new = Maps \cup {o} /\ DOMAIN old = Maps /\ new[o] = Value(heap'[o])
      /\ DOMAIN new \ DOMAIN old = {o}
  BY <1>2, <1>3
<1>5. new = [x \in DOMAIN old \cup {o} |-> IF x = o THEN new[o] ELSE old[x]]
  BY <1>1, <1>2, <1>3
<1>6. Pure!OneMore
  <2>1. o \in DOMAIN new \ DOMAIN old
    BY <1>4
  <2>2. QED
    BY <1>5, <2>1, Zenon DEF Pure!OneMore
<1>7. QED
  BY <1>4, <1>6

-------------------------------------------------------------------------------
(* Facts of a call *)

LEMMA CallFacts ==
  ASSUME PureInv, InProgress
  PROVE  /\ call.op \in Operators /\ ProgramOK /\ CallOK
         /\ call.rest # << >> => /\ call.op = "cover" /\ Len(call.rest) = 1
                                 /\ call.rest[1] \in Maps
         /\ Maps \subseteq Held /\ Held \subseteq Obj /\ Heap(heap)
         /\ Owned(heap, stack, Held, Tabled, Pending)
BY DEF PureInv, Inv, Calling, Maps, Held, Owned

\* What the call gives in the end does not change as long as fields do not.
LEMMA GoesOn ==
  ASSUME PureInv, InProgress, call'.op = call.op, call'.rest = call.rest, space' = space,
         \A o \in Maps : Same(heap'[o], heap[o]), NEW r, NEW s, Same(s, r)
  PROVE  Goes(space', call'.op, call'.rest, heap', s)
           = Goes(space, call.op, call.rest, heap, r)
<1>1. call.op \in Operators /\ (call.rest # << >> => call.op = "cover")
  BY CallFacts
<1>2. call.rest # << >> => Same(heap'[call.rest[1]], heap[call.rest[1]])
  BY CallFacts
<1>3. Goes(space, call.op, call.rest, heap', s) = Goes(space, call.op, call.rest, heap, r)
  BY <1>1, <1>2, GoesAlike
<1>4. QED
  BY <1>3

\* A step within a call.
LEMMA Stays ==
  ASSUME PureInv, InProgress, InProgress', UNCHANGED <<py, space>>,
         call'.op = call.op, call'.rest = call.rest, call'.meant = call.meant,
         Len(call'.args) <= Arity(call.op), call'.phase # "push" => call'.args = << >>,
         \A o \in Held : heap'[o].vs \in Definite \cup Indefinite,
         \A o \in Maps : Same(heap'[o], heap[o])
  PROVE  /\ UNCHANGED Pure!vars
         /\ Calling'
         /\ (call'.phase = "pop" => heap'[stack'[Len(stack')]].vs \in Definite) => Scaled'
<1>1. Held' = Held /\ Maps' = Maps
  BY DEF Held, Maps
<1>2. UNCHANGED Pure!vars
  <2>1. HeldSame
    BY <1>1 DEF HeldSame
  <2>2. QED
    BY <2>1, PureStutter
<1>3. Calling'
  BY <1>1, CallFacts DEF Calling
<1>4. \A o \in Maps : heap'[o].vs \in Definite
  BY ValueFields DEF PureInv, Scaled
<1>5. (call'.phase = "pop" => heap'[stack'[Len(stack')]].vs \in Definite) => Scaled'
  BY <1>1, <1>4 DEF Scaled
<1>6. QED
  BY <1>2, <1>3, <1>5

\* The arguments on the stack.
LEMMA TopArgs ==
  ASSUME Inv, Calling, call.phase \in {"check", "exec"}
  PROVE  /\ Pushed = Arity(call.op)
         /\ DOMAIN Top = 1..Arity(call.op) /\ \A i \in 1..Arity(call.op) : Top[i] = Arg(i)
         /\ [i \in DOMAIN Top |-> heap[Top[i]]] = Args
         /\ Operands = FieldsOf(call.op, Args)
         /\ call.op # "lookup" => Fields = Top
         /\ call.op = "lookup" => Fields = <<Top[2]>>
<1>1. /\ stack \in Seq(Pointer) /\ Len(stack) >= Arity(call.op) /\ InProgress
      /\ call.args = << >> /\ call.op \in Operators
  BY DEF Inv, Owned, StackOK, Calling, IsIdle, InProgress
<1> DEFINE n == Arity(call.op)
           k == Len(stack) - n
<1>2. n \in {1, 2} /\ Len(stack) \in Nat /\ k \in 0..Len(stack)
  BY <1>1, ArityValues
<1>3. Pushed = n
  <2>1. Len(<< >>) = 0
    OBVIOUS
  <2>2. QED
    BY <1>1, <1>2, <2>1 DEF Pushed
<1>4. Base \in Seq(Pointer) /\ Len(Base) = k /\ Top \in Seq(Pointer) /\ Len(Top) = n
  BY <1>1, TopFacts
<1>5. Top = SubSeq(stack, k + 1, Len(stack))
  BY <1>4 DEF Top
<1>6. \A i \in 1..n : Top[i] = stack[k + i]
  <2> HIDE DEF k
  <2>1. /\ \A i \in 1..(Len(stack) - k) : SubSeq(stack, k + 1, Len(stack))[i] = stack[k + i]
    BY <1>1, <1>2, Parts
  <2>2. Len(stack) - k = n
    BY <1>2 DEF k
  <2>3. QED
    BY <1>5, <2>1, <2>2
<1>7. \A i \in 1..n : Top[i] = Arg(i)
  <2> SUFFICES ASSUME NEW i \in 1..n PROVE Top[i] = Arg(i)
    OBVIOUS
  <2>1. i <= n /\ Arg(i) = stack[Len(stack) - n + i]
    BY <1>2, <1>3 DEF Arg
  <2>2. QED
    BY <1>6, <2>1
<1>8. DOMAIN Top = 1..n
  BY <1>2, <1>4
<1> HIDE DEF n, k
<1>9. [i \in DOMAIN Top |-> heap[Top[i]]] = Args
  BY <1>7, <1>8 DEF Args, n
<1>10. call.op # "lookup" => Fields = Top
  BY DEF Fields, FieldsOf
<1>11. call.op = "lookup" => Fields = <<Top[2]>>
  <2> SUFFICES ASSUME call.op = "lookup" PROVE Fields = <<Top[2]>>
    OBVIOUS
  <2>1. n = 2
    BY DEF Arity, n
  <2>2. QED
    BY <1>4, <2>1, TailOfTwo DEF Fields, FieldsOf
<1>12. Operands = FieldsOf(call.op, Args)
  <2>1. Operands = [i \in DOMAIN Fields |-> heap[Fields[i]]]
    BY DEF Operands
  <2>2. CASE call.op = "lookup"
    <3>1. FieldsOf(call.op, Args) = <<Args[2]>>
      BY <1>1, <2>2, ShapedArgs, FieldsShape
    <3>2. 2 \in 1..n /\ Args[2] = heap[Top[2]]
      <4>1. n = 2
        BY <2>2 DEF Arity, n
      <4>2. 2 \in 1..n
        BY <4>1
      <4>3. QED
        BY <1>7, <4>2 DEF Args, n
    <3> DEFINE o == Top[2]
    <3>3. Fields = <<o>> /\ FieldsOf(call.op, Args) = <<heap[o]>>
      BY <1>11, <2>2, <3>1, <3>2
    <3> HIDE DEF o
    <3>4. [i \in DOMAIN <<o>> |-> heap[<<o>>[i]]] = <<heap[o]>>
      OBVIOUS
    <3>5. QED
      BY <2>1, <3>3, <3>4
  <2>3. CASE call.op # "lookup"
    <3>1. FieldsOf(call.op, Args) = Args
      BY <2>3 DEF FieldsOf
    <3>2. QED
      BY <1>9, <1>10, <2>1, <2>3, <3>1
  <2>4. QED
    BY <2>2, <2>3
<1>13. QED
  BY <1>3, <1>7, <1>8, <1>9, <1>10, <1>11, <1>12 DEF n

-------------------------------------------------------------------------------
(* Calls, and steps between them *)

Meaningful == Scaled /\ Calling /\ Locked /\ Meant

LEMMA IdleMeaningful ==
  ASSUME ~InProgress', \A o \in Held' : heap'[o].vs \in Definite \cup Indefinite,
         \A o \in Maps' : heap'[o].vs \in Definite
  PROVE  Meaningful'
<1>1. call'.phase \in {"idle", "undefined"}
  BY DEF InProgress
<1>2. Scaled'
  BY <1>1 DEF Scaled
<1>3. Calling'
  BY DEF Calling
<1>4. Locked' /\ Meant'
  BY <1>1 DEF Locked, Meant, Asking
<1>5. QED
  BY <1>2, <1>3, <1>4 DEF Meaningful

LEMMA IdlePure ==
  ASSUME PureInv, IsIdle
  PROVE  /\ Owned(heap, stack, Held, Tabled, {}) /\ ProgramOK /\ In(stack) \subseteq Known
         /\ Held \subseteq Obj /\ Maps \subseteq Held /\ Heap(heap)
         /\ \A o \in Held : heap[o].vs \in Definite \cup Indefinite
         /\ \A o \in Maps : heap[o].vs \in Definite
BY IdleFacts DEF PureInv, Scaled, Owned, Maps, Held

LEMMA ReadMapPure == ASSUME PureInv, NoOrdinals, ReadMap PROVE Meaningful' /\ Pure!Obtain
<1>1. IsIdle /\ Room /\ UNCHANGED call
  BY DEF ReadMap
<1>2. PICK s \in ReadScales, z \in 1..MaxClones :
        /\ heap' = [heap EXCEPT ![New(heap)] = Object("field", <<"map", nr.maps>>, {s}, z)]
        /\ py' = [py EXCEPT !.vars = @ \cup {New(heap)}]
  BY DEF ReadMap
<1> DEFINE o == New(heap)
           x == Object("field", <<"map", nr.maps>>, {s}, z)
<1>3. /\ Owned(heap, stack, Held, Tabled, {}) /\ ProgramOK /\ Held \subseteq Obj
      /\ Maps \subseteq Held /\ Heap(heap)
      /\ \A p \in Held : heap[p].vs \in Definite \cup Indefinite
      /\ \A p \in Maps : heap[p].vs \in Definite
  BY <1>1, IdlePure
<1>4. o \in Obj /\ o \notin Held
  <2>1. o \in Obj /\ o \notin Alive(heap)
    BY <1>1, FreshNew DEF Room, Live, Alive
  <2>2. QED
    BY <1>3, <2>1 DEF Owned
<1>5. py' = [vars |-> py.vars \cup {o}, frames |-> py.frames]
  BY <1>2, <1>3 DEF ProgramOK
<1>6. x.vs \in Definite
  <2>1. x.vs = {s}
    BY ObjectContents
  <2>2. s = "N" \/ s = "S"
    BY DEF NoOrdinals
  <2> HIDE DEF x
  <2>3. QED
    BY <2>1, <2>2 DEF Definite
<1>7. heap' = [heap EXCEPT ![o] = x]
  BY <1>2
<1> HIDE DEF o, x
<1>8. heap'[o] = x /\ \A p \in Obj : p # o => heap'[p] = heap[p]
  <2>1. /\ [heap EXCEPT ![o] = x][o] = x
        /\ \A p \in Obj : p # o => [heap EXCEPT ![o] = x][p] = heap[p]
    BY <1>3, <1>4, PutHeap
  <2>2. QED
    BY <1>7, <2>1
<1>9. Held' = Held \cup {o} /\ Maps' = Maps \cup {o} /\ o \notin Maps
  <2>1. o # NoneObj
    BY <1>3, <1>4 DEF ProgramOK, Held
  <2>2. py'.vars = py.vars \cup {o} /\ py'.frames = py.frames
    BY <1>5
  <2>3. QED
    BY <1>3, <1>4, <2>1, <2>2 DEF Held, Maps
<1>10. IsIdle'
  BY <1>1 DEF IsIdle, InProgress
<1>11. Meaningful'
  BY <1>3, <1>4, <1>6, <1>8, <1>9, <1>10, IdleNot, IdleMeaningful
<1>12. \A p \in Maps : Same(heap'[p], heap[p])
  BY <1>3, <1>4, <1>8 DEF Same
<1>13. Pure!OneMore
  BY <1>9, <1>12, PureMore
<1>14. QED
  BY <1>1, <1>10, <1>11, <1>13, IdleNot DEF Pure!Obtain

LEMMA ForgetPure == ASSUME PureInv, Forget PROVE Meaningful' /\ Pure!Forget
<1>1. IsIdle /\ UNCHANGED <<table, call>>
  BY DEF Forget
<1>2. PICK o \in Maps :
        heap' = Deleted(heap, {o}) /\ py' = [py EXCEPT !.vars = @ \ {o}]
  BY DEF Forget
<1>3. /\ ProgramOK /\ Held \subseteq Obj /\ Maps \subseteq Held
      /\ \A p \in Held : heap[p].vs \in Definite \cup Indefinite
      /\ \A p \in Maps : heap[p].vs \in Definite
  BY <1>1, IdlePure
<1>4. py' = [vars |-> py.vars \ {o}, frames |-> py.frames]
  BY <1>2, <1>3 DEF ProgramOK
<1>5. Maps' = Maps \ {o} /\ Held' \subseteq Held /\ o \notin Held'
  <2>1. py'.vars = py.vars \ {o} /\ py'.frames = py.frames
    BY <1>4
  <2>2. o \in py.vars /\ o \notin py.frames
    BY <1>2, <1>3 DEF Maps, ProgramOK
  <2>3. QED
    BY <2>1, <2>2 DEF Held, Maps
<1>6. \A p \in Held' : heap'[p] = heap[p]
  BY <1>2, <1>3, <1>5, DeletedSame
<1>7. IsIdle' /\ Maps' \subseteq Held'
  BY <1>1 DEF IsIdle, InProgress, Maps, Held
<1>8. Meaningful'
  BY <1>3, <1>5, <1>6, <1>7, IdleNot, IdleMeaningful
<1>9. /\ ValuesOf(Maps)' = [p \in Maps' |-> Value(heap'[p])]
      /\ ValuesOf(Maps) = [p \in Maps |-> Value(heap[p])]
  BY DEF ValuesOf
<1>10. \A p \in Maps' : Value(heap'[p]) = Value(heap[p])
  BY <1>6, <1>7
<1>11. ValuesOf(Maps)' = [p \in DOMAIN ValuesOf(Maps) \ {o} |-> ValuesOf(Maps)[p]]
  <2>1. DOMAIN ValuesOf(Maps) = Maps /\ \A p \in Maps : ValuesOf(Maps)[p] = Value(heap[p])
    BY <1>9
  <2>2. QED
    BY <1>5, <1>9, <1>10, <2>1
<1>12. o \in DOMAIN ValuesOf(Maps)
  BY <1>2, <1>9
<1>13. QED
  BY <1>1, <1>7, <1>8, <1>11, <1>12, IdleNot DEF Pure!Forget

LEMMA SetClonePure ==
  ASSUME PureInv, SetClone
  PROVE  Meaningful' /\ UNCHANGED Pure!vars
<1>1. IsIdle /\ UNCHANGED py
  BY DEF SetClone
<1>2. /\ Owned(heap, stack, Held, Tabled, {}) /\ Held \subseteq Obj /\ Maps \subseteq Held
      /\ \A p \in Held : heap[p].vs \in Definite \cup Indefinite
      /\ \A p \in Maps : heap[p].vs \in Definite
  BY <1>1, IdlePure
<1>3. Maps' = Maps /\ Held' = Held
  BY <1>1 DEF Held, Maps
<1>4. ~InProgress /\ ~InProgress'
  <2>1. CASE Dangling \in In(stack)
    <3>1. call' = [call EXCEPT !.phase = "undefined"]
      BY <2>1 DEF SetClone
    <3>2. call'.phase = "undefined"
      BY <3>1 DEF PureInv, Inv, CallOK
    <3>3. QED
      BY <1>1, <3>2, IdleNot DEF InProgress
  <2>2. CASE Dangling \notin In(stack)
    BY <1>1, <2>2, IdleNot DEF SetClone, IsIdle
  <2>3. QED
    BY <2>1, <2>2
<1>5. \A p \in Held : Same(heap'[p], heap[p])
  <2>1. CASE Dangling \in In(stack)
    BY <2>1 DEF SetClone, Same
  <2>2. CASE Dangling \notin In(stack)
    <3> DEFINE h == DeleteFromPcrme(heap, In(stack))
    <3>1. heap' = Deleted(h, Tabled)
      BY <2>2 DEF SetClone
    <3>2. In(stack) \cap Held \subseteq In(stack) /\ Held \cap Tabled = {}
      BY <1>2 DEF Owned
    <3>3. \A p \in Held : Same(h[p], heap[p])
      BY <1>2, <3>2, DropSame
    <3> HIDE DEF h
    <3>4. \A p \in Held : heap'[p] = h[p]
      BY <1>2, <3>1, <3>2, DeletedSame
    <3>5. QED
      BY <3>3, <3>4
  <2>3. QED
    BY <2>1, <2>2
<1>6. \A p \in Held : heap'[p].vs = heap[p].vs
  BY <1>5, ValueFields
<1>7. Meaningful'
  BY <1>2, <1>3, <1>4, <1>6, IdleMeaningful
<1>8. HeldSame
  BY <1>2, <1>3, <1>5 DEF HeldSame
<1>9. QED
  BY <1>4, <1>7, <1>8, PureStutter

\* The arguments of a call before any is pushed.
LEMMA CalledArgs ==
  ASSUME NEW op, NEW args, NEW rest, NEW h, NEW temps, Called(op, args, rest, h, temps),
         NEW S, args \in Seq(S), Len(args) = Arity(op)
  PROVE  /\ call'.phase = "push" /\ call'.op = op /\ call'.args = args /\ call'.rest = rest
         /\ Pushed' = 0 /\ Args' = [i \in 1..Arity(op) |-> h[args[i]]]
<1>1. /\ call'.phase = "push" /\ call'.op = op /\ call'.args = args /\ call'.rest = rest
      /\ heap' = h
  BY DEF Called
<1>2. Arity(op) \in Nat
  BY ArityValues
<1>3. Pushed' = 0
  BY <1>1, <1>2 DEF Pushed
<1>4. \A i \in 1..Arity(op) : Arg(i)' = args[i]
  <2> SUFFICES ASSUME NEW i \in 1..Arity(op) PROVE Arg(i)' = args[i]
    OBVIOUS
  <2>1. ~(i <= 0) /\ i - 0 = i
    BY <1>2
  <2>2. Arg(i)' = IF i <= Pushed' THEN stack'[Len(stack') - Pushed' + i]
                  ELSE call'.args[i - Pushed']
    BY DEF Arg
  <2>3. QED
    BY <1>1, <1>3, <2>1, <2>2
<1>5. Args' = [i \in 1..Arity(op) |-> heap'[Arg(i)']]
  BY <1>1 DEF Args
<1>6. Args' = [i \in 1..Arity(op) |-> h[args[i]]]
  BY <1>1, <1>4, <1>5
<1>7. QED
  BY <1>1, <1>3, <1>6

LEMMA TwoAndOne ==
  ASSUME NEW S, NEW s \in Seq(S), Len(s) = 2, NEW t \in Seq(S), Len(t) = 1
  PROVE  /\ s \o t \in Seq(S) /\ Len(s \o t) = 3
         /\ (s \o t)[1] = s[1] /\ (s \o t)[2] = s[2] /\ (s \o t)[3] = t[1]
<1> DEFINE c == s \o t
<1>1. /\ c \in Seq(S) /\ Len(c) = Len(s) + Len(t)
      /\ \A i \in 1..(Len(s) + Len(t)) : c[i] = IF i <= Len(s) THEN s[i] ELSE t[i - Len(s)]
  BY ConcatProperties
<1> HIDE DEF c
<1>2. 1 \in 1..3 /\ 2 \in 1..3 /\ 3 \in 1..3
  OBVIOUS
<1>3. Len(c) = 3 /\ c[1] = s[1] /\ c[2] = s[2] /\ c[3] = t[1]
  BY <1>1, <1>2
<1>4. QED
  BY <1>1, <1>3 DEF c

LEMMA CalledPure ==
  ASSUME PureInv, IsIdle, NEW op \in Operators, NEW args, NEW rest, NEW h, NEW temps,
         Called(op, args, rest, h, temps),
         \A o \in Held : h[o] = heap[o],
         \A o \in temps : h[o].vs \in Definite \cup Indefinite,
         args \in Seq(Held \cup temps \cup {NotAField}), Len(args) = Arity(op),
         rest = << >> \/ (op = "cover" /\ \E c \in Maps : rest = <<c>>)
  PROVE  Meaningful' /\ Pure!Ask
<1> DEFINE all == args \o rest
           X == [i \in DOMAIN all |-> h[all[i]]]
<1>1. /\ heap' = h /\ py' = [py EXCEPT !.frames = @ \cup temps] /\ space' = space
      /\ call'.meant = IF NotAField \in In(all) THEN NoResult ELSE Meaning(op, X)
  BY DEF Called
<1>2. /\ call'.phase = "push" /\ call'.op = op /\ call'.args = args /\ call'.rest = rest
      /\ Pushed' = 0 /\ Args' = [i \in 1..Arity(op) |-> h[args[i]]]
  BY CalledArgs
<1>3. /\ ProgramOK /\ Held \subseteq Obj /\ Maps \subseteq Held
      /\ \A p \in Held : heap[p].vs \in Definite \cup Indefinite
      /\ \A p \in Maps : heap[p].vs \in Definite
  BY IdlePure
<1>4. Maps' = Maps /\ Held' = Held \cup temps
  <2>1. py' = [vars |-> py.vars, frames |-> py.frames \cup temps]
    BY <1>1, <1>3 DEF ProgramOK
  <2>2. py'.vars = py.vars /\ py'.frames = py.frames \cup temps
    BY <2>1
  <2>3. QED
    BY <2>2 DEF Held, Maps
<1>5. Arity(op) \in Nat /\ Arity(op) \in {1, 2} /\ op \in Operators
  BY ArityValues
<1>6. Scaled'
  BY <1>1, <1>2, <1>3, <1>4 DEF Scaled
<1>7. Calling'
  <2>1. ASSUME rest # << >>
        PROVE  op = "cover" /\ Len(rest) = 1 /\ rest[1] \in Maps
    <3>1. PICK c \in Maps : op = "cover" /\ rest = <<c>>
      BY <2>1
    <3>2. QED
      BY <3>1
  <2>2. Len(args) <= Arity(op)
    BY <1>5
  <2>3. QED
    BY <1>2, <1>4, <2>1, <2>2 DEF Calling
<1>8. Locked'
  <2>1. \A i \in 1..0 : FALSE
    OBVIOUS
  <2>2. QED
    BY <1>2, <2>1 DEF Locked
<1> HIDE DEF all, X
<1>9. ASSUME NotAField \notin In(args)
      PROVE  call'.meant = Goes(space, op, rest, h, Outcome(space, op, Args'))
  <2>1. CASE rest = << >>
    <3>1. all = args
      BY <2>1, ConcatEmptySeq DEF all
    <3>2. DOMAIN args = 1..Arity(op)
      OBVIOUS
    <3>3. X = Args'
      BY <1>2, <3>1, <3>2 DEF X
    <3>4. Len(X) # 3
      <4> DEFINE n == Arity(op)
                 x == [i \in 1..n |-> h[args[i]]]
      <4>1. Len(x) = n
        <5> HIDE DEF n
        <5>1. n \in Nat
          BY <1>5 DEF n
        <5>2. x \in [1..n -> {h[args[i]] : i \in 1..n}]
          OBVIOUS
        <5> HIDE DEF x
        <5>3. QED
          BY <5>1, <5>2, FunctionSeq
      <4>2. QED
        BY <1>2, <1>5, <3>3, <4>1
    <3>5. call'.meant = Value(Outcome(space, op, X))
      BY <1>1, <1>9, <3>1, <3>4, AtSpace DEF Meaning
    <3>6. QED
      BY <2>1, <3>3, <3>5 DEF Goes
  <2>2. CASE rest # << >>
    <3>1. PICK c \in Maps : op = "cover" /\ rest = <<c>>
      BY <2>2
    <3>2. Arity(op) = 2 /\ c \in Held /\ c # NotAField
      BY <1>3, <3>1, EngineAssumption DEF Arity
    <3> DEFINE S == Held \cup temps \cup {NotAField}
    <3>3. /\ rest \in Seq(S) /\ Len(rest) = 1 /\ rest[1] = c /\ In(rest) = {c}
      <4>1. <<c>> \in Seq(S) /\ Len(<<c>>) = 1 /\ <<c>>[1] = c /\ DOMAIN <<c>> = {1}
        BY <3>2
      <4>2. QED
        BY <3>1, <4>1 DEF In
    <3> HIDE DEF S
    <3>4. args \in Seq(S) /\ Len(args) = 2
      BY <3>2 DEF S
    <3>5. /\ all \in Seq(S) /\ Len(all) = 3 /\ In(all) = In(args) \cup {c}
          /\ all[1] = args[1] /\ all[2] = args[2] /\ all[3] = c
      <4>1. In(all) = In(args) \cup {c}
        BY <3>3, <3>4, InConcat DEF all
      <4>2. QED
        BY <3>3, <3>4, <4>1, TwoAndOne DEF all
    <3>6. /\ Len(X) = 3 /\ X[1] = h[args[1]] /\ X[2] = h[args[2]] /\ X[3] = h[c]
      <4>1. DOMAIN all = 1..3
        BY <3>5
      <4>2. X = [i \in 1..3 |-> h[all[i]]]
        BY <4>1 DEF X
      <4> DEFINE x == [i \in 1..3 |-> h[all[i]]]
      <4>3. x \in [1..3 -> {h[all[i]] : i \in 1..3}] /\ 3 \in Nat
        OBVIOUS
      <4>4. x[1] = h[all[1]] /\ x[2] = h[all[2]] /\ x[3] = h[all[3]]
        OBVIOUS
      <4> HIDE DEF x
      <4>5. Len(x) = 3
        BY <4>3, FunctionSeq
      <4>6. QED
        BY <3>5, <4>2, <4>4, <4>5 DEF x
    <3>7. Args' = <<X[1], X[2]>>
      <4>1. Args' = [i \in 1..2 |-> h[args[i]]]
        BY <1>2, <3>2
      <4>2. QED
        BY <3>6, <4>1, OneTwo
    <3>8. NotAField \notin In(all)
      BY <1>9, <3>2, <3>5
    <3>9. call'.meant = Value(Outcome(space, op, <<Outcome(space, op, <<X[1], X[2]>>), X[3]>>))
      BY <1>1, <3>6, <3>8, AtSpace DEF Meaning
    <3>10. QED
      BY <2>2, <3>3, <3>6, <3>7, <3>9 DEF Goes
  <2>3. QED
    BY <2>1, <2>2
<1>10. Meant'
  BY <1>1, <1>2, <1>9 DEF Meant
<1>11. HeldSame
  BY <1>1, <1>3, <1>4 DEF HeldSame, Same
<1>12. ValuesOf(Maps)' = ValuesOf(Maps)
  BY <1>11, SameValues
<1>13. Pure!Ask
  <2>1. InProgress'
    BY <1>2 DEF IsIdle, InProgress
  <2>2. << >> # <<call'.meant>>
    OBVIOUS
  <2>3. QED
    BY <1>12, <2>1, <2>2, IdleNot DEF Pure!Ask
<1>14. QED
  BY <1>6, <1>7, <1>8, <1>10, <1>13 DEF Meaningful

LEMMA CallPure == ASSUME PureInv, Call PROVE Meaningful' /\ Pure!Ask
<1>1. IsIdle
  BY DEF Call
<1>2. /\ Held \subseteq Obj /\ Maps \subseteq Held /\ Heap(heap) /\ py.vars \subseteq Held
      /\ Inv /\ \A p \in Held : heap[p] = heap[p]
  BY <1>1, IdlePure DEF PureInv, Held
<1>3. ASSUME Room, NEW x, Record(x), x.kind # "free", ~x.ro
      PROVE  LET n == New(heap)
                 h == [heap EXCEPT ![n] = x]
             IN n \in Obj /\ n \notin Held /\ h[n] = x /\ \A p \in Held : h[p] = heap[p]
  <2> DEFINE n == New(heap)
  <2>1. n \in Obj /\ n \notin Held
    BY <1>1, <1>2, <1>3, TemporaryOwned
  <2> HIDE DEF n
  <2>2. QED
    BY <1>2, <2>1, PutHeap DEF n
<1>4. ASSUME NEW op \in Operators, CallWithFields(op) PROVE Meaningful' /\ Pure!Ask
  <2>1. PICK args \in [1..Arity(op) -> Arguments] : Called(op, args, << >>, heap, {})
    BY <1>4 DEF CallWithFields
  <2>2. Arity(op) \in Nat /\ Arguments \subseteq Held \cup {} \cup {NotAField}
    BY ArityValues DEF Arguments, Held
  <2>3. args \in Seq(Held \cup {} \cup {NotAField}) /\ Len(args) = Arity(op)
    BY <2>1, <2>2
  <2>4. \A o \in {} : heap[o].vs \in Definite \cup Indefinite
    OBVIOUS
  <2>5. QED
    BY <1>1, <1>2, <2>1, <2>3, <2>4, CalledPure
<1>5. ASSUME NEW op \in Operators, CallWithNumber(op) PROVE Meaningful' /\ Pure!Ask
  <2> DEFINE n == New(heap)
             args(i, o) == [j \in 1..Arity(op) |-> IF i = j THEN n ELSE o]
             h == [heap EXCEPT ![n] = Literal]
  <2>1. Room
    BY <1>5 DEF CallWithNumber
  <2>2. PICK i \in 1..Arity(op), o \in py.vars : Called(op, args(i, o), << >>, h, {n})
    BY <1>5 DEF CallWithNumber
  <2>3. /\ Record(Literal) /\ Literal.kind # "free" /\ ~Literal.ro
        /\ Literal.vs = Scales
    BY ObjectRecord, ObjectContents DEF Literal
  <2>4. n \in Obj /\ h[n] = Literal /\ \A p \in Held : h[p] = heap[p]
    BY <1>3, <2>1, <2>3
  <2>5. Arity(op) \in Nat /\ o \in Held
    BY ArityValues DEF Held
  <2> HIDE DEF n, h
  <2>6. args(i, o) \in Seq(Held \cup {n} \cup {NotAField}) /\ Len(args(i, o)) = Arity(op)
    BY <2>5
  <2>7. \A p \in {n} : h[p].vs \in Definite \cup Indefinite
    BY <2>3, <2>4 DEF Indefinite
  <2> HIDE DEF args
  <2>8. QED
    BY <1>1, <2>2, <2>4, <2>6, <2>7, CalledPure
<1>6. ASSUME "cover" \in Operators, CallCover PROVE Meaningful' /\ Pure!Ask
  <2>1. PICK a, b, c \in Maps : Called("cover", <<a, b>>, <<c>>, heap, {})
    BY <1>6 DEF CallCover
  <2>2. a \in Held /\ b \in Held
    BY <1>2
  <2>3. /\ <<a, b>> \in Seq(Held \cup {} \cup {NotAField}) /\ Len(<<a, b>>) = 2
    BY <2>2
  <2>4. Arity("cover") = 2
    BY DEF Arity
  <2>5. \A o \in {} : heap[o].vs \in Definite \cup Indefinite
    OBVIOUS
  <2>6. \E m \in Maps : <<c>> = <<m>>
    OBVIOUS
  <2> DEFINE op == "cover"
             args == <<a, b>>
             rest == <<c>>
  <2>7. /\ op \in Operators /\ Called(op, args, rest, heap, {}) /\ op = "cover"
        /\ \E m \in Maps : rest = <<m>>
        /\ args \in Seq(Held \cup {} \cup {NotAField}) /\ Len(args) = Arity(op)
    BY <1>6, <2>1, <2>3, <2>4, <2>6
  <2> HIDE DEF op, args, rest
  <2>8. QED
    BY <1>1, <1>2, <2>5, <2>7, CalledPure
<1>7. ASSUME "lookup" \in Operators, CallLookup PROVE Meaningful' /\ Pure!Ask
  <2> DEFINE n == New(heap)
             h == [heap EXCEPT ![n] = TableId]
  <2>1. Room
    BY <1>7 DEF CallLookup
  <2>2. PICK o \in py.vars : Called("lookup", <<n, o>>, << >>, h, {n})
    BY <1>7 DEF CallLookup
  <2>3. Record(TableId) /\ TableId.kind # "free" /\ ~TableId.ro /\ TableId.vs = {}
    BY ObjectRecord, ObjectContents DEF TableId
  <2>4. n \in Obj /\ h[n] = TableId /\ \A p \in Held : h[p] = heap[p]
    BY <1>3, <2>1, <2>3
  <2> HIDE DEF n, h
  <2>5. o \in Held
    BY DEF Held
  <2>6. <<n, o>> \in Seq(Held \cup {n} \cup {NotAField}) /\ Len(<<n, o>>) = 2
    BY <2>5
  <2>7. Arity("lookup") = 2
    BY DEF Arity
  <2>8. \A p \in {n} : h[p].vs \in Definite \cup Indefinite
    BY <2>3, <2>4 DEF Indefinite
  <2> DEFINE op == "lookup"
             args == <<n, o>>
  <2>9. /\ op \in Operators /\ Called(op, args, << >>, h, {n})
        /\ args \in Seq(Held \cup {n} \cup {NotAField}) /\ Len(args) = Arity(op)
    BY <1>7, <2>2, <2>6, <2>7
  <2> HIDE DEF op, args
  <2>10. QED
    BY <1>1, <2>4, <2>8, <2>9, CalledPure
<1>8. QED
  BY <1>4, <1>5, <1>6, <1>7 DEF Call

-------------------------------------------------------------------------------
(* An exception *)

\* The frame of a call goes, and nothing else.
LEMMA LeaveSame ==
  ASSUME ProgramOK, Held \subseteq Obj, NEW h, NEW st, NEW v, v \subseteq Obj,
         v \cap py.frames = {}, Leave(h, st, v)
  PROVE  /\ IsIdle' /\ Maps' = v \ {NoneObj} /\ Maps' \subseteq Held'
         /\ Held' \subseteq v \cup py.frames
         /\ \A o \in Held' : heap'[o] = h[o]
<1> DEFINE gone == py.frames
<1>1. /\ heap' = Deleted(h, gone) /\ py' = [vars |-> v, frames |-> {}] /\ call' = Idle
  BY DEF Leave
<1>2. Held' = v /\ Maps' = v \ {NoneObj}
  BY <1>1 DEF Held, Maps
<1>3. Held' \cap gone = {} /\ Held' \subseteq Obj
  BY <1>2
<1>4. \A o \in Held' : heap'[o] = h[o]
  BY <1>1, <1>3, DeletedSame
<1>5. IsIdle'
  BY <1>1 DEF IsIdle, Idle
<1>6. QED
  BY <1>2, <1>4, <1>5

LEMMA RaisePure ==
  ASSUME PureInv, InProgress, NEW h, NEW st, Raise(h, st), \A o \in Held : Same(h[o], heap[o])
  PROVE  Meaningful' /\ Pure!Raise
<1>1. /\ ProgramOK /\ Held \subseteq Obj /\ Maps \subseteq Held
  BY CallFacts
<1>2. py.vars \subseteq Obj /\ py.vars \cap py.frames = {} /\ Held = py.vars \cup py.frames
  BY <1>1 DEF ProgramOK, Held
<1>3. Leave(h, st, py.vars)
  BY DEF Raise
<1>4. /\ IsIdle' /\ Maps' = py.vars \ {NoneObj} /\ Maps' \subseteq Held' /\ Held' \subseteq Held
      /\ \A o \in Held' : heap'[o] = h[o]
  BY <1>1, <1>2, <1>3, LeaveSame
<1>5. Maps' = Maps
  BY <1>4 DEF Maps
<1>6. \A o \in Held' : Same(heap'[o], heap[o]) /\ heap'[o].vs = heap[o].vs
  BY <1>4, ValueFields
<1>7. Meaningful'
  BY <1>4, <1>5, <1>6, IdleNot, IdleMeaningful DEF PureInv, Scaled
<1>8. HeldSame
  BY <1>4, <1>5, <1>6 DEF HeldSame
<1>9. QED
  BY <1>4, <1>7, <1>8, PureRaise

LEMMA RejectedPure == ASSUME PureInv, Rejected PROVE Meaningful' /\ Pure!Raise
<1>1. PICK D : \E st \in Seq(Pointer) :
        Raise(DeleteFromPcrme(heap, D), st) /\ In(st) \cup D = In(stack)
  BY RejectedParts DEF PureInv
<1>2. PICK st \in Seq(Pointer) : Raise(DeleteFromPcrme(heap, D), st) /\ In(st) \cup D = In(stack)
  BY <1>1
<1>3. InProgress /\ Owned(heap, stack, Held, Tabled, Pending)
  BY DEF Rejected, IsIdle, InProgress, PureInv, Inv
<1>4. \A o \in Held : Same(DeleteFromPcrme(heap, D)[o], heap[o])
  <2>1. D \cap Held \subseteq In(stack)
    BY <1>2
  <2>2. QED
    BY <1>3, <2>1, DropSame
<1>5. QED
  BY <1>2, <1>3, <1>4, RaisePure

LEMMA LoadFailsPure == ASSUME PureInv, LoadFails PROVE Meaningful' /\ Pure!Raise
<1>1. call.phase = "check" /\ Raise(DeleteFromPcrme(heap, In(Top)), Base)
  BY DEF LoadFails
<1>2. /\ InProgress /\ Owned(heap, stack, Held, Tabled, Pending)
      /\ Len(stack) >= Arity(call.op) /\ stack \in Seq(Pointer)
  BY <1>1 DEF PureInv, Inv, StackOK, Owned, IsIdle, InProgress
<1>3. In(Top) \cap Held \subseteq In(stack)
  BY <1>2, TopFacts
<1>4. \A o \in Held : Same(DeleteFromPcrme(heap, In(Top))[o], heap[o])
  BY <1>2, <1>3, DropSame
<1>5. QED
  BY <1>1, <1>2, <1>4, RaisePure

-------------------------------------------------------------------------------
(* An argument is pushed *)

LEMMA PushArgs ==
  ASSUME PureInv, call.phase = "push", NEW o, o = Head(call.args),
         call'.op = call.op, call'.args = Tail(call.args), stack' = Append(stack, o)
  PROVE  /\ Pushed \in Nat /\ Pushed' = Pushed + 1
         /\ \A i \in 1..Arity(call.op) : Arg(i)' = Arg(i)
         /\ Pushed + 1 \in 1..Arity(call.op) /\ Arg(Pushed + 1) = o
<1> DEFINE n == Arity(call.op)
           m == Len(call.args)
           l == Len(stack)
<1>1. /\ stack \in Seq(Pointer) /\ call.args \in Seq(Held \cup {NotAField}) /\ call.args # << >>
      /\ m <= n /\ l + m >= n
  BY DEF PureInv, Inv, Owned, CallOK, StackOK, Calling, IsIdle, InProgress
<1>2. n \in Nat /\ l \in Nat /\ m \in Nat \ {0}
  BY <1>1, ArityValues, EmptySeq
<1>3. /\ o = call.args[1] /\ Len(Tail(call.args)) = m - 1
      /\ \A i \in 1..(m - 1) : Tail(call.args)[i] = call.args[i + 1]
  <2>1. /\ Len(Tail(call.args)) = m - 1
        /\ \A i \in 1..Len(Tail(call.args)) : Tail(call.args)[i] = call.args[i + 1]
    BY <1>1, HeadTailProperties
  <2>2. Head(call.args) = call.args[1]
    BY <1>1
  <2>3. QED
    BY <2>1, <2>2
<1>4. /\ Len(stack') = l + 1 /\ stack'[l + 1] = o /\ \A i \in 1..l : stack'[i] = stack[i]
  <2> DEFINE S == Pointer \cup {o}
  <2>1. stack \in Seq(S) /\ o \in S
    BY <1>1
  <2> HIDE DEF S
  <2>2. QED
    BY <2>1, AppendProperties
<1>5. Pushed = n - m /\ Pushed \in Nat /\ Pushed' = Pushed + 1 /\ Pushed <= l /\ Pushed + 1 \in 1..n
  <2>1. Pushed = n - m /\ Pushed' = n - (m - 1)
    BY <1>3 DEF Pushed
  <2> HIDE DEF n, m, l
  <2>2. QED
    BY <1>1, <1>2, <2>1
<1> DEFINE k == Pushed
<1>6. \A i : /\ Arg(i)' = IF i <= k + 1 THEN stack'[(l + 1) - (k + 1) + i]
                        ELSE Tail(call.args)[i - (k + 1)]
             /\ Arg(i) = IF i <= k THEN stack[l - k + i] ELSE call.args[i - k]
  <2>1. \A i : Arg(i) = IF i <= k THEN stack[l - k + i] ELSE call.args[i - k]
    BY DEF Arg
  <2>2. \A i : Arg(i)' = IF i <= Pushed' THEN stack'[Len(stack') - Pushed' + i]
                         ELSE call'.args[i - Pushed']
    BY DEF Arg
  <2> HIDE DEF k
  <2>3. QED
    BY <1>4, <1>5, <2>1, <2>2 DEF k
<1> DEFINE t == Tail(call.args)
           a == call.args
<1>7. k \in Nat /\ k <= l /\ m = n - k
  BY <1>2, <1>5
<1> HIDE DEF n, m, l, k, t, a
<1>8. ASSUME NEW i \in 1..n PROVE Arg(i)' = Arg(i)
  <2>1. CASE i <= k
    <3>1. (l + 1) - (k + 1) + i = l - k + i /\ l - k + i \in 1..l /\ i <= k + 1
      BY <1>2, <1>7, <2>1
    <3>2. Arg(i)' = stack'[l - k + i] /\ Arg(i) = stack[l - k + i]
      BY <1>6, <2>1, <3>1
    <3>3. QED
      BY <1>4, <3>1, <3>2
  <2>2. CASE i = k + 1
    <3>1. (l + 1) - (k + 1) + i = l + 1 /\ i - k = 1 /\ ~(i <= k) /\ i <= k + 1
      BY <1>2, <1>7, <2>2
    <3>2. Arg(i)' = stack'[l + 1] /\ Arg(i) = call.args[1]
      BY <1>6, <3>1
    <3>3. QED
      BY <1>3, <1>4, <3>2
  <2>3. CASE i > k + 1
    <3>1. /\ i - (k + 1) \in 1..(m - 1) /\ (i - (k + 1)) + 1 = i - k /\ ~(i <= k) /\ ~(i <= k + 1)
      BY <1>2, <1>7, <2>3
    <3>2. Arg(i)' = t[i - (k + 1)] /\ Arg(i) = call.args[i - k]
      BY <1>6, <3>1 DEF t
    <3>3. t[i - (k + 1)] = call.args[(i - (k + 1)) + 1]
      BY <1>3, <3>1 DEF t
    <3>4. QED
      BY <3>1, <3>2, <3>3
  <2>4. QED
    BY <1>2, <1>7, <2>1, <2>2, <2>3
<1>9. Arg(k + 1) = o
  <2>1. ~(k + 1 <= k) /\ (k + 1) - k = 1
    BY <1>7
  <2>2. QED
    BY <1>3, <1>6, <2>1
<1>10. QED
  BY <1>5, <1>8, <1>9 DEF k, n

LEMMA ArgsHeld ==
  ASSUME PureInv, call.phase \in {"push", "check"}
  PROVE  /\ \A i \in 1..Arity(call.op) :
              Arg(i) \in Held \/ (Arg(i) = NotAField /\ NotAField \in In(call.args))
         /\ \A i \in 1..Pushed : Arg(i) \in Held
         /\ 1..Pushed \subseteq 1..Arity(call.op)
<1> DEFINE n == Arity(call.op)
           m == Len(call.args)
           l == Len(stack)
<1>1. /\ stack \in Seq(Pointer) /\ call.args \in Seq(Held \cup {NotAField})
      /\ m <= n /\ l + m >= n /\ Present
  <2>1. Len(<< >>) = 0
    OBVIOUS
  <2>2. n \in Nat /\ stack \in Seq(Pointer) /\ call.args \in Seq(Held \cup {NotAField})
        /\ InProgress /\ Present
    BY ArityValues DEF PureInv, Inv, Owned, CallOK, StackOK, IsIdle, InProgress
  <2>3. m <= n
    BY <2>2 DEF PureInv, Calling
  <2>4. CASE call.phase = "push"
    BY <2>2, <2>3, <2>4 DEF PureInv, Inv, StackOK
  <2>5. CASE call.phase = "check"
    <3>1. call.args = << >> /\ l >= n /\ m = 0
      BY <2>1, <2>2, <2>5 DEF PureInv, Inv, StackOK, Calling
    <3>2. QED
      BY <2>2, <2>3, <3>1
  <2>6. QED
    BY <2>4, <2>5
<1>2. n \in Nat /\ l \in Nat /\ m \in Nat
  BY <1>1, ArityValues
<1> DEFINE k == Pushed
<1>3. k = n - m
  BY DEF Pushed
<1>4. k \in Nat /\ k <= l /\ k <= n
  BY <1>1, <1>2, <1>3
<1>5. \A i : Arg(i) = IF i <= k THEN stack[l - k + i] ELSE call.args[i - k]
  BY DEF Arg
<1> HIDE DEF n, m, l, k
<1>6. ASSUME NEW i \in 1..n, i <= k PROVE Arg(i) \in Held
  <2>1. l - k + i \in 1..l /\ l + m < (l - k + i) + n
    BY <1>2, <1>3, <1>4, <1>6
  <2>2. DOMAIN stack = 1..l
    BY <1>1 DEF l
  <2>3. stack[l - k + i] \in Held
    BY <1>1, <2>1, <2>2 DEF Present, l, m, n
  <2>4. QED
    BY <1>5, <1>6, <2>3
<1>7. ASSUME NEW i \in 1..n, ~(i <= k)
      PROVE  Arg(i) \in Held \/ (Arg(i) = NotAField /\ NotAField \in In(call.args))
  <2>1. i - k \in 1..m
    BY <1>2, <1>3, <1>4, <1>7
  <2>2. call.args[i - k] \in In(call.args)
    BY <1>1, <2>1, InSeq DEF m
  <2>3. In(call.args) \subseteq Held \cup {NotAField}
    BY <1>1, InSeq
  <2>4. QED
    BY <1>5, <1>7, <2>2, <2>3
<1>8. 1..k \subseteq 1..n
  BY <1>2, <1>4
<1>9. QED
  BY <1>4, <1>6, <1>7, <1>8 DEF n, k

LEMMA PushArgumentPure ==
  ASSUME PureInv, PushArgument
  PROVE  Meaningful' /\ (Pure!Raise \/ UNCHANGED Pure!vars)
<1> DEFINE o == Head(call.args)
<1>1. call.phase = "push" /\ InProgress
  BY DEF PushArgument, IsIdle, InProgress
<1>2. CASE o = NotAField
  <2>1. Raise(heap, stack)
    BY <1>2 DEF PushArgument
  <2>2. \A p \in Held : Same(heap[p], heap[p])
    BY DEF Same
  <2>3. QED
    BY <1>1, <2>1, <2>2, RaisePure
<1>3. CASE o # NotAField
  <2>1. /\ PushUnmanaged(o)
        /\ call' = [call EXCEPT !.args = Tail(@),
                                !.phase = IF Tail(call.args) = << >> THEN "check" ELSE @]
        /\ UNCHANGED <<table, space, py>>
    BY <1>3 DEF PushArgument
  <2>2. /\ call.op \in Operators /\ ProgramOK /\ CallOK
        /\ Maps \subseteq Held /\ Held \subseteq Obj /\ Heap(heap)
    BY <1>1, CallFacts
  <2>3. call.args \in Seq(Held \cup {NotAField}) /\ call.args # << >>
    BY <1>1, <2>2 DEF CallOK, PureInv, Inv, StackOK
  <2>4. /\ o \in Held \cup {NotAField} /\ Len(Tail(call.args)) = Len(call.args) - 1
        /\ In(Tail(call.args)) \subseteq In(call.args)
        /\ In(call.args) \subseteq In(Tail(call.args)) \cup {o}
    <3> DEFINE a == call.args
               t == Tail(a)
    <3>1. /\ t \in Seq(Held \cup {NotAField}) /\ Len(t) = Len(a) - 1
          /\ \A i \in 1..Len(t) : t[i] = a[i + 1]
          /\ o \in Held \cup {NotAField} /\ o = a[1]
      BY <2>3, HeadTailProperties
    <3>2. /\ a \in Seq(Held \cup {NotAField}) /\ Len(a) \in Nat
          /\ DOMAIN a = 1..Len(a) /\ DOMAIN t = 1..(Len(a) - 1)
      BY <2>3, <3>1
    <3> HIDE DEF a, t, o
    <3>3. ASSUME NEW i \in DOMAIN t PROVE t[i] \in In(a)
      <4>1. i + 1 \in DOMAIN a /\ t[i] = a[i + 1]
        BY <3>1, <3>2
      <4>2. QED
        BY <4>1 DEF In
    <3>4. ASSUME NEW i \in DOMAIN a PROVE a[i] \in In(t) \cup {o}
      <4>1. CASE i = 1
        BY <3>1, <4>1
      <4>2. CASE i # 1
        <5>1. i - 1 \in DOMAIN t /\ (i - 1) + 1 = i
          BY <3>2, <4>2
        <5>2. t[i - 1] = a[i]
          BY <3>1, <3>2, <5>1
        <5>3. QED
          BY <5>1, <5>2 DEF In
      <4>3. QED
        BY <4>1, <4>2
    <3>5. QED
      BY <3>1, <3>3, <3>4 DEF In, a, t
  <2>5. o \in Held /\ o \in Obj
    BY <1>3, <2>2, <2>4
  <2>6. /\ call'.phase = (IF Tail(call.args) = << >> THEN "check" ELSE "push")
        /\ call'.op = call.op /\ call'.args = Tail(call.args) /\ call'.rest = call.rest
        /\ call'.meant = call.meant
    BY <1>1, <2>1, <2>2 DEF CallOK
  <2> DEFINE left == Tail(call.args)
  <2>7. stack' = Append(stack, o) /\ heap' = [heap EXCEPT ![o].managed = FALSE, ![o].ro = TRUE]
    BY <2>1 DEF PushUnmanaged
  <2> HIDE DEF left
  <2>8. /\ Pushed \in Nat /\ Pushed' = Pushed + 1
        /\ \A i \in 1..Arity(call.op) : Arg(i)' = Arg(i)
        /\ Pushed + 1 \in 1..Arity(call.op) /\ Arg(Pushed + 1) = o
    BY <1>1, <2>6, <2>7, PushArgs
  <2> HIDE DEF o
  <2>9. /\ \A p \in Obj : Same(heap'[p], heap[p]) /\ (heap[p].ro => heap'[p].ro)
        /\ heap'[o].ro
    BY <2>2, <2>5, <2>7, PushSame
  <2>10. \A p \in Held : heap'[p].vs \in Definite \cup Indefinite
    <3>1. \A p \in Held : heap'[p].vs = heap[p].vs
      BY <2>2, <2>9, ValueFields
    <3>2. QED
      BY <3>1 DEF PureInv, Scaled
  <2>11. /\ UNCHANGED Pure!vars /\ Calling' /\ Scaled'
    <3>1. InProgress' /\ call'.phase # "pop"
      BY <2>6 DEF IsIdle, InProgress
    <3>2. Len(call'.args) <= Arity(call.op)
      <4>1. Len(call.args) \in Nat /\ Len(call.args) <= Arity(call.op) /\ Arity(call.op) \in Nat
        BY <1>1, <2>3, ArityValues DEF PureInv, Calling
      <4>2. QED
        BY <2>4, <2>6, <4>1
    <3>3. call'.phase # "push" => call'.args = << >>
      BY <2>6
    <3>4. \A p \in Maps : Same(heap'[p], heap[p])
      BY <2>2, <2>9
    <3>5. UNCHANGED <<py, space>>
      BY <2>1
    <3>6. QED
      BY <1>1, <2>6, <2>10, <3>1, <3>2, <3>3, <3>4, <3>5, Stays
  <2>12. /\ \A i \in 1..Arity(call.op) :
              Arg(i) \in Held \/ (Arg(i) = NotAField /\ NotAField \in In(call.args))
         /\ \A i \in 1..Pushed : Arg(i) \in Held
         /\ 1..Pushed \subseteq 1..Arity(call.op)
    BY <1>1, ArgsHeld
  <2>13. Locked'
    <3>1. InPlace' <=> InPlace
      BY <2>6 DEF InPlace
    <3>2. ASSUME InPlace, NEW i \in 1..(Pushed + 1) PROVE heap'[Arg(i)'].ro
      <4>1. CASE i = Pushed + 1
        BY <2>8, <2>9, <4>1
      <4>2. CASE i # Pushed + 1
        <5>1. i \in 1..Pushed
          BY <2>8, <4>2
        <5>2. heap[Arg(i)].ro
          BY <1>1, <3>2, <5>1 DEF PureInv, Locked, Asking
        <5>3. Arg(i) \in Obj /\ Arg(i)' = Arg(i)
          BY <2>2, <2>8, <2>12, <5>1
        <5>4. QED
          BY <2>9, <5>2, <5>3
      <4>3. QED
        BY <4>1, <4>2
    <3>3. QED
      BY <2>8, <3>1, <3>2 DEF Locked
  <2>14. ASSUME NotAField \notin In(call'.args)
         PROVE  call'.meant = Goes(space', call'.op, call'.rest, heap',
                                   Outcome(space', call'.op, Args'))
    <3>1. NotAField \notin In(call.args)
      BY <1>3, <2>4, <2>6, <2>14 DEF o
    <3>2. call.meant = Goes(space, call.op, call.rest, heap, Outcome(space, call.op, Args))
      BY <1>1, <3>1 DEF PureInv, Meant, Asking
    <3>3. Shaped(call.op, Args) /\ Shaped(call.op, Args')
      <4>1. Shaped(call.op, Args)'
        BY ShapedArgs, PTL
      <4>2. QED
        BY <2>6, <4>1, ShapedArgs
    <3>4. \A i \in 1..Arity(call.op) : Same(Args'[i], Args[i])
      <4> SUFFICES ASSUME NEW i \in 1..Arity(call.op) PROVE Same(Args'[i], Args[i])
        OBVIOUS
      <4>1. Args[i] = heap[Arg(i)]
        BY DEF Args
      <4>2. Args' = [j \in 1..Arity(call.op) |-> heap'[Arg(j)']]
        BY <2>6 DEF Args
      <4>3. Args'[i] = heap'[Arg(i)]
        BY <2>8, <4>2
      <4>4. Arg(i) \in Obj
        BY <2>2, <2>12, <3>1
      <4>5. QED
        BY <2>9, <4>1, <4>3, <4>4
    <3>5. Same(Outcome(space, call.op, Args'), Outcome(space, call.op, Args))
      BY <2>2, <3>3, <3>4, ShapedResult
    <3>6. space' = space /\ \A p \in Maps : Same(heap'[p], heap[p])
      BY <2>1, <2>2, <2>9
    <3>7. Goes(space', call'.op, call'.rest, heap', Outcome(space, call.op, Args'))
            = Goes(space, call.op, call.rest, heap, Outcome(space, call.op, Args))
      BY <1>1, <2>6, <3>5, <3>6, GoesOn
    <3>8. QED
      BY <2>6, <3>2, <3>6, <3>7
  <2>15. Meant'
    BY <2>6, <2>14 DEF Meant
  <2>16. QED
    BY <2>11, <2>13, <2>15 DEF Meaningful
<1>4. QED
  BY <1>2, <1>3

-------------------------------------------------------------------------------
(* The arguments are checked *)

LEMMA NarrowScales ==
  ASSUME NEW op, NEW f, Wide(op, f), \A i \in DOMAIN f : f[i].vs \in Definite \cup Indefinite
  PROVE  \A i \in DOMAIN f :
           /\ ArgScales(op, f)[i] \in Definite \cup Indefinite
           /\ f[i].vs \in Definite /\ ArgScales(op, f)[i] # {} => ArgScales(op, f)[i] = f[i].vs
           /\ \A j \in DOMAIN f : f[i] = f[j] => ArgScales(op, f)[i] = ArgScales(op, f)[j]
<1> SUFFICES ASSUME NEW i \in DOMAIN f
             PROVE  /\ ArgScales(op, f)[i] \in Definite \cup Indefinite
                    /\ f[i].vs \in Definite /\ ArgScales(op, f)[i] # {} =>
                         ArgScales(op, f)[i] = f[i].vs
                    /\ \A j \in DOMAIN f : f[i] = f[j] => ArgScales(op, f)[i] = ArgScales(op, f)[j]
  OBVIOUS
<1>1. CASE op \in {"abs", "badd"}
  <2>1. \A j \in DOMAIN f : ArgScales(op, f)[j] = f[j].vs \cap {"S"}
    BY <1>1 DEF ArgScales
  <2> DEFINE v == f[i].vs
  <2>2. v \in Definite \cup Indefinite
    OBVIOUS
  <2> HIDE DEF v
  <2>3. /\ v \cap {"S"} \in Definite \cup Indefinite
        /\ v \in Definite /\ v \cap {"S"} # {} => v \cap {"S"} = v
    BY <2>2, Meets
  <2>4. QED
    BY <2>1, <2>3 DEF v
<1>2. CASE op = "cover"
  <2>1. DOMAIN f = {1, 2}
    BY <1>2 DEF Wide
  <2> DEFINE v == f[1].vs
             w == f[2].vs
  <2>2. \A j \in DOMAIN f : ArgScales(op, f)[j] = v \cap w
    BY <1>2 DEF ArgScales
  <2>3. v \in Definite \cup Indefinite /\ w \in Definite \cup Indefinite
    BY <2>1
  <2>4. f[i].vs = v \/ f[i].vs = w
    BY <2>1
  <2> HIDE DEF v, w
  <2>5. /\ v \cap w \in Definite \cup Indefinite
        /\ v \in Definite /\ v \cap w # {} => v \cap w = v
    BY <2>3, Meets
  <2>6. w \in Definite /\ w \cap v # {} => v \cap w = w
    BY <2>3, Meets
  <2>7. f[i].vs \in Definite /\ v \cap w # {} => v \cap w = f[i].vs
    BY <2>4, <2>5, <2>6
  <2>8. QED
    BY <2>2, <2>5, <2>7
<1>3. CASE op \notin {"abs", "badd", "cover"}
  <2>1. \A j \in DOMAIN f : ArgScales(op, f)[j] = f[j].vs
    BY <1>3 DEF ArgScales
  <2>2. QED
    BY <2>1
<1>4. QED
  BY <1>1, <1>2, <1>3

\* One object gets the scales of one of its places among the operands.
LEMMA NarrowedObject ==
  ASSUME NEW g, NEW i \in DOMAIN Fields, Fields[i] \in Obj, Record(g[Fields[i]]),
         \A j \in DOMAIN Fields : Fields[i] = Fields[j] =>
           ArgScales(call.op, Operands)[j] = ArgScales(call.op, Operands)[i]
  PROVE  /\ Narrowed(g)[Fields[i]].cells = g[Fields[i]].cells
         /\ Narrowed(g)[Fields[i]].size = g[Fields[i]].size
         /\ Narrowed(g)[Fields[i]].vs = ArgScales(call.op, Operands)[i]
         /\ Narrowed(g)[Fields[i]].ro = g[Fields[i]].ro
<1> DEFINE o == Fields[i]
           vs == ArgScales(call.op, Operands)
           c == CHOOSE j \in DOMAIN Fields : Fields[j] = o
<1>1. o \in In(Fields)
  BY DEF In
<1>2. Narrowed(g)[o] = [g[o] EXCEPT !.vs = vs[c]]
  BY <1>1 DEF Narrowed
<1>3. c \in DOMAIN Fields /\ Fields[c] = o
  OBVIOUS
<1>4. vs[c] = vs[i]
  <2> HIDE DEF c
  <2>1. QED
    BY <1>3
<1> HIDE DEF o, vs, c
<1>5. LET y == [g[o] EXCEPT !.vs = vs[c]] IN
      y.cells = g[o].cells /\ y.vs = vs[c] /\ y.size = g[o].size /\ y.ro = g[o].ro
  BY FlagsSame, Members DEF o
<1>6. QED
  BY <1>2, <1>4, <1>5 DEF o, vs

LEMMA TopArgsNext ==
  (Inv /\ Calling /\ call.phase \in {"check", "exec"})' =>
    (/\ Pushed = Arity(call.op)
     /\ DOMAIN Top = 1..Arity(call.op) /\ \A i \in 1..Arity(call.op) : Top[i] = Arg(i)
     /\ Operands = FieldsOf(call.op, Args)
     /\ call.op # "lookup" => Fields = Top)'
<1>1. Inv /\ Calling /\ call.phase \in {"check", "exec"} =>
        /\ Pushed = Arity(call.op)
        /\ DOMAIN Top = 1..Arity(call.op) /\ \A i \in 1..Arity(call.op) : Top[i] = Arg(i)
        /\ Operands = FieldsOf(call.op, Args)
        /\ call.op # "lookup" => Fields = Top
  BY TopArgs
<1>2. QED
  BY <1>1, PTL

LEMMA CheckedPure ==
  ASSUME PureInv, Checked
  PROVE  Meaningful' /\ UNCHANGED Pure!vars
<1>1. /\ call.phase = "check" /\ WellTyped /\ call' = [call EXCEPT !.phase = "exec"]
      /\ UNCHANGED <<space, py>> /\ InProgress /\ Room
  BY DEF Checked, IsIdle, InProgress
<1>2. /\ call.op \in Operators /\ CallOK /\ Maps \subseteq Held /\ Held \subseteq Obj
      /\ Heap(heap) /\ Owned(heap, stack, Held, Tabled, Pending) /\ Inv /\ Calling
      /\ Pending = {} /\ In(stack) \subseteq Known
  BY <1>1, CallFacts DEF PureInv, Pending, Inv, StackOK
<1>3. /\ call'.phase = "exec" /\ call'.op = call.op /\ call'.args = call.args
      /\ call'.rest = call.rest /\ call'.meant = call.meant /\ call.args = << >>
  BY <1>1, <1>2 DEF CallOK, Calling
<1> DEFINE f == Operands
           vs == ArgScales(call.op, f)
<1>4. /\ Pushed = Arity(call.op)
      /\ \A i \in 1..Arity(call.op) : Top[i] = Arg(i)
      /\ [i \in DOMAIN Top |-> heap[Top[i]]] = Args
      /\ f = FieldsOf(call.op, Args)
      /\ call.op # "lookup" => Fields = Top
  BY <1>1, <1>2, TopArgs
<1>5. Wide(call.op, f)
  BY <1>2, <1>4, ShapedArgs, FieldsShape
<1>6. AcceptedAt(space, call.op, Args)
  BY <1>1, <1>4, AtSpace DEF WellTyped
<1>7. \A i \in DOMAIN f : vs[i] # {}
  BY <1>4, <1>6 DEF AcceptedAt
<1>8. f = [i \in DOMAIN Fields |-> heap[Fields[i]]] /\ In(Fields) \subseteq Held
      /\ In(Top) \subseteq Held
  <2>1. stack \in Seq(Pointer) /\ Len(stack) >= Arity(call.op)
    BY <1>1, <1>2 DEF Owned, Inv, StackOK
  <2>2. QED
    BY <1>1, <1>2, <2>1, TopFacts, TopHeld DEF Operands
<1> HIDE DEF f
<1>9. /\ DOMAIN f = DOMAIN Fields
      /\ \A i \in DOMAIN Fields : f[i] = heap[Fields[i]] /\ Fields[i] \in Held
  BY <1>8 DEF In
<1>10. \A i \in DOMAIN f : f[i].vs \in Definite \cup Indefinite
  BY <1>9 DEF PureInv, Scaled
<1>11. \A i \in DOMAIN f :
         /\ vs[i] \in Definite \cup Indefinite
         /\ f[i].vs \in Definite /\ vs[i] # {} => vs[i] = f[i].vs
         /\ \A j \in DOMAIN f : f[i] = f[j] => vs[i] = vs[j]
  BY <1>5, <1>10, NarrowScales
<1>12. Fields' = Fields /\ \E h : /\ heap' = Narrowed(h) /\ Heap(h)
                                  /\ \A o \in Held : Same(h[o], heap[o])
                                  /\ call.op # "lookup" => h = heap
  <2>1. CASE LoadTable
    <3>1. Fields' = Fields
      BY <1>1, <1>2, <2>1, LoadTableOwned
    <3>2. PICK h : /\ heap' = Narrowed(DeleteFromPcrme(h, {Top[1]}))
                   /\ Owned(h, stack, Held, Tabled', {}) /\ \A o \in Held : h[o] = heap[o]
      BY <1>1, <1>2, <2>1, LoadTableOwned
    <3>3. Top[1] \in Held /\ Top[1] \in In(stack)
          /\ stack \in Seq(Pointer)
      <4>1. stack \in Seq(Pointer) /\ Len(stack) >= Arity(call.op)
        BY <1>1, <1>2 DEF Owned, Inv, StackOK
      <4>2. /\ In(Top) = {Top[1]} \cup In(Fields)
            /\ In(Base) \cup In(Top) = In(stack)
        BY <2>1, <4>1, TopFacts DEF LoadTable
      <4>3. QED
        BY <1>8, <4>1, <4>2
    <3>4. \A o \in Held : Same(DeleteFromPcrme(h, {Top[1]})[o], h[o])
      BY <3>2, <3>3, DropSame
    <3>5. Heap(DeleteFromPcrme(h, {Top[1]}))
      <4> DEFINE D == {Top[1]}
      <4>1. /\ D \subseteq Held \cup Tabled' \cup {} \cup {Dangling} /\ D \cap Held \subseteq In(stack)
            /\ In(stack) \cap Held \subseteq In(stack) /\ In(stack) \subseteq In(stack) \cup D
        BY <1>2, <3>3
      <4> HIDE DEF D
      <4>2. Owned(DeleteFromPcrme(h, D), stack, Held, Tabled', {} \ D)
        BY <3>2, <3>3, <4>1, DropOwned
      <4>3. QED
        BY <4>2 DEF Owned, D
    <3>6. \A o \in Held : Same(DeleteFromPcrme(h, {Top[1]})[o], heap[o])
      BY <3>2, <3>4
    <3>7. call.op = "lookup"
      BY <2>1 DEF LoadTable
    <3>8. QED
      BY <3>1, <3>2, <3>5, <3>6, <3>7
  <2>2. CASE call.op # "lookup" /\ heap' = Narrowed(heap) /\ UNCHANGED <<table, stack>>
    <3>1. Base' = Base
      BY <1>3, <2>2 DEF Base
    <3>2. Top' = Top
      BY <2>2, <3>1 DEF Top
    <3>3. Fields' = Fields
      BY <1>3, <3>2 DEF Fields
    <3>4. \A o \in Held : Same(heap[o], heap[o])
      BY DEF Same
    <3>5. QED
      BY <1>2, <2>2, <3>3, <3>4
  <2>3. QED
    BY <2>1, <2>2 DEF Checked
<1>13. PICK h : /\ heap' = Narrowed(h) /\ Heap(h)
                /\ \A o \in Held : Same(h[o], heap[o])
                /\ call.op # "lookup" => h = heap
  BY <1>12
<1>14. ASSUME NEW i \in DOMAIN Fields
       PROVE  /\ heap'[Fields[i]].cells = f[i].cells /\ heap'[Fields[i]].size = f[i].size
              /\ heap'[Fields[i]].vs = vs[i]
              /\ call.op # "lookup" => heap'[Fields[i]].ro = heap[Fields[i]].ro
  <2>1. Fields[i] \in Obj /\ Record(h[Fields[i]])
    BY <1>2, <1>9, <1>13 DEF Heap
  <2>2. \A j \in DOMAIN Fields : Fields[i] = Fields[j] => vs[j] = vs[i]
    BY <1>9, <1>11
  <2>3. /\ heap'[Fields[i]].cells = h[Fields[i]].cells
        /\ heap'[Fields[i]].size = h[Fields[i]].size
        /\ heap'[Fields[i]].vs = vs[i] /\ heap'[Fields[i]].ro = h[Fields[i]].ro
    BY <1>13, <2>1, <2>2, NarrowedObject DEF f
  <2>4. h[Fields[i]].cells = heap[Fields[i]].cells /\ h[Fields[i]].size = heap[Fields[i]].size
    BY <1>9, <1>13, ValueFields
  <2>5. QED
    BY <1>9, <1>13, <2>3, <2>4
<1>15. ASSUME NEW o \in Held
       PROVE  /\ heap'[o].vs \in Definite \cup Indefinite
              /\ heap[o].vs \in Definite => Same(heap'[o], heap[o])
  <2>1. CASE o \in In(Fields)
    <3>1. PICK i \in DOMAIN Fields : o = Fields[i]
      BY <2>1 DEF In
    <3>2. /\ heap'[o].cells = heap[o].cells /\ heap'[o].size = heap[o].size
          /\ heap'[o].vs = vs[i]
      BY <1>9, <1>14, <3>1
    <3>3. heap[o].vs \in Definite => heap'[o].vs = heap[o].vs
      BY <1>7, <1>9, <1>11, <3>1, <3>2
    <3>4. vs[i] \in Definite \cup Indefinite
      BY <1>9, <1>11, <3>1
    <3>5. QED
      BY <3>2, <3>3, <3>4, ValueFields
  <2>2. CASE o \notin In(Fields)
    <3>1. heap'[o] = h[o]
      BY <1>2, <1>13, <2>2 DEF Narrowed
    <3>2. Same(heap'[o], heap[o]) /\ heap'[o].vs = heap[o].vs
      BY <1>13, <3>1, ValueFields
    <3>3. QED
      BY <3>2 DEF PureInv, Scaled
  <2>3. QED
    BY <2>1, <2>2
<1>16. \A o \in Maps : Same(heap'[o], heap[o])
  BY <1>2, <1>15 DEF PureInv, Scaled
<1>17. UNCHANGED Pure!vars /\ Calling' /\ Scaled'
  <2>1. InProgress' /\ call'.phase # "pop"
    BY <1>3 DEF IsIdle, InProgress
  <2>2. Len(call'.args) <= Arity(call.op) /\ (call'.phase # "push" => call'.args = << >>)
    BY <1>2, <1>3, <1>1 DEF Calling
  <2>3. QED
    BY <1>1, <1>3, <1>15, <1>16, <2>1, <2>2, Stays
<1>18. /\ Pushed' = Arity(call.op)
       /\ DOMAIN Top' = 1..Arity(call.op) /\ \A i \in 1..Arity(call.op) : Top'[i] = Arg(i)'
       /\ Operands' = FieldsOf(call.op, Args')
       /\ call.op # "lookup" => Fields' = Top'
  <2>1. Inv'
    BY <1>2, CheckedInv
  <2>2. QED
    BY <1>3, <1>17, <2>1, TopArgsNext
<1>19. Operands' = [i \in DOMAIN Fields |-> heap'[Fields[i]]]
  BY <1>12 DEF Operands
<1>20. Narrow(call.op, FieldsOf(call.op, Args), FieldsOf(call.op, Args'))
  BY <1>4, <1>9, <1>14, <1>18, <1>19 DEF Narrow
<1>21. /\ AcceptedAt(space, call.op, Args')
       /\ Same(Outcome(space, call.op, Args), Outcome(space, call.op, Args'))
  BY <1>4, <1>5, <1>6, <1>20, NarrowResult
<1>22. Locked'
  <2>1. ASSUME InPlace, NEW i \in 1..Arity(call.op) PROVE heap'[Arg(i)'].ro
    <3>1. call.op # "lookup"
      BY <2>1 DEF InPlace
    <3>2. i \in DOMAIN Fields /\ Fields[i] = Arg(i) /\ Fields[i] = Arg(i)'
      BY <1>4, <1>12, <1>18, <3>1
    <3>3. heap[Arg(i)].ro
      BY <1>1, <1>4, <2>1 DEF PureInv, Locked, Asking
    <3>4. QED
      BY <1>14, <3>1, <3>2, <3>3
  <2>2. InPlace' <=> InPlace
    BY <1>3 DEF InPlace
  <2>3. QED
    BY <1>18, <2>1, <2>2 DEF Locked
<1>23. Meant'
  <2>1. call.meant = Goes(space, call.op, call.rest, heap, Outcome(space, call.op, Args))
    <3>1. NotAField \notin In(call.args)
      BY <1>3 DEF In
    <3>2. QED
      BY <1>1, <3>1 DEF PureInv, Meant, Asking
  <2>2. Same(Outcome(space, call.op, Args'), Outcome(space, call.op, Args))
    BY <1>21 DEF Same
  <2>3. Goes(space', call'.op, call'.rest, heap', Outcome(space, call.op, Args'))
          = Goes(space, call.op, call.rest, heap, Outcome(space, call.op, Args))
    BY <1>1, <1>3, <1>16, <2>2, GoesOn
  <2>4. QED
    BY <1>1, <1>3, <1>21, <2>1, <2>3 DEF Meant
<1>24. QED
  BY <1>17, <1>22, <1>23 DEF Meaningful

-------------------------------------------------------------------------------
(* Execution *)

\* The result of an operation is a field of one scale.
LEMMA ResultDefinite ==
  ASSUME NoOrdinals, NEW op \in Operators, NEW f, Wide(op, f),
         \A i \in DOMAIN f : f[i].vs \in Definite \cup Indefinite,
         Cardinality(ResultScales(op, f)) = 1
  PROVE  ResultScales(op, f) \in Definite
<1>1. op \in {"abs", "badd", "cover", "nominal", "scalar", "lookup"}
  BY EngineAssumption DEF NoOrdinals
<1>2. CASE op = "cover"
  <2>1. 1 \in DOMAIN f /\ ResultScales(op, f) = ArgScales(op, f)[1]
    BY <1>2 DEF Wide, ResultScales
  <2>2. ResultScales(op, f) \in Definite \cup Indefinite
    BY <2>1, NarrowScales
  <2>3. QED
    BY <2>2, OneScale
<1>3. CASE op \in {"abs", "badd", "scalar"}
  <2>1. ResultScales(op, f) = {"S"}
    BY <1>3 DEF ResultScales, Target
  <2>2. QED
    BY <2>1 DEF Definite
<1>4. CASE op \in {"lookup", "nominal"}
  <2>1. ResultScales(op, f) = {"N"}
    BY <1>4 DEF ResultScales, Target
  <2>2. QED
    BY <2>1 DEF Definite
<1>5. QED
  BY <1>1, <1>2, <1>3, <1>4

\* The operand that is overwritten has the size of the result.
LEMMA DestSize ==
  ASSUME NEW z, NEW f, Wide(call.op, f), f = [i \in 1..Len(f) |-> f[i]], Len(f) \in {1, 2},
         \A i \in DOMAIN f : f[i].size \in {0, z}
  PROVE  DestArg(f) \in DOMAIN f /\ f[DestArg(f)].size = SizeOf(f)
<1>1. SizeOf(f) = IF \E i \in DOMAIN f : f[i].size # 0 THEN z ELSE 0
  <2>1. \A i \in DOMAIN f : f[i].size \in {0, z}
    OBVIOUS
  <2>2. QED
    BY ONLY <2>1, SizeFits
<1>2. DOMAIN f = 1..Len(f) /\ f[1].size \in {0, z}
  BY DEF Wide
<1>3. CASE Len(f) = 1
  <2>1. DOMAIN f = {1} /\ DestArg(f) = 1
    BY <1>2, <1>3, OneTwo DEF DestArg
  <2>2. QED
    BY <1>1, <1>2, <2>1
<1>4. CASE Len(f) # 1
  <2>1. DOMAIN f = {1, 2}
    BY <1>2, <1>4, OneTwo
  <2> DEFINE a == f[1].size
             b == f[2].size
  <2>2. /\ DestArg(f) \in {1, 2} /\ (a = 0 /\ b # 0 => DestArg(f) = 2)
        /\ (a # 0 /\ b = 0 => DestArg(f) = 1)
    BY <1>4 DEF DestArg
  <2>3. a \in {0, z} /\ b \in {0, z} /\ SizeOf(f) = IF a # 0 \/ b # 0 THEN z ELSE 0
    BY <1>1, <2>1
  <2>4. f[DestArg(f)].size = (IF DestArg(f) = 1 THEN a ELSE b)
    BY <2>2
  <2> HIDE DEF a, b
  <2>5. QED
    BY <2>1, <2>2, <2>3, <2>4
<1>5. QED
  BY <1>3, <1>4

PutIn(h, o, c, v) == [h EXCEPT ![o].cells = c, ![o].vs = v]

LEMMA PutContents ==
  ASSUME NEW h, Heap(h), NEW o \in Obj, NEW c, NEW v
  PROVE  /\ PutIn(h, o, c, v)[o].cells = c /\ PutIn(h, o, c, v)[o].vs = v
         /\ PutIn(h, o, c, v)[o].size = h[o].size
         /\ \A p \in Obj : p # o => PutIn(h, o, c, v)[p] = h[p]
<1> DEFINE y == [h[o] EXCEPT !.cells = c]
           x == [y EXCEPT !.vs = v]
           g == PutIn(h, o, c, v)
<1>1. Record(h[o])
  BY DEF Heap
<1>2. Record(y) /\ y.cells = c /\ y.size = h[o].size
  BY <1>1, Members, FlagsSame
<1> HIDE DEF y
<1>3. x.cells = c /\ x.vs = v /\ x.size = h[o].size
  BY <1>2, FlagsSame
<1>4. g = [h EXCEPT ![o] = x]
  BY DEF Heap, y, PutIn
<1> HIDE DEF x
<1>5. [h EXCEPT ![o] = x][o] = x /\ \A p \in Obj : p # o => [h EXCEPT ![o] = x][p] = h[p]
  BY PutHeap
<1>6. QED
  BY <1>3, <1>4, <1>5

\* A new object gets what the operation has to give, and nothing else changes.
LEMMA WrittenMeaning ==
  ASSUME PureInv, NoOrdinals, call.phase = "exec", Room, ~Nop
  PROVE  /\ Written.obj \in Obj /\ Written.obj \notin Held
         /\ Same(Written.h[Written.obj], Outcome(space, call.op, Args))
         /\ Written.h[Written.obj].vs \in Definite
         /\ \A o \in Held : Written.h[o] = heap[o]
<1> DEFINE n == New(heap)
           f == Operands
           r == Result(call.op, Args)
<1>1. /\ call.op \in Operators /\ Inv /\ Calling /\ InProgress /\ Heap(heap) /\ Held \subseteq Obj
      /\ In(Fields) \subseteq Held /\ Owned(heap, stack, Held, Tabled, {})
      /\ stack \in Seq(Pointer) /\ Len(stack) >= Arity(call.op)
  <2>1. InProgress
    BY DEF IsIdle, InProgress
  <2>2. QED
    BY <2>1, CallFacts, ExecFacts DEF PureInv
<1>2. n \in Obj /\ n \notin Held
  <2>1. n \in Obj \ Alive(heap)
    BY FreshNew DEF Room, Live, Alive
  <2>2. QED
    BY <1>1, <2>1 DEF Owned
<1>3. /\ Pushed = Arity(call.op)
      /\ \A i \in 1..Arity(call.op) : Top[i] = Arg(i)
      /\ [i \in DOMAIN Top |-> heap[Top[i]]] = Args
      /\ f = FieldsOf(call.op, Args)
      /\ call.op # "lookup" => Fields = Top
      /\ DOMAIN Top = 1..Arity(call.op)
  BY <1>1, TopArgs
<1>4. Wide(call.op, f)
  BY <1>1, <1>3, ShapedArgs, FieldsShape
<1>5. f = [i \in DOMAIN Fields |-> heap[Fields[i]]]
  BY DEF Operands
<1> HIDE DEF n, f
<1>6. /\ DOMAIN f = DOMAIN Fields
      /\ \A i \in DOMAIN Fields : f[i] = heap[Fields[i]] /\ Fields[i] \in Held
  BY <1>1, <1>5 DEF In
<1>7. \A i \in DOMAIN f : f[i].vs \in Definite \cup Indefinite
  BY <1>6 DEF PureInv, Scaled
<1>8. AcceptedAt(space, call.op, Args)
  BY DEF PureInv, Meant
<1>9. /\ \A i \in DOMAIN f : f[i].size \in {0, space}
      /\ Cardinality(ResultScales(call.op, f)) = 1
  BY <1>3, <1>8 DEF AcceptedAt
<1>10. Outcome(space, call.op, Args) = r
  BY <1>8 DEF Outcome
<1>11. r.vs = ResultScales(call.op, f) /\ r.size = SizeOf(f)
  BY <1>3, ObjectContents DEF Result
<1>12. r.vs \in Definite
  BY <1>1, <1>4, <1>7, <1>9, <1>11, ResultDefinite
<1> HIDE DEF r
<1>13. \E g : /\ Destination = [h |-> g, obj |-> n] /\ Heap(g) /\ g[n].size = r.size
              /\ \A o \in Held : g[o] = heap[o]
  <2>1. CASE InPlace
    <3> DEFINE i == DestArg(f)
               d == Fields[i]
               x == Object(heap[d].kind, heap[d].cells, heap[d].vs, heap[d].size)
    <3>1. call.op # "lookup" /\ Fields = Top /\ DOMAIN Fields = 1..Arity(call.op)
      BY <1>3, <2>1 DEF InPlace
    <3>2. Len(f) = Arity(call.op) /\ f = [j \in 1..Len(f) |-> f[j]]
      <4> DEFINE k == Arity(call.op)
      <4>1. k \in Nat /\ f = [j \in 1..k |-> f[j]]
        BY <1>5, <1>6, <3>1, ArityValues
      <4> HIDE DEF k
      <4>2. f \in [1..k -> {f[j] : j \in 1..k}]
        BY <4>1
      <4>3. Len(f) = k
        BY <4>1, <4>2, FunctionSeq
      <4>4. QED
        BY <4>1, <4>3 DEF k
    <3>3. Len(f) \in {1, 2}
      BY <3>2, ArityValues
    <3>4. i \in DOMAIN f /\ f[i].size = SizeOf(f)
      BY <1>4, <1>9, <3>2, <3>3, DestSize
    <3>5. heap[d].ro /\ d \in Held /\ heap[d].size = SizeOf(f)
      <4> HIDE DEF i
      <4>1. i \in 1..Pushed /\ d = Arg(i) /\ d \in Held /\ f[i] = heap[d]
        BY <1>3, <1>6, <3>1, <3>4
      <4>2. QED
        BY <2>1, <3>4, <4>1 DEF PureInv, Locked, Asking
    <3>6. Destination = Clone(heap, d)
      BY <2>1, <3>5 DEF Destination, f
    <3>7. Clone(heap, d) = [h |-> [heap EXCEPT ![n] = x], obj |-> n]
      BY DEF Clone, n
    <3>8. Record(x) /\ x.size = heap[d].size
      BY ObjectRecord, ObjectContents
    <3> HIDE DEF i, d, x
    <3>9. /\ Heap([heap EXCEPT ![n] = x]) /\ [heap EXCEPT ![n] = x][n] = x
          /\ \A p \in Obj : p # n => [heap EXCEPT ![n] = x][p] = heap[p]
      BY <1>1, <1>2, <3>8, HeapExcept
    <3> DEFINE g == [heap EXCEPT ![n] = x]
    <3>10. Destination = [h |-> g, obj |-> n]
      BY <3>6, <3>7
    <3> HIDE DEF g
    <3>11. Heap(g) /\ g[n].size = r.size
      BY <1>11, <3>5, <3>8, <3>9 DEF g
    <3>12. \A o \in Held : g[o] = heap[o]
      BY <1>1, <1>2, <3>9 DEF g
    <3>13. QED
      BY <3>10, <3>11, <3>12
  <2>2. CASE ~InPlace
    <3>1. Destination = [h |-> [heap EXCEPT ![n] = r], obj |-> n]
      BY <1>3, <2>2 DEF Destination, n, r
    <3>2. Record(r)
      BY ObjectRecord DEF Result, r
    <3>3. /\ Heap([heap EXCEPT ![n] = r]) /\ [heap EXCEPT ![n] = r][n] = r
          /\ \A p \in Obj : p # n => [heap EXCEPT ![n] = r][p] = heap[p]
      BY <1>1, <1>2, <3>2, HeapExcept
    <3>4. QED
      BY <1>1, <1>2, <3>1, <3>3
  <2>3. QED
    BY <2>1, <2>2
<1>14. PICK g : /\ Destination = [h |-> g, obj |-> n] /\ Heap(g) /\ g[n].size = r.size
                /\ \A o \in Held : g[o] = heap[o]
  BY <1>13
<1> DEFINE w == PutIn(g, n, r.cells, r.vs)
<1>15. Written = [h |-> w, obj |-> n]
  <2>1. Destination.h = g /\ Destination.obj = n
    BY <1>14
  <2>2. QED
    BY <1>3, <2>1 DEF Written, r, PutIn
<1>16. /\ w[n].cells = r.cells /\ w[n].vs = r.vs /\ w[n].size = g[n].size
       /\ \A p \in Obj : p # n => w[p] = g[p]
  <2> DEFINE c == r.cells
             v == r.vs
  <2> HIDE DEF c, v
  <2>1. w = PutIn(g, n, c, v)
    BY DEF c, v
  <2> HIDE DEF w
  <2>2. /\ PutIn(g, n, c, v)[n].cells = c /\ PutIn(g, n, c, v)[n].vs = v
        /\ PutIn(g, n, c, v)[n].size = g[n].size
        /\ \A p \in Obj : p # n => PutIn(g, n, c, v)[p] = g[p]
    BY <1>2, <1>14, PutContents
  <2>3. QED
    BY <2>1, <2>2 DEF c, v
<1> HIDE DEF w
<1>17. Same(w[n], r)
  BY <1>14, <1>16, ValueFields
<1>18. QED
  BY <1>1, <1>2, <1>10, <1>12, <1>14, <1>15, <1>16, <1>17

LEMMA ExecutePure ==
  ASSUME PureInv, NoOrdinals, Execute
  PROVE  Meaningful' /\ UNCHANGED Pure!vars
<1> DEFINE o == Written.obj
           w == Written.h
           D == In(Top) \ {o}
<1>1. /\ call.phase = "exec" /\ ~Nop /\ Room /\ heap' = DeleteFromPcrme(w, D)
      /\ stack' = Append(Base, o) /\ call' = [call EXCEPT !.phase = "pop"]
      /\ UNCHANGED <<table, space, py>> /\ InProgress
  BY DEF Execute, IsIdle, InProgress
<1>2. /\ o \in Obj /\ o \notin Held
      /\ Same(w[o], Outcome(space, call.op, Args))
      /\ w[o].vs \in Definite
      /\ \A p \in Held : w[p] = heap[p]
  BY <1>1, WrittenMeaning
<1>3. Owned(w, stack, Held, Tabled, {o} \ Held)
  BY <1>1, WrittenOwned DEF PureInv
<1>4. /\ call.op \in Operators /\ CallOK /\ Maps \subseteq Held /\ Held \subseteq Obj
      /\ stack \in Seq(Pointer) /\ Len(stack) >= Arity(call.op) /\ Calling
  BY <1>1, CallFacts, ExecFacts DEF PureInv
<1>5. /\ call'.phase = "pop" /\ call'.op = call.op /\ call'.args = call.args
      /\ call'.rest = call.rest /\ call'.meant = call.meant /\ call.args = << >>
      /\ Len(call.args) <= Arity(call.op)
  BY <1>1, <1>4 DEF CallOK, Calling
<1>6. Base \in Seq(Pointer) /\ In(Top) \subseteq In(stack)
  BY <1>4, TopFacts
<1> HIDE DEF o, w
<1>7. \A p \in Held : Same(heap'[p], heap[p])
  <2>1. D \cap Held \subseteq In(stack)
    BY <1>6
  <2>2. \A p \in Held : Same(DeleteFromPcrme(w, D)[p], w[p])
    BY <1>3, <2>1, DropSame
  <2>3. QED
    BY <1>1, <1>2, <2>2
<1>8. heap'[o] = w[o]
  <2>1. o \notin D
    OBVIOUS
  <2>2. QED
    BY <1>1, <1>2, <2>1 DEF DeleteFromPcrme
<1>9. stack'[Len(stack')] = o
  BY <1>1, <1>2, <1>6
<1> HIDE DEF D
<1>10. UNCHANGED Pure!vars /\ Calling' /\ Scaled'
  <2>1. InProgress'
    BY <1>5 DEF IsIdle, InProgress
  <2>2. \A p \in Held : heap'[p].vs \in Definite \cup Indefinite
    BY <1>7, ValueFields DEF PureInv, Scaled
  <2>3. \A p \in Maps : Same(heap'[p], heap[p])
    BY <1>4, <1>7
  <2>4. heap'[stack'[Len(stack')]].vs \in Definite
    BY <1>2, <1>8, <1>9
  <2>5. QED
    BY <1>1, <1>5, <2>1, <2>2, <2>3, <2>4, Stays
<1>11. Locked'
  BY <1>5 DEF Locked, Asking
<1>12. Meant'
  <2>1. call.meant = Goes(space, call.op, call.rest, heap, Outcome(space, call.op, Args))
    <3>1. NotAField \notin In(call.args)
      BY <1>5 DEF In
    <3>2. QED
      BY <1>1, <3>1 DEF PureInv, Meant, Asking
  <2>2. \A p \in Maps : Same(heap'[p], heap[p])
    BY <1>4, <1>7
  <2>3. Goes(space', call'.op, call'.rest, heap', w[o])
          = Goes(space, call.op, call.rest, heap, Outcome(space, call.op, Args))
    BY <1>1, <1>2, <1>5, <2>2, GoesOn
  <2>4. QED
    BY <1>5, <1>8, <1>9, <2>1, <2>3 DEF Meant, Asking
<1>13. QED
  BY <1>10, <1>11, <1>12 DEF Meaningful

LEMMA DomainErrorPure ==
  ASSUME PureInv, NoOrdinals, DomainError
  PROVE  Meaningful' /\ Pure!Raise
<1> DEFINE o == Written.obj
           w == Written.h
           D == In(Top) \cup {o}
<1>1. /\ call.phase = "exec" /\ ~Nop /\ Room /\ Raise(DeleteFromPcrme(w, D), Base) /\ InProgress
  BY DEF DomainError, IsIdle, InProgress
<1>2. o \notin Held /\ \A p \in Held : w[p] = heap[p]
  BY <1>1, WrittenMeaning
<1>3. Owned(w, stack, Held, Tabled, {o} \ Held)
  BY <1>1, WrittenOwned DEF PureInv
<1>4. In(Top) \subseteq In(stack)
  <2>1. stack \in Seq(Pointer) /\ Len(stack) >= Arity(call.op)
    BY <1>1, ExecFacts DEF PureInv
  <2>2. QED
    BY <2>1, TopFacts
<1> HIDE DEF o, w
<1>5. D \cap Held \subseteq In(stack)
  BY <1>2, <1>4
<1>6. \A p \in Held : Same(DeleteFromPcrme(w, D)[p], w[p])
  BY <1>3, <1>5, DropSame
<1> HIDE DEF D
<1>7. \A p \in Held : Same(DeleteFromPcrme(w, D)[p], heap[p])
  BY <1>2, <1>6
<1>8. QED
  BY <1>1, <1>7, RaisePure

\* A conversion that leaves the cells as they are changes no field that the
\* program has: such a field has one scale, the one that is asked for.
LEMMA ConvertPure ==
  ASSUME PureInv, NoOrdinals, Convert
  PROVE  Meaningful' /\ UNCHANGED Pure!vars
<1> DEFINE o == Top[1]
           t == Target(call.op)
           x == [heap[o] EXCEPT !.vs = {t}]
<1>1. /\ call.phase = "exec" /\ Nop /\ heap' = [heap EXCEPT ![o].vs = {t}] /\ InProgress
      /\ call' = [call EXCEPT !.phase = "pop"] /\ UNCHANGED <<stack, table, space, py>>
  BY DEF Convert, IsIdle, InProgress
<1>2. /\ call.op \in Operators /\ CallOK /\ Maps \subseteq Held /\ Held \subseteq Obj
      /\ Heap(heap) /\ stack \in Seq(Pointer) /\ Calling /\ Inv
      /\ Len(stack) >= Arity(call.op) /\ In(Fields) \subseteq Held
  BY <1>1, CallFacts, ExecFacts DEF PureInv
<1>3. /\ call'.phase = "pop" /\ call'.op = call.op /\ call'.args = call.args
      /\ call'.rest = call.rest /\ call'.meant = call.meant /\ call.args = << >>
      /\ Len(call.args) <= Arity(call.op)
  BY <1>1, <1>2 DEF CallOK, Calling
<1>4. /\ IsConversion(call.op) /\ IsNop(call.op, Operands[1])
      /\ call.op \in {"nominal", "scalar"} /\ Arity(call.op) = 1
  BY <1>1, <1>2 DEF Nop, NoOrdinals, IsConversion, Arity
<1>5. /\ Pushed = 1 /\ Top[1] = Arg(1) /\ Fields = Top /\ DOMAIN Top = {1}
      /\ Operands = FieldsOf(call.op, Args)
  <2>1. /\ Pushed = Arity(call.op) /\ \A i \in 1..Arity(call.op) : Top[i] = Arg(i)
        /\ DOMAIN Top = 1..Arity(call.op) /\ Operands = FieldsOf(call.op, Args)
        /\ call.op # "lookup" => Fields = Top
    BY <1>1, <1>2, TopArgs
  <2>2. QED
    BY <1>4, <2>1, OneTwo
<1>6. o = stack[Len(stack)]
  <2>1. Arg(1) = stack[Len(stack) - 1 + 1]
    BY <1>5 DEF Arg
  <2>2. Len(stack) - 1 + 1 = Len(stack)
    BY <1>2
  <2>3. QED
    BY <1>5, <2>1, <2>2
<1>7. o \in Held /\ o \in Obj
  BY <1>2, <1>5 DEF In
<1>8. /\ Operands = FieldsOf(call.op, Args) /\ FieldsOf(call.op, Args) = Args
      /\ DOMAIN Args = {1} /\ Args[1] = heap[o]
  <2>1. FieldsOf(call.op, Args) = Args
    BY <1>4 DEF FieldsOf
  <2>2. DOMAIN Args = {1}
    BY <1>4, OneTwo DEF Args
  <2>3. Args[1] = heap[o]
    BY <1>4, <1>5, OneTwo DEF Args
  <2>4. QED
    BY <1>5, <2>1, <2>2, <2>3
<1> HIDE DEF o
<1>9. Record(heap[o])
  BY <1>2, <1>7 DEF Heap
<1>10. t \in {"N", "S"} /\ {t} \in Definite
  BY <1>4 DEF Target, Definite
<1>11. heap[o].vs \in Definite => heap[o].vs = {t}
  <2>1. IsNop(call.op, heap[o])
    BY <1>4, <1>8
  <2>2. BiggestVs(heap[o].vs) = t \/ {BiggestVs(heap[o].vs), t} = {"N", "O"}
    BY <2>1 DEF IsNop
  <2> HIDE DEF t
  <2>3. QED
    BY <1>10, <2>2 DEF BiggestVs, Definite
<1> HIDE DEF t
<1>12. x.cells = heap[o].cells /\ x.vs = {t} /\ x.size = heap[o].size
  BY <1>9, FlagsSame
<1>13. heap' = [heap EXCEPT ![o] = x]
  BY <1>1, <1>2 DEF Heap
<1> HIDE DEF x
<1>14. heap'[o] = x /\ \A p \in Obj : p # o => heap'[p] = heap[p]
  <2>1. [heap EXCEPT ![o] = x][o] = x /\ \A p \in Obj : p # o => [heap EXCEPT ![o] = x][p] = heap[p]
    BY <1>2, <1>7 DEF Heap
  <2>2. QED
    BY <1>13, <2>1
<1>15. ASSUME NEW p \in Held
       PROVE  /\ heap'[p].vs \in Definite \cup Indefinite
              /\ heap[p].vs \in Definite => Same(heap'[p], heap[p])
  <2>1. CASE p = o
    BY <1>10, <1>11, <1>12, <1>14, <2>1, ValueFields
  <2>2. CASE p # o
    <3>1. heap'[p] = heap[p]
      BY <1>2, <1>14, <2>2
    <3>2. QED
      BY <3>1 DEF PureInv, Scaled, Same
  <2>3. QED
    BY <2>1, <2>2
<1>16. \A p \in Maps : Same(heap'[p], heap[p])
  BY <1>2, <1>15 DEF PureInv, Scaled
<1>17. UNCHANGED Pure!vars /\ Calling' /\ Scaled'
  <2>1. InProgress'
    BY <1>3 DEF IsIdle, InProgress
  <2>2. heap'[stack'[Len(stack')]].vs \in Definite
    BY <1>1, <1>6, <1>10, <1>12, <1>14
  <2>3. QED
    BY <1>1, <1>3, <1>15, <1>16, <2>1, <2>2, Stays
<1>18. Locked'
  BY <1>3 DEF Locked, Asking
<1>19. Same(heap'[o], Outcome(space, call.op, Args))
  <2> DEFINE r == Result(call.op, Args)
  <2>1. AcceptedAt(space, call.op, Args)
    BY <1>1 DEF PureInv, Meant
  <2>2. Outcome(space, call.op, Args) = r
    BY <2>1 DEF Outcome
  <2>3. /\ r.cells = CellsOf(call.op, Args) /\ r.vs = ResultScales(call.op, Args)
        /\ r.size = SizeOf(Args)
    BY <1>8, ObjectContents DEF Result
  <2> HIDE DEF r
  <2>4. r.cells = heap[o].cells
    BY <1>4, <1>8, <2>3 DEF CellsOf
  <2>5. r.vs = {t}
    BY <1>4, <2>3 DEF ResultScales, t
  <2>6. r.size = heap[o].size
    <3> DEFINE a == Args
    <3>1. \A i \in DOMAIN a : a[i].size \in {0, space}
      BY <1>8, <2>1 DEF AcceptedAt
    <3>2. DOMAIN a = {1} /\ a[1] = heap[o]
      BY <1>8
    <3> HIDE DEF a
    <3>3. SizeOf(a) = IF \E i \in DOMAIN a : a[i].size # 0 THEN space ELSE 0
      BY <3>1, SizeFits
    <3>4. SizeOf(a) = heap[o].size
      BY <3>1, <3>2, <3>3
    <3>5. QED
      BY <2>3, <3>4 DEF a
  <2>7. QED
    BY <1>12, <1>14, <2>2, <2>4, <2>5, <2>6, ValueFields
<1>20. Meant'
  <2>1. call.meant = Goes(space, call.op, call.rest, heap, Outcome(space, call.op, Args))
    <3>1. NotAField \notin In(call.args)
      BY <1>3 DEF In
    <3>2. QED
      BY <1>1, <3>1 DEF PureInv, Meant, Asking
  <2>2. Goes(space', call'.op, call'.rest, heap', heap'[o])
          = Goes(space, call.op, call.rest, heap, Outcome(space, call.op, Args))
    BY <1>1, <1>3, <1>16, <1>19, GoesOn
  <2>3. QED
    BY <1>1, <1>3, <1>6, <2>1, <2>2 DEF Meant, Asking
<1>21. QED
  BY <1>17, <1>18, <1>20 DEF Meaningful

-------------------------------------------------------------------------------
(* The result *)

\* What the program gets is the result, in an object of its own.
LEMMA ReleasedSame ==
  ASSUME Inv, call.phase = "pop", Room, NEW top, top = stack[Len(stack)], NEW r, r = Release(top)
  PROVE  /\ Same(r.h[r.obj], heap[top])
         /\ \A p \in Held : Same(r.h[p], heap[p])
<1>1. /\ r.obj \in Obj /\ r.obj \notin Held
      /\ Owned(heap, stack, Held, Tabled, {top} \ Held) /\ stack \in Seq(Pointer)
      /\ stack # << >> /\ Held \subseteq Obj /\ Heap(heap)
  BY Released DEF Inv, Pending, StackOK, Owned
<1>2. top \in Obj /\ top \in In(stack)
  BY <1>1, LastMember DEF Owned
<1>3. Record(heap[top]) /\ FALSE \in BOOLEAN
  BY <1>1, <1>2 DEF Heap
<1> DEFINE y == [heap[top] EXCEPT !.ro = FALSE]
           z == [y EXCEPT !.managed = FALSE]
<1>4. Record(y) /\ Same(y, heap[top])
  BY <1>3, Members, FlagsSame
<1>5. CASE top \in Held
  <2> DEFINE u == [heap EXCEPT ![top].ro = FALSE]
             n == New(u)
             x == Object(u[top].kind, u[top].cells, u[top].vs, u[top].size)
  <2>1. ~heap[top].managed
    BY <1>1, <1>2, <1>5 DEF Owned
  <2>2. r = [h |-> [u EXCEPT ![n] = x], obj |-> n]
    BY <2>1 DEF Release, Clone
  <2>3. u = [heap EXCEPT ![top] = y]
    BY <1>1 DEF Heap
  <2> HIDE DEF y, u, n, x
  <2>4. /\ Heap(u) /\ u[top] = y /\ \A p \in Obj : p # top => u[p] = heap[p]
    <3>1. /\ Heap([heap EXCEPT ![top] = y]) /\ [heap EXCEPT ![top] = y][top] = y
          /\ \A p \in Obj : p # top => [heap EXCEPT ![top] = y][p] = heap[p]
      BY <1>1, <1>2, <1>4, HeapExcept
    <3>2. QED
      BY <2>3, <3>1
  <2>5. \A p \in Held : Same(u[p], heap[p])
    BY <1>1, <1>4, <2>4 DEF Same
  <2>6. r.obj = n /\ r.h = [u EXCEPT ![n] = x] /\ n \in Obj /\ n \notin Held
    BY <1>1, <2>2
  <2>7. [u EXCEPT ![n] = x][n] = x /\ \A p \in Obj : p # n => [u EXCEPT ![n] = x][p] = u[p]
    BY <2>4, <2>6, PutHeap
  <2>8. Same(x, u[top])
    <3>1. x.cells = u[top].cells /\ x.vs = u[top].vs /\ x.size = u[top].size
      BY ObjectContents DEF x
    <3>2. QED
      BY <3>1, ValueFields
  <2>9. Same(r.h[r.obj], heap[top])
    BY <1>4, <2>4, <2>6, <2>7, <2>8 DEF Same
  <2>10. \A p \in Held : Same(r.h[p], heap[p])
    BY <1>1, <2>5, <2>6, <2>7
  <2>11. QED
    BY <2>9, <2>10
<1>6. CASE top \notin Held
  <2> DEFINE g == [heap EXCEPT ![top] = z]
  <2>1. heap[top].managed /\ ~heap[top].ro
    <3>1. {top} \ Held = {top}
      BY <1>6
    <3>2. QED
      BY <1>1, <3>1 DEF Owned, Loose
  <2>2. r = [h |-> [[heap EXCEPT ![top].ro = FALSE] EXCEPT ![top].managed = FALSE], obj |-> top]
    BY <2>1 DEF Release, SameObject
  <2>3. [[heap EXCEPT ![top].ro = FALSE] EXCEPT ![top].managed = FALSE] = g
    BY <1>1 DEF Heap
  <2> HIDE DEF y
  <2>4. Same(z, heap[top])
    <3>1. Same(z, y)
      BY <1>3, <1>4, FlagsSame
    <3>2. QED
      BY <1>4, <3>1 DEF Same
  <2> HIDE DEF z
  <2>5. [heap EXCEPT ![top] = z][top] = z
        /\ \A p \in Obj : p # top => [heap EXCEPT ![top] = z][p] = heap[p]
    BY <1>1, <1>2 DEF Heap
  <2>6. r.h = g /\ r.obj = top
    BY <2>2, <2>3
  <2>7. QED
    BY <1>1, <1>6, <2>4, <2>5, <2>6 DEF Same
<1>7. QED
  BY <1>5, <1>6

\* The program gets the result that it asked for.
LEMMA GivePure ==
  ASSUME PureInv, ReleasePop, call.rest = << >>
  PROVE  Meaningful' /\ Pure!Give
<1> DEFINE top == stack[Len(stack)]
           r == Release(top)
           below == SubSeq(stack, 1, Len(stack) - 1)
           o == r.obj
           v == py.vars \cup {o}
<1>1. /\ call.phase = "pop" /\ Room /\ InProgress /\ Leave(r.h, below, v)
  BY DEF ReleasePop, IsIdle, InProgress
<1>2. /\ ProgramOK /\ Inv /\ Maps \subseteq Held /\ Held \subseteq Obj
  BY <1>1, CallFacts DEF PureInv
<1>3. o \in Obj /\ o \notin Held
  BY <1>1, <1>2, Released
<1> HIDE DEF r, top
<1>4. Same(r.h[o], heap[top]) /\ \A p \in Held : Same(r.h[p], heap[p])
  BY <1>1, <1>2, ReleasedSame DEF r, top
<1> HIDE DEF o, below
<1>5. /\ IsIdle' /\ Maps' = v \ {NoneObj} /\ Maps' \subseteq Held'
      /\ Held' \subseteq v \cup py.frames /\ \A p \in Held' : heap'[p] = r.h[p]
  <2>1. v \subseteq Obj /\ v \cap py.frames = {}
    BY <1>2, <1>3 DEF ProgramOK, Held
  <2> HIDE DEF v
  <2>2. QED
    BY <1>1, <1>2, <2>1, LeaveSame
<1>6. o \notin Maps /\ Maps' = Maps \cup {o} /\ Held' \subseteq Held \cup {o}
  <2>1. o # NoneObj
    BY <1>2, <1>3 DEF ProgramOK, Held
  <2>2. QED
    BY <1>2, <1>3, <1>5, <2>1 DEF Maps, Held
<1>7. heap[top].vs \in Definite
  BY <1>1 DEF PureInv, Scaled, top
<1>8. \A p \in Held' : heap'[p].vs = IF p = o THEN heap[top].vs ELSE heap[p].vs
  BY <1>4, <1>5, <1>6, ValueFields
<1>9. Meaningful'
  <2>1. \A p \in Held' : heap'[p].vs \in Definite \cup Indefinite
    BY <1>6, <1>7, <1>8 DEF PureInv, Scaled
  <2>2. \A p \in Maps' : heap'[p].vs \in Definite
    BY <1>5, <1>6, <1>7, <1>8 DEF PureInv, Scaled
  <2>3. QED
    BY <1>5, <2>1, <2>2, IdleNot, IdleMeaningful
<1>10. \A p \in Maps : Same(heap'[p], heap[p])
  BY <1>2, <1>4, <1>5, <1>6
<1>11. /\ Pure!OneMore
       /\ DOMAIN ValuesOf(Maps)' \ DOMAIN ValuesOf(Maps) = {o}
       /\ ValuesOf(Maps)'[o] = Value(heap'[o])
  BY <1>6, <1>10, PureMore
<1>12. Value(heap'[o]) = call.meant
  <2>1. heap'[o] = r.h[o]
    BY <1>5, <1>6
  <2>2. call.meant = Value(heap[top])
    BY <1>1 DEF PureInv, Meant, Goes, top
  <2>3. QED
    BY <1>4, <2>1, <2>2 DEF Same
<1>13. \A p \in DOMAIN ValuesOf(Maps)' \ DOMAIN ValuesOf(Maps) : ValuesOf(Maps)'[p] = call.meant
  BY <1>11, <1>12
<1>14. QED
  BY <1>1, <1>5, <1>9, <1>11, <1>13, IdleNot DEF Pure!Give

\* Cover goes on with its result and the next argument.
LEMMA GoOnPure ==
  ASSUME PureInv, ReleasePop, call.rest # << >>
  PROVE  Meaningful' /\ UNCHANGED Pure!vars
<1> DEFINE top == stack[Len(stack)]
           r == Release(top)
           o == r.obj
           c == call.rest[1]
           op == call.op
<1>1. /\ call.phase = "pop" /\ Room /\ InProgress /\ heap' = r.h /\ space' = space
      /\ py' = [py EXCEPT !.frames = @ \cup {o}]
      /\ call' = [call EXCEPT !.phase = "push", !.args = <<o, Head(call.rest)>>, !.rest = Tail(@)]
  BY DEF ReleasePop, IsIdle, InProgress
<1>2. /\ ProgramOK /\ CallOK /\ Inv /\ Maps \subseteq Held /\ Held \subseteq Obj
      /\ op = "cover" /\ op \in Operators /\ Len(call.rest) = 1 /\ c \in Maps
      /\ call.rest \in Seq(Held)
  BY <1>1, CallFacts DEF PureInv, CallOK
<1>3. o \in Obj /\ o \notin Held
  BY <1>1, <1>2, Released
<1> HIDE DEF r, top
<1>4. Same(r.h[o], heap[top]) /\ \A p \in Held : Same(r.h[p], heap[p])
  BY <1>1, <1>2, ReleasedSame DEF r, top
<1> HIDE DEF o, c
<1>5. Head(call.rest) = c /\ Tail(call.rest) = << >>
  <2> DEFINE t == Tail(call.rest)
  <2>1. call.rest # << >> /\ Head(call.rest) = c
    BY <1>2 DEF c
  <2>2. t \in Seq(Held) /\ Len(t) = Len(call.rest) - 1
    BY <1>2, <2>1, HeadTailProperties
  <2> HIDE DEF t
  <2>3. Len(t) = 0
    BY <1>2, <2>2
  <2>4. t = << >>
    BY <2>2, <2>3, EmptySeq
  <2>5. QED
    BY <2>1, <2>4 DEF t
<1> DEFINE args == <<o, c>>
<1>6. args \in Seq(Pointer) /\ Len(args) = 2 /\ args[1] = o /\ args[2] = c /\ In(args) = {o, c}
  <2>1. c \in Obj
    BY <1>2
  <2>2. <<o, c>> \in Seq(Pointer) /\ Len(<<o, c>>) = 2 /\ DOMAIN <<o, c>> = {1, 2}
    BY <1>3, <2>1 DEF Pointer
  <2>3. QED
    BY <2>2 DEF In
<1>7. /\ call'.phase = "push" /\ call'.op = op /\ call'.args = args
      /\ call'.rest = << >> /\ call'.meant = call.meant
  BY <1>1, <1>2, <1>5 DEF CallOK
<1> HIDE DEF args, op
<1>8. Arity(op) = 2
  BY <1>2 DEF Arity
<1>9. Maps' = Maps /\ Held' = Held \cup {o}
  <2>1. py' = [vars |-> py.vars, frames |-> py.frames \cup {o}]
    BY <1>1, <1>2 DEF ProgramOK
  <2>2. py'.vars = py.vars /\ py'.frames = py.frames \cup {o}
    BY <2>1
  <2>3. QED
    BY <2>2 DEF Maps, Held
<1>10. heap[top].vs \in Definite
  BY <1>1 DEF PureInv, Scaled, top
<1>11. \A p \in Held : Same(heap'[p], heap[p]) /\ heap'[p].vs = heap[p].vs
  BY <1>1, <1>4, ValueFields
<1>12. heap'[o].vs \in Definite
  BY <1>1, <1>4, <1>10, ValueFields
<1>13. HeldSame
  BY <1>2, <1>9, <1>11 DEF HeldSame
<1>14. UNCHANGED Pure!vars
  <2>1. InProgress'
    BY <1>7 DEF IsIdle, InProgress
  <2>2. QED
    BY <1>1, <1>7, <1>13, <2>1, PureStutter
<1>15. Scaled'
  <2>1. \A p \in Held' : heap'[p].vs \in Definite \cup Indefinite
    BY <1>9, <1>11, <1>12 DEF PureInv, Scaled
  <2>2. \A p \in Maps' : heap'[p].vs \in Definite
    BY <1>2, <1>9, <1>11 DEF PureInv, Scaled
  <2>3. QED
    BY <1>7, <2>1, <2>2 DEF Scaled
<1>16. Calling'
  <2>1. Len(args) <= Arity(op)
    BY <1>6, <1>8
  <2>2. QED
    BY <1>2, <1>7, <2>1 DEF Calling
<1>17. Pushed' = 0
  <2>1. Pushed' = Arity(op) - Len(args)
    BY <1>7 DEF Pushed
  <2>2. QED
    BY <1>6, <1>8, <2>1
<1>18. Locked'
  <2>1. \A i \in 1..0 : FALSE
    OBVIOUS
  <2>2. QED
    BY <1>17, <2>1 DEF Locked
<1>19. Args' = [i \in 1..2 |-> heap'[args[i]]]
  <2>1. \A i \in 1..2 : Arg(i)' = args[i]
    <3> SUFFICES ASSUME NEW i \in 1..2 PROVE Arg(i)' = args[i]
      OBVIOUS
    <3>1. ~(i <= 0) /\ i - 0 = i
      OBVIOUS
    <3>2. Arg(i)' = IF i <= Pushed' THEN stack'[Len(stack') - Pushed' + i]
                    ELSE call'.args[i - Pushed']
      BY DEF Arg
    <3>3. QED
      BY <1>7, <1>17, <3>1, <3>2
  <2>2. Args' = [i \in 1..2 |-> heap'[Arg(i)']]
    BY <1>7, <1>8 DEF Args
  <2>3. QED
    BY <2>1, <2>2
<1>20. Meant'
  <2> DEFINE a == heap[top]
             b == heap[c]
             x == <<a, b>>
             y == Args'
  <2>1. call.meant = Value(Outcome(space, op, x))
    BY <1>1 DEF PureInv, Meant, Goes, op, c, top
  <2> HIDE DEF a, b
  <2>2. Shaped(op, x) /\ x[1] = a /\ x[2] = b
    BY <1>8, OneTwo DEF Shaped
  <2>3. Shaped(op, y) /\ y[1] = heap'[o] /\ y[2] = heap'[c]
    BY <1>6, <1>8, <1>19, OneTwo DEF Shaped
  <2>4. Same(a, heap'[o]) /\ Same(b, heap'[c])
    BY <1>1, <1>2, <1>4, <1>11 DEF Same, a, b
  <2> HIDE DEF x, y
  <2>5. \A i \in 1..Arity(op) : Same(x[i], y[i])
    BY <1>8, <2>2, <2>3, <2>4, OneTwo
  <2>6. Same(Outcome(space, op, x), Outcome(space, op, y))
    BY <1>2, <2>2, <2>3, <2>5, ShapedResult
  <2>7. call'.meant = Goes(space', call'.op, call'.rest, heap', Outcome(space', call'.op, y))
    BY <1>1, <1>7, <2>1, <2>6 DEF Same, Goes
  <2>8. QED
    BY <1>7, <2>7 DEF Meant, y
<1>21. QED
  BY <1>14, <1>15, <1>16, <1>18, <1>20 DEF Meaningful

-------------------------------------------------------------------------------
(* The refinement *)

LEMMA InitPure == Init => Meaningful /\ Pure!Init
<1> SUFFICES ASSUME Init PROVE Meaningful /\ Pure!Init
  OBVIOUS
<1>1. /\ call = Idle /\ py = [vars |-> {NoneObj}, frames |-> {}]
      /\ heap = [o \in Obj |-> IF o = NoneObj THEN Object("none", << >>, {}, 0) ELSE Free]
  BY DEF Init
<1>2. IsIdle /\ call.phase = "idle"
  BY <1>1 DEF IsIdle, InProgress, Idle
<1>3. Held = {NoneObj} /\ Maps = {}
  BY <1>1 DEF Held, Maps
<1>4. heap[NoneObj].vs = {}
  <2>1. heap[NoneObj] = Object("none", << >>, {}, 0)
    BY <1>1, EngineAssumption
  <2>2. QED
    BY <2>1, ObjectContents
<1>5. Scaled
  BY <1>2, <1>3, <1>4 DEF Scaled, Indefinite
<1>6. Calling /\ Locked /\ Meant
  BY <1>2 DEF Calling, Locked, Meant, Asking, IsIdle, InProgress
<1>7. ValuesOf(Maps) = << >>
  <2>1. ValuesOf(Maps) = [o \in {} |-> Value(heap[o])]
    BY <1>3 DEF ValuesOf
  <2>2. QED
    BY <2>1
<1>8. QED
  BY <1>2, <1>5, <1>6, <1>7, IdleNot DEF Meaningful, Pure!Init

LEMMA StutterPure == ASSUME PureInv, UNCHANGED vars PROVE Meaningful' /\ UNCHANGED Pure!vars
<1>1. /\ heap' = heap /\ stack' = stack /\ space' = space /\ py' = py /\ call' = call
  BY DEF vars
<1>2. /\ Held' = Held /\ Maps' = Maps /\ Pushed' = Pushed /\ \A i : Arg(i)' = Arg(i)
  BY <1>1 DEF Held, Maps, Pushed, Arg
<1>3. Args' = Args
  BY <1>1, <1>2 DEF Args
<1>4. Scaled' /\ Calling'
  BY <1>1, <1>2 DEF PureInv, Scaled, Calling, IsIdle, InProgress
<1>5. Locked'
  BY <1>1, <1>2 DEF PureInv, Locked, Asking, InPlace
<1>6. Meant'
  BY <1>1, <1>3 DEF PureInv, Meant, Asking
<1>7. UNCHANGED Pure!vars
  BY <1>1, <1>2 DEF Pure!vars, ValuesOf, IsIdle, InProgress
<1>8. QED
  BY <1>4, <1>5, <1>6, <1>7 DEF Meaningful

LEMMA StepPure ==
  ASSUME PureInv, NoOrdinals, [Next]_vars
  PROVE  Meaningful' /\ [Pure!Next]_(Pure!vars)
<1>1. CASE ReadMap
  BY <1>1, ReadMapPure DEF Pure!Next
<1>2. CASE Forget
  BY <1>2, ForgetPure DEF Pure!Next
<1>3. CASE Call
  BY <1>3, CallPure DEF Pure!Next
<1>4. CASE SetClone
  BY <1>4, SetClonePure
<1>5. CASE PushArgument
  BY <1>5, PushArgumentPure DEF Pure!Next
<1>6. CASE Rejected
  BY <1>6, RejectedPure DEF Pure!Next
<1>7. CASE LoadFails
  BY <1>7, LoadFailsPure DEF Pure!Next
<1>8. CASE Checked
  BY <1>8, CheckedPure
<1>9. CASE Execute
  BY <1>9, ExecutePure
<1>10. CASE DomainError
  BY <1>10, DomainErrorPure DEF Pure!Next
<1>11. CASE Convert
  BY <1>11, ConvertPure
<1>12. CASE ReleasePop
  BY <1>12, GivePure, GoOnPure DEF Pure!Next
<1>13. CASE UNCHANGED vars
  BY <1>13, StutterPure
<1>14. QED
  BY <1>1, <1>2, <1>3, <1>4, <1>5, <1>6, <1>7, <1>8, <1>9, <1>10, <1>11, <1>12, <1>13 DEF Next

LEMMA PureInductive ==
  ASSUME PureInv, NoOrdinals, [Next]_vars
  PROVE  PureInv'
<1>1. Inv'
  BY InvInductive DEF PureInv
<1>2. Meaningful'
  BY StepPure
<1>3. QED
  BY <1>1, <1>2 DEF PureInv, Meaningful

\* The engine, seen from what Python's fields contain, computes values: every
\* operation of a program without ordinal fields gives what was asked for, or
\* raises, and changes no other field (PCRaster Python's fields are immutable).
THEOREM PureCorrect == ASSUME NoOrdinals PROVE Spec => ImplementsPure
<1>1. Init => PureInv /\ Pure!Init
  BY InitInv, InitPure DEF PureInv, Meaningful
<1>2. PureInv /\ [Next]_vars => PureInv'
  BY PureInductive
<1>3. PureInv /\ [Next]_vars => [Pure!Next]_(Pure!vars)
  BY StepPure
<1>4. QED
  BY <1>1, <1>2, <1>3, PTL DEF Spec, Pure!Spec, ImplementsPure

\* A field that the program keeps has the contents that it had.
LEMMA PureKeeps ==
  ASSUME [Pure!Next]_(Pure!vars)
  PROVE  \A o \in Maps \cap Maps' : Value(heap'[o]) = Value(heap[o])
<1> SUFFICES ASSUME NEW o \in Maps \cap Maps' PROVE Value(heap'[o]) = Value(heap[o])
  OBVIOUS
<1> DEFINE new == ValuesOf(Maps)'
           old == ValuesOf(Maps)
<1>1. /\ DOMAIN old = Maps /\ old[o] = Value(heap[o])
      /\ DOMAIN new = Maps' /\ new[o] = Value(heap'[o])
  <2>1. new = [p \in Maps' |-> Value(heap'[p])]
    BY DEF ValuesOf
  <2>2. QED
    BY <2>1 DEF ValuesOf
<1> HIDE DEF new, old
<1>2. CASE new = old
  BY <1>1, <1>2
<1>3. CASE Pure!OneMore
  <2>1. PICK p \in DOMAIN new \ DOMAIN old :
          new = [x \in DOMAIN old \cup {p} |-> IF x = p THEN new[p] ELSE old[x]]
    BY <1>3 DEF Pure!OneMore, new, old
  <2>2. QED
    BY <1>1, <2>1
<1>4. CASE Pure!Forget
  <2>1. PICK p \in DOMAIN old : new = [x \in DOMAIN old \ {p} |-> old[x]]
    BY <1>4 DEF Pure!Forget, new, old
  <2>2. QED
    BY <1>1, <2>1
<1>5. QED
  BY <1>2, <1>3, <1>4
    DEF Pure!Next, Pure!Obtain, Pure!Ask, Pure!Give, Pure!Raise, Pure!vars, new, old

\* Without ordinal fields no operation changes a field that the program has:
\* the conversions between nominal and ordinal are the only ones that do.
THEOREM NotModifiedCorrect == ASSUME NoOrdinals PROVE Spec => NotModified
<1>1. Init => PureInv
  BY InitInv, InitPure DEF PureInv, Meaningful
<1>2. PureInv /\ [Next]_vars => PureInv'
  BY PureInductive
<1>3. PureInv /\ [Next]_vars =>
        [\A o \in Maps \cap Maps' : Value(heap'[o]) = Value(heap[o])]_vars
  BY StepPure, PureKeeps
<1>4. QED
  BY <1>1, <1>2, <1>3, PTL DEF Spec, NotModified
================================================================================
