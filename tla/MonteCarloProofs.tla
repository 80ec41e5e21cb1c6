---------------------------- MODULE MonteCarloProofs ---------------------------
(***************************************************************************)
(* For every number of samples and processors, and however samples end:    *)
(* the parent knows its children, has no more of them than it may, and     *)
(* counts what they lose; the run is one of Ensemble.                      *)
(***************************************************************************)
EXTENDS MonteCarlo, TLAPS, FiniteSetTheorems, SequenceTheorems

-------------------------------------------------------------------------------
(* Lists of children *)

Distinct(q) == \A a, b \in 1..Len(q) : a # b => q[a] # q[b]

\* Removing an entry of a list of different entries.
LEMMA RemoveAtDistinct ==
  ASSUME NEW S, NEW q \in Seq(S), Distinct(q), NEW k \in 1..Len(q)
  PROVE  /\ RemoveAt(q, k) \in Seq(S) /\ Len(RemoveAt(q, k)) = Len(q) - 1
         /\ Distinct(RemoveAt(q, k))
         /\ ToSet(RemoveAt(q, k)) = ToSet(q) \ {q[k]}
<1> DEFINE r == RemoveAt(q, k)
           left == SubSeq(q, 1, k - 1)
           right == SubSeq(q, k + 1, Len(q))
<1>1. /\ left \in Seq(S) /\ Len(left) = k - 1
      /\ \A a \in 1..(k - 1) : left[a] = q[a]
  <2>1. left \in Seq(S)
    OBVIOUS
  <2>2. Len(left) = k - 1
    OBVIOUS
  <2>3. \A a \in 1..(k - 1) : left[a] = q[a]
    OBVIOUS
  <2>4. QED
    BY <2>1, <2>2, <2>3
<1>2. /\ right \in Seq(S) /\ Len(right) = Len(q) - k
      /\ \A a \in 1..(Len(q) - k) : right[a] = q[k + a]
  <2>1. right \in Seq(S)
    OBVIOUS
  <2>2. Len(right) = Len(q) - k
    OBVIOUS
  <2>3. \A a \in 1..(Len(q) - k) : right[a] = q[k + a]
    OBVIOUS
  <2>4. QED
    BY <2>1, <2>2, <2>3
<1>3. r = left \o right
  BY DEF RemoveAt
<1> HIDE DEF left, right, r
<1>4. /\ r \in Seq(S) /\ Len(r) = Len(left) + Len(right)
      /\ \A a \in 1..(Len(left) + Len(right)) :
           r[a] = IF a <= Len(left) THEN left[a] ELSE right[a - Len(left)]
  BY <1>1, <1>2, <1>3, ConcatProperties, ZenonT(30)
<1>5. r \in Seq(S) /\ Len(r) = Len(q) - 1
  BY <1>1, <1>2, <1>4
<1>6. ASSUME NEW a \in 1..Len(r)
      PROVE  r[a] = IF a < k THEN q[a] ELSE q[a + 1]
  <2>1. CASE a < k
    <3>1. a \in 1..(k - 1) /\ a <= Len(left)
      BY <1>1, <2>1
    <3>2. r[a] = left[a]
      BY <1>4, <1>5, <3>1
    <3>3. QED
      BY <1>1, <2>1, <3>1, <3>2
  <2>2. CASE ~(a < k)
    <3>1. a - (k - 1) \in 1..(Len(q) - k) /\ ~(a <= Len(left)) /\ k + (a - (k - 1)) = a + 1
      BY <1>1, <1>5, <2>2
    <3>2. r[a] = right[a - (k - 1)]
      <4>1. Len(left) = k - 1
        BY <1>1
      <4>2. QED
        BY <1>4, <3>1, <4>1
    <3>3. right[a - (k - 1)] = q[k + (a - (k - 1))]
      BY <1>2, <3>1
    <3>4. QED
      BY <2>2, <3>1, <3>2, <3>3
  <2>3. QED
    BY <2>1, <2>2
<1>7. Distinct(r)
  <2> SUFFICES ASSUME NEW a \in 1..Len(r), NEW b \in 1..Len(r), a # b
               PROVE  r[a] # r[b]
    BY DEF Distinct
  <2> DEFINE at(n) == IF n < k THEN n ELSE n + 1
  <2>1. at(a) \in 1..Len(q) /\ at(b) \in 1..Len(q) /\ at(a) # at(b)
    BY <1>5
  <2>2. r[a] = q[at(a)] /\ r[b] = q[at(b)]
    BY <1>6
  <2> HIDE DEF at
  <2>3. QED
    BY <2>1, <2>2 DEF Distinct
<1>8. ASSUME NEW x \in ToSet(r) PROVE x \in ToSet(q) \ {q[k]}
  <2>1. PICK a \in 1..Len(r) : x = r[a]
    BY <1>5 DEF ToSet
  <2>2. PICK b \in 1..Len(q) : x = q[b] /\ b # k
    BY <1>5, <1>6, <2>1
  <2>3. QED
    BY <2>2 DEF ToSet, Distinct
<1>9. ASSUME NEW x \in ToSet(q) \ {q[k]} PROVE x \in ToSet(r)
  <2>1. PICK b \in 1..Len(q) : x = q[b] /\ b # k
    BY DEF ToSet
  <2>2. PICK a \in 1..Len(r) : r[a] = q[b]
    <3>1. CASE b < k
      BY <1>5, <1>6, <3>1
    <3>2. CASE b > k
      <4>1. b - 1 \in 1..Len(r) /\ ~(b - 1 < k) /\ (b - 1) + 1 = b
        BY <1>5, <3>2
      <4>2. r[b - 1] = q[b]
        BY <1>6, <4>1
      <4>3. QED
        BY <4>1, <4>2
    <3>3. QED
      BY <2>1, <3>1, <3>2
  <2>3. QED
    BY <1>5, <2>1, <2>2 DEF ToSet
<1>10. QED
  BY <1>5, <1>7, <1>8, <1>9 DEF r

\* Appending an entry that is not in it.
LEMMA AppendDistinct ==
  ASSUME NEW S, NEW q \in Seq(S), Distinct(q), NEW x \in S, x \notin ToSet(q)
  PROVE  /\ Append(q, x) \in Seq(S) /\ Len(Append(q, x)) = Len(q) + 1
         /\ Distinct(Append(q, x))
         /\ ToSet(Append(q, x)) = ToSet(q) \cup {x}
<1> DEFINE r == Append(q, x)
<1>1. /\ r \in Seq(S) /\ Len(r) = Len(q) + 1 /\ r[Len(q) + 1] = x
      /\ \A a \in 1..Len(q) : r[a] = q[a]
  OBVIOUS
<1> HIDE DEF r
<1>2. \A a \in 1..Len(q) : q[a] # x
  BY DEF ToSet
<1>3. Distinct(r)
  BY <1>1, <1>2 DEF Distinct
<1>4. ToSet(r) = ToSet(q) \cup {x}
  BY <1>1 DEF ToSet
<1>5. QED
  BY <1>1, <1>3, <1>4 DEF r

\* Such a list is as long as its set is large.
LEMMA DistinctLength ==
  ASSUME NEW S, NEW q \in Seq(S), Distinct(q)
  PROVE  Cardinality(ToSet(q)) = Len(q)
<1>1. Len(q) \in Nat /\ DOMAIN q = 1..Len(q)
  OBVIOUS
<1>2. q \in Surjection(1..Len(q), ToSet(q)) /\ q \in Injection(1..Len(q), ToSet(q))
  BY <1>1 DEF ToSet, Distinct, Surjection, Injection, IsInjective
<1>3. q \in Bijection(1..Len(q), ToSet(q))
  BY <1>2 DEF Bijection
<1>4. ExistsBijection(1..Len(q), ToSet(q))
  BY <1>3 DEF ExistsBijection
<1>5. QED
  BY <1>1, <1>4, FS_CountingElements

-------------------------------------------------------------------------------
(* The inductive invariant *)

\* The types that do not depend on where the parent is.
DataType ==
  /\ fork \in BOOLEAN /\ filter \in BOOLEAN /\ runs \in Nat \ {0}
  /\ proc \in [Samples -> {"none", "running", "reaped"} \cup Ended]
  /\ output \in [Samples -> {"none", "part", "full"}]
  /\ children \in Seq(Samples)
  /\ nr \in [forked : Nat, finished : Nat, failed : Nat]

Listed ==
  /\ Distinct(children)
  /\ fork => ToSet(children) = Live /\ Len(children) <= NrProcessors
  /\ ~fork => children = <<>>
  /\ nr.forked = nr.finished + Len(children)

\* What a sample has written, by how it ended.
Outputs ==
  \A s \in Samples :
    /\ proc[s] \in {"running", "exit1", "signal"} => output[s] = "part"
    /\ proc[s] = "exit0" => output[s] = "full"

Lost == {s \in Samples : proc[s] = "reaped" /\ output[s] # "full"}
Counted == fork /\ runs = 1 => nr.failed = Cardinality(Lost)

Data == DataType /\ Listed /\ Outputs /\ Counted

ControlType ==
  /\ pc \in {"premc", "loop", "running", "pollOccupied", "pollForked", "wait",
             "postmc", "done", "aborted"}
  /\ sample \in 1..(NrSamples + 1)
  /\ i \in 1..(Len(children) + 1) \/ ~Polling

\* The samples before the parent's have had their turn, those after it not.
Turns ==
  /\ \A s \in Samples : /\ s < sample => proc[s] # "none"
                        /\ s > sample => proc[s] = "none"
  /\ pc \in {"pollForked", "running"} => sample \in Samples /\ proc[sample] # "none"
  /\ pc \in {"premc", "loop", "pollOccupied"} /\ sample \in Samples => proc[sample] = "none"

Stages ==
  /\ pc = "premc" => sample = 1
  /\ pc \in {"premc", "postmc", "done"} => children = <<>>
  /\ pc \in {"wait", "postmc", "done"} => sample = NrSamples + 1
  /\ pc = "pollOccupied" => sample \in Samples
  /\ Polling => fork
  /\ pc = "running" => ~fork

\* Without forking.
Sequential ==
  ~fork => \A s \in Samples :
    /\ s < sample => proc[s] = "reaped" /\ output[s] = "full"
    /\ s \in Live => s = sample /\ pc = "running"

Control == ControlType /\ Turns /\ Stages /\ Sequential

Inv == Data /\ Control

-------------------------------------------------------------------------------
(* Steps of the data *)

LEMMA SamplesFinite == \A S \in SUBSET Samples : IsFiniteSet(S) /\ Cardinality(S) \in Nat
<1>1. IsFiniteSet(Samples)
  BY SampleAssumption, FS_Interval DEF Samples
<1>2. QED
  BY <1>1, FS_Subset, FS_CardinalityType

LEMMA DataUnchanged ==
  ASSUME Data, UNCHANGED <<world, proc, children, nr, output>>
  PROVE  Data'
BY DEF Data, DataType, Listed, Live, Outputs, Counted, Lost, world

\* Nothing is lost before the first sample.
LEMMA FreshData ==
  ASSUME fork' \in BOOLEAN, filter' \in BOOLEAN, runs' \in Nat \ {0},
         proc' = [s \in Samples |-> "none"], output' = [s \in Samples |-> "none"],
         children' = <<>>, nr' \in [forked : Nat, finished : Nat, failed : Nat],
         nr'.forked = nr'.finished, runs' = 1 => nr'.failed = 0
  PROVE  Data'
<1>1. Live' = {} /\ Lost' = {}
  BY DEF Live, Lost, Ended
<1>2. DataType'
  <2>1. <<>> \in Seq(Samples)
    OBVIOUS
  <2>2. QED
    BY <2>1 DEF DataType
<1>3. Len(children') = 0 /\ ToSet(children') = {}
  BY DEF ToSet
<1>4. Listed'
  BY <1>1, <1>3, CPUAssumption DEF Listed, Distinct, NrProcessors
<1>5. Outputs'
  BY DEF Outputs
<1>6. Counted'
  BY <1>1, FS_EmptySet DEF Counted
<1>7. QED
  BY <1>2, <1>4, <1>5, <1>6 DEF Data

\* A child that has ended is handled.
LEMMA HandledData ==
  ASSUME Data, fork, NEW k \in 1..Len(children), HandleFinishedChildProcess(k),
         UNCHANGED <<world, output>>
  PROVE  /\ Data' /\ Len(children') = Len(children) - 1
         /\ \E c \in Samples : proc[c] \in Ended /\ proc' = [proc EXCEPT ![c] = "reaped"]
<1> DEFINE c == children[k]
<1>1. /\ proc[c] \in Ended /\ proc' = [proc EXCEPT ![c] = "reaped"]
      /\ children' = RemoveAt(children, k)
      /\ nr' = [nr EXCEPT !.finished = @ + 1,
                          !.failed = IF proc[c] = "exit0" THEN @ ELSE @ + 1]
      /\ fork' = fork /\ filter' = filter /\ runs' = runs /\ output' = output
  BY DEF HandleFinishedChildProcess, ExitedWithZeroStatus, world
<1>2. DataType /\ Listed /\ Outputs /\ Counted
  BY DEF Data
<1>3. children \in Seq(Samples) /\ Distinct(children) /\ c \in Samples
  BY <1>2 DEF DataType, Listed
<1> HIDE DEF c
<1>4. /\ children' \in Seq(Samples) /\ Len(children') = Len(children) - 1
      /\ Distinct(children') /\ ToSet(children') = ToSet(children) \ {c}
  BY <1>1, <1>3, RemoveAtDistinct DEF c
<1>5. DataType'
  <2>1. nr' \in [forked : Nat, finished : Nat, failed : Nat]
    <3>1. nr \in [forked : Nat, finished : Nat, failed : Nat]
      BY <1>2 DEF DataType
    <3>2. PICK f \in Nat : nr' = [nr EXCEPT !.finished = @ + 1, !.failed = f]
      <4>1. nr.failed \in Nat /\ nr.failed + 1 \in Nat
        BY <3>1
      <4>2. CASE proc[c] = "exit0"
        BY <1>1, <4>1, <4>2
      <4>3. CASE proc[c] # "exit0"
        BY <1>1, <4>1, <4>3
      <4>4. QED
        BY <4>2, <4>3
    <3>3. /\ nr'.forked = nr.forked /\ nr'.finished = nr.finished + 1 /\ nr'.failed = f
          /\ nr' = [forked |-> nr'.forked, finished |-> nr'.finished, failed |-> nr'.failed]
      BY <3>1, <3>2
    <3>4. nr'.forked \in Nat /\ nr'.finished \in Nat /\ nr'.failed \in Nat
      BY <3>1, <3>3
    <3>5. QED
      BY <3>3, <3>4
  <2>2. proc' \in [Samples -> {"none", "running", "reaped"} \cup Ended]
    BY <1>1, <1>2 DEF DataType
  <2>3. QED
    BY <1>1, <1>2, <1>4, <2>1, <2>2 DEF DataType
<1>6. Live' = Live \ {c}
  BY <1>1, <1>2, <1>3 DEF Live, DataType, Ended
<1>7. Listed'
  <2>1. nr'.forked = nr.forked /\ nr'.finished = nr.finished + 1
    BY <1>1, <1>2 DEF DataType
  <2>2. ToSet(children') = Live' /\ Len(children') <= NrProcessors
    <3>1. NrProcessors \in Nat /\ Len(children) \in Nat
      BY <1>3, CPUAssumption DEF NrProcessors
    <3>2. QED
      BY <1>2, <1>4, <1>6, <3>1 DEF Listed
  <2>3. nr'.forked = nr'.finished + Len(children')
    <3>1. nr.forked = nr.finished + Len(children) /\ nr.finished \in Nat /\ Len(children) \in Nat
      BY <1>2, <1>3 DEF Listed, DataType
    <3>2. QED
      BY <1>4, <2>1, <3>1
  <2>4. QED
    BY <1>1, <1>4, <2>2, <2>3 DEF Listed
<1>8. Outputs'
  BY <1>1, <1>2, <1>3 DEF Outputs, DataType
<1>9. Counted'
  <2>1. c \notin Lost /\ IsFiniteSet(Lost)
    BY <1>1, SamplesFinite DEF Lost, Ended
  <2>2. CASE proc[c] = "exit0"
    <3>1. Lost' = Lost
      BY <1>1, <1>2, <1>3, <2>2 DEF Lost, Outputs, DataType
    <3>2. nr'.failed = nr.failed
      BY <1>1, <1>2, <2>2 DEF DataType
    <3>3. QED
      BY <1>1, <1>2, <3>1, <3>2 DEF Counted
  <2>3. CASE proc[c] # "exit0"
    <3>1. output[c] = "part"
      BY <1>1, <1>2, <1>3, <2>3 DEF Outputs, Ended
    <3>2. Lost' = Lost \cup {c}
      BY <1>1, <1>2, <1>3, <3>1 DEF Lost, DataType
    <3>3. nr'.failed = nr.failed + 1
      BY <1>1, <1>2, <2>3 DEF DataType
    <3>4. Cardinality(Lost \cup {c}) = Cardinality(Lost) + 1
      BY <2>1, FS_AddElement
    <3>5. QED
      BY <1>1, <1>2, <3>2, <3>3, <3>4 DEF Counted
  <2>4. QED
    BY <2>2, <2>3
<1>10. QED
  BY <1>1, <1>3, <1>4, <1>5, <1>7, <1>8, <1>9 DEF Data

\* A child is forked.
LEMMA ForkedData ==
  ASSUME Data, fork, sample \in Samples, proc[sample] = "none", ~Occupied,
         proc' = [proc EXCEPT ![sample] = "running"],
         output' = [output EXCEPT ![sample] = "part"],
         children' = Append(children, sample), nr' = [nr EXCEPT !.forked = @ + 1],
         UNCHANGED world
  PROVE  Data' /\ Len(children') = Len(children) + 1
<1>1. DataType /\ Listed /\ Outputs /\ Counted
  BY DEF Data
<1>2. fork' = fork /\ filter' = filter /\ runs' = runs
  BY DEF world
<1>3. children \in Seq(Samples) /\ Distinct(children) /\ sample \notin ToSet(children)
  BY <1>1 DEF DataType, Listed, Live, Ended
<1>4. /\ children' \in Seq(Samples) /\ Len(children') = Len(children) + 1
      /\ Distinct(children') /\ ToSet(children') = ToSet(children) \cup {sample}
  <2> DEFINE longer == Append(children, sample)
  <2>1. children' = longer
    OBVIOUS
  <2>2. /\ longer \in Seq(Samples) /\ Len(longer) = Len(children) + 1
        /\ Distinct(longer) /\ ToSet(longer) = ToSet(children) \cup {sample}
    BY <1>3, AppendDistinct, SMT
  <2> HIDE DEF longer
  <2>3. QED
    BY <2>1, <2>2
<1>5. DataType'
  BY <1>1, <1>2, <1>4 DEF DataType
<1>6. Live' = Live \cup {sample}
  BY <1>1 DEF Live, DataType
<1>7. Listed'
  <2>1. nr'.forked = nr.forked + 1 /\ nr'.finished = nr.finished
    BY <1>1 DEF DataType
  <2>2. Len(children') <= NrProcessors
    <3>1. NrProcessors \in Nat /\ Len(children) \in Nat
      BY <1>3, CPUAssumption DEF NrProcessors
    <3>2. QED
      BY <1>4, <3>1 DEF Occupied
  <2>3. nr'.forked = nr'.finished + Len(children')
    <3>1. nr.forked = nr.finished + Len(children) /\ nr.finished \in Nat /\ Len(children) \in Nat
      BY <1>1, <1>3 DEF Listed, DataType
    <3>2. Len(children') = Len(children) + 1
      BY <1>4
    <3>3. QED
      BY <2>1, <3>1, <3>2, SMTT(30)
  <2>4. QED
    BY <1>1, <1>2, <1>4, <1>6, <2>2, <2>3 DEF Listed
<1>8. Outputs'
  BY <1>1 DEF Outputs, DataType
<1>9. Counted'
  <2>1. Lost' = Lost
    BY <1>1 DEF Lost, DataType
  <2>2. nr'.failed = nr.failed
    BY <1>1 DEF DataType
  <2>3. QED
    BY <1>1, <1>2, <2>1, <2>2 DEF Counted
<1>10. QED
  BY <1>4, <1>5, <1>7, <1>8, <1>9 DEF Data

\* A sample that runs ends, without or with its process.
LEMMA EndedData ==
  ASSUME Inv, NEW s \in Samples, SampleEnds(s)
  PROVE  /\ Data' /\ \E r \in Ended : proc' = [proc EXCEPT ![s] = r]
         /\ Live' = Live /\ output'[s] \in {"part", "full"}
<1>1. PICK r \in Ended :
        /\ proc[s] = "running" /\ proc' = [proc EXCEPT ![s] = r]
        /\ output' = [output EXCEPT ![s] = IF r = "exit0" THEN "full" ELSE @]
        /\ children' = children /\ nr' = nr
        /\ fork' = fork /\ filter' = filter /\ runs' = runs
  BY DEF SampleEnds, world, Ended
<1>2. DataType /\ Listed /\ Outputs /\ Counted
  BY DEF Inv, Data
<1>3. output[s] = "part"
  BY <1>1, <1>2 DEF Outputs
<1>4. DataType'
  BY <1>1, <1>2 DEF DataType
<1>5. Live' = Live
  BY <1>1, <1>2 DEF Live, DataType, Ended
<1>6. Lost' = Lost
  BY <1>1, <1>2 DEF Lost, DataType, Ended
<1>7. Listed' /\ Counted'
  BY <1>1, <1>2, <1>5, <1>6 DEF Listed, Counted
<1>8. Outputs'
  BY <1>1, <1>2, <1>3 DEF Outputs, DataType, Ended
<1>9. output'[s] \in {"part", "full"}
  BY <1>1, <1>2, <1>3 DEF DataType
<1>10. QED
  BY <1>1, <1>4, <1>5, <1>7, <1>8, <1>9 DEF Data

-------------------------------------------------------------------------------
(* Steps of the parent and of the samples *)

LEMMA InitInv == Init => Inv
<1> SUFFICES ASSUME Init PROVE Inv
  OBVIOUS
<1>1. /\ pc = "premc" /\ sample = 1 /\ i = 1 /\ children = <<>>
      /\ proc = [s \in Samples |-> "none"] /\ output = [s \in Samples |-> "none"]
      /\ nr = [forked |-> 0, finished |-> 0, failed |-> 0]
      /\ fork \in BOOLEAN /\ filter \in BOOLEAN /\ runs = 1
  BY DEF Init
<1>2. Data
  <2>1. Live = {} /\ Lost = {}
    BY <1>1 DEF Live, Lost, Ended
  <2>2. DataType
    <3>1. <<>> \in Seq(Samples)
      OBVIOUS
    <3>2. QED
      BY <1>1, <3>1 DEF DataType
  <2>3. Len(children) = 0 /\ ToSet(children) = {}
    BY <1>1 DEF ToSet
  <2>4. Listed
    BY <1>1, <2>1, <2>3, CPUAssumption DEF Listed, Distinct, NrProcessors
  <2>5. Outputs
    BY <1>1 DEF Outputs
  <2>6. Counted
    BY <1>1, <2>1, FS_EmptySet DEF Counted
  <2>7. QED
    BY <2>2, <2>4, <2>5, <2>6 DEF Data
<1>3. Control
  <2>1. ControlType /\ Stages
    BY <1>1, SampleAssumption DEF ControlType, Stages, Polling
  <2>2. Turns
    BY <1>1 DEF Turns, Samples
  <2>3. Sequential
    BY <1>1 DEF Sequential, Live, Ended, Samples
  <2>4. QED
    BY <2>1, <2>2, <2>3 DEF Control
<1>4. QED
  BY <1>2, <1>3 DEF Inv

\* The parent moves on, and no process or file changes.
LEMMA MovesOn ==
  ASSUME Inv,
         \/ RunPremcloop \/ WaitForProcessor \/ ForkFails \/ PollRunning \/ PollDone
         \/ SamplesDone \/ WaitDone \/ RunPostmcloop
  PROVE  Inv'
<1>1. UNCHANGED <<world, proc, children, nr, output>>
  BY DEF RunPremcloop, WaitForProcessor, ForkFails, PollRunning, PollDone,
         SamplesDone, WaitDone, RunPostmcloop
<1>2. Data'
  BY <1>1, DataUnchanged DEF Inv
<1>3. /\ fork' = fork /\ proc' = proc /\ children' = children /\ output' = output
      /\ Live' = Live
  BY <1>1 DEF world, Live
<1>4. ControlType /\ Turns /\ Stages /\ Sequential /\ Len(children) \in Nat
  BY DEF Inv, Control, Data, DataType
<1>5. ControlType'
  <2>1. CASE RunPremcloop \/ ForkFails \/ SamplesDone \/ WaitDone \/ RunPostmcloop
    BY <1>3, <1>4, <2>1 DEF RunPremcloop, ForkFails, SamplesDone, WaitDone,
         RunPostmcloop, ControlType, Polling
  <2>2. CASE WaitForProcessor \/ PollRunning
    BY <1>3, <1>4, <2>2 DEF WaitForProcessor, PollRunning, ControlType, Polling
  <2>3. CASE PollDone
    <3>1. pc' = "loop" /\ sample' = IF pc = "pollForked" THEN sample + 1 ELSE sample
      BY <2>3 DEF PollDone
    <3>2. pc = "pollForked" => sample \in 1..NrSamples
      BY <1>4 DEF Turns, Samples
    <3>3. sample' \in 1..(NrSamples + 1)
      BY <1>4, <3>1, <3>2, SampleAssumption DEF ControlType
    <3>4. QED
      BY <3>1, <3>3 DEF ControlType, Polling
  <2>4. QED
    BY <2>1, <2>2, <2>3
<1>6. Turns'
  <2>1. CASE RunPremcloop \/ ForkFails \/ SamplesDone \/ WaitDone \/ RunPostmcloop
             \/ WaitForProcessor \/ PollRunning
    BY <1>3, <1>4, <2>1, SampleAssumption DEF RunPremcloop, ForkFails, SamplesDone, WaitDone,
         RunPostmcloop, WaitForProcessor, PollRunning, ControlType, Turns, Samples
  <2>2. CASE PollDone
    BY <1>3, <1>4, <2>2, SampleAssumption DEF PollDone, Polling, ControlType, Turns, Samples
  <2>3. QED
    BY <2>1, <2>2
<1>7. Stages'
  <2>1. CASE RunPremcloop \/ ForkFails \/ WaitDone \/ RunPostmcloop
    BY <1>3, <1>4, <2>1 DEF RunPremcloop, ForkFails, WaitDone, RunPostmcloop, Stages,
         Polling
  <2>2. CASE SamplesDone
    BY <1>3, <1>4, <2>2, SampleAssumption DEF SamplesDone, Stages, Polling, ControlType
  <2>3. CASE WaitForProcessor
    BY <1>3, <1>4, <2>3, SampleAssumption DEF WaitForProcessor, Stages, Polling,
         ControlType, Samples
  <2>4. CASE PollRunning \/ PollDone
    BY <1>3, <1>4, <2>4, SampleAssumption DEF PollRunning, PollDone, Stages, Polling,
         ControlType, Samples
  <2>5. QED
    BY <2>1, <2>2, <2>3, <2>4
<1>8. Sequential'
  <2>1. CASE fork
    BY <1>3, <2>1 DEF Sequential
  <2>2. CASE ~fork
    <3>1. (~Polling /\ ~WaitForProcessor /\ ~ForkFails /\ pc # "running") \/ pc = "running"
      BY <1>4, <2>2 DEF Stages, WaitForProcessor, ForkFails
    <3>2. sample' = sample /\ pc # "running"
      BY <1>4, <2>2 DEF Stages, Polling, RunPremcloop, WaitForProcessor, ForkFails,
           PollRunning, PollDone, SamplesDone, WaitDone, RunPostmcloop
    <3>3. \A s \in Samples : s \notin Live
      BY <1>4, <2>2, <3>2 DEF Sequential
    <3>4. QED
      BY <1>3, <1>4, <3>2, <3>3 DEF Sequential
  <2>3. QED
    BY <2>1, <2>2, <1>4 DEF ControlType
<1>9. QED
  BY <1>2, <1>5, <1>6, <1>7, <1>8 DEF Inv, Control

\* The parent handles a child, in a poll or when it waits.
LEMMA HandledInv ==
  ASSUME Inv, NEW k \in 1..Len(children), fork, HandleFinishedChildProcess(k),
         k = i \/ pc = "wait", pc \in {"pollOccupied", "pollForked", "wait"},
         UNCHANGED <<world, pc, sample, i, output>>
  PROVE  Inv'
<1>1. /\ Data' /\ Len(children') = Len(children) - 1
      /\ \E c \in Samples : proc[c] \in Ended /\ proc' = [proc EXCEPT ![c] = "reaped"]
  BY HandledData DEF Inv
<1>2. PICK c \in Samples : proc[c] \in Ended /\ proc' = [proc EXCEPT ![c] = "reaped"]
  BY <1>1
<1>3. fork' = fork /\ pc' = pc /\ sample' = sample /\ i' = i
  BY DEF world
<1>4. /\ ControlType /\ Turns /\ Stages /\ Len(children) \in Nat
      /\ proc \in [Samples -> {"none", "running", "reaped"} \cup Ended]
  BY DEF Inv, Control, Data, DataType
<1>5. ControlType'
  BY <1>1, <1>3, <1>4 DEF ControlType, Polling
<1>6. \A s \in Samples : proc'[s] = "none" <=> proc[s] = "none"
  BY <1>2, <1>4 DEF Ended
<1>7. Turns'
  BY <1>3, <1>4, <1>6 DEF Turns
<1>8. Stages'
  BY <1>3, <1>4 DEF Stages, Polling
<1>9. Sequential'
  BY <1>3 DEF Sequential
<1>10. QED
  BY <1>1, <1>5, <1>7, <1>8, <1>9 DEF Inv, Control

LEMMA PollEndedInv == ASSUME Inv, PollEnded PROVE Inv'
<1>1. /\ Polling /\ i <= Len(children) /\ HandleFinishedChildProcess(i)
      /\ UNCHANGED <<world, pc, sample, i, output>>
  BY DEF PollEnded
<1>2. fork /\ i \in 1..Len(children) /\ pc \in {"pollOccupied", "pollForked"}
  BY <1>1 DEF Inv, Control, Stages, ControlType, Polling, Data, DataType
<1>3. QED
  BY <1>1, <1>2, HandledInv

LEMMA WaitForChildInv == ASSUME Inv, WaitForChild PROVE Inv'
<1>1. /\ pc = "wait" /\ children # <<>> /\ HandleFinishedChildProcess(1)
      /\ UNCHANGED <<world, pc, sample, i, output>>
  BY DEF WaitForChild
<1>2. children \in Seq(Samples) /\ (~fork => children = <<>>)
  BY DEF Inv, Data, DataType, Listed
<1>3. fork /\ 1 \in 1..Len(children)
  BY <1>1, <1>2 DEF Inv, Data, DataType
<1>4. QED
  BY <1>1, <1>3, HandledInv

LEMMA ForkInv == ASSUME Inv, Fork PROVE Inv'
<1>1. /\ pc = "loop" /\ fork /\ sample <= NrSamples /\ ~Occupied
      /\ proc' = [proc EXCEPT ![sample] = "running"]
      /\ output' = [output EXCEPT ![sample] = "part"]
      /\ children' = Append(children, sample) /\ nr' = [nr EXCEPT !.forked = @ + 1]
      /\ pc' = "pollForked" /\ i' = 1 /\ UNCHANGED world /\ sample' = sample
      /\ fork' = fork
  BY DEF Fork, world
<1>2. /\ ControlType /\ Turns /\ Stages /\ Data /\ Len(children) \in Nat
      /\ proc \in [Samples -> {"none", "running", "reaped"} \cup Ended]
  BY DEF Inv, Control, Data, DataType
<1>3. sample \in Samples /\ proc[sample] = "none"
  BY <1>1, <1>2, SampleAssumption DEF ControlType, Turns, Samples
<1>4. Data' /\ Len(children') = Len(children) + 1
  BY <1>1, <1>2, <1>3, ForkedData
<1>5. ControlType'
  BY <1>1, <1>2, <1>4 DEF ControlType
<1>6. Turns'
  BY <1>1, <1>2, <1>3 DEF Turns, Samples
<1>7. Stages' /\ Sequential'
  BY <1>1 DEF Stages, Sequential, Polling
<1>8. QED
  BY <1>4, <1>5, <1>6, <1>7 DEF Inv, Control

LEMMA RunSampleInv == ASSUME Inv, RunSample PROVE Inv'
<1>1. /\ pc = "loop" /\ ~fork /\ sample <= NrSamples
      /\ proc' = [proc EXCEPT ![sample] = "running"]
      /\ output' = [output EXCEPT ![sample] = "part"]
      /\ pc' = "running" /\ sample' = sample /\ children' = children /\ nr' = nr
      /\ fork' = fork /\ filter' = filter /\ runs' = runs
  BY DEF RunSample, world
<1>2. /\ ControlType /\ Turns /\ Stages /\ Sequential /\ DataType /\ Listed /\ Outputs
  BY DEF Inv, Control, Data
<1>3. sample \in Samples /\ proc[sample] = "none"
  BY <1>1, <1>2, SampleAssumption DEF ControlType, Turns, Samples
<1>4. DataType' /\ Outputs'
  BY <1>1, <1>2, <1>3 DEF DataType, Outputs
<1>5. Listed' /\ Counted'
  BY <1>1, <1>2 DEF Listed, Counted
<1>6. ControlType'
  BY <1>1, <1>2 DEF ControlType, Polling
<1>7. Turns'
  BY <1>1, <1>2, <1>3 DEF Turns, DataType, Samples
<1>8. Stages'
  BY <1>1 DEF Stages, Polling
<1>9. Sequential'
  <2>1. ASSUME NEW s \in Samples, s < sample
        PROVE  proc'[s] = "reaped" /\ output'[s] = "full"
    BY <1>1, <1>2, <2>1 DEF Sequential, DataType, Samples
  <2>2. ASSUME NEW s \in Samples, s \in Live' PROVE s = sample
    BY <1>1, <1>2, <2>2 DEF Sequential, Live, DataType
  <2>3. QED
    BY <1>1, <2>1, <2>2 DEF Sequential
<1>10. QED
  BY <1>4, <1>5, <1>6, <1>7, <1>8, <1>9 DEF Inv, Control, Data

LEMMA SampleEndsInv == ASSUME Inv, NEW s \in Samples, SampleEnds(s) PROVE Inv'
<1>1. PICK r \in Ended : proc' = [proc EXCEPT ![s] = r]
  BY EndedData
<1>2. Data' /\ Live' = Live
  BY EndedData
<1>3. /\ proc[s] = "running" /\ pc' = pc /\ sample' = sample /\ i' = i
      /\ children' = children /\ fork' = fork
      /\ output' = [output EXCEPT ![s] = output'[s]]
  BY DEF SampleEnds, world, Inv, Data, DataType
<1>4. /\ ControlType /\ Turns /\ Stages /\ Sequential /\ DataType
  BY DEF Inv, Control, Data
<1>5. \A x \in Samples : proc'[x] = "none" <=> proc[x] = "none"
  BY <1>1, <1>3, <1>4 DEF Ended, DataType
<1>6. ControlType' /\ Turns' /\ Stages'
  BY <1>3, <1>4, <1>5 DEF ControlType, Turns, Stages, Polling
<1>7. Sequential'
  <2>1. s \in Live
    BY <1>3 DEF Live
  <2>2. ASSUME ~fork, NEW x \in Samples, x < sample
        PROVE  proc'[x] = "reaped" /\ output'[x] = "full"
    <3>1. proc[x] = "reaped" /\ output[x] = "full" /\ x # s
      BY <1>3, <1>4, <2>2 DEF Sequential
    <3>2. QED
      BY <1>1, <1>3, <1>4, <3>1 DEF DataType
  <2>3. QED
    BY <1>2, <1>3, <1>4, <2>2 DEF Sequential
<1>8. QED
  BY <1>2, <1>6, <1>7 DEF Inv, Control

LEMMA SampleReturnsInv == ASSUME Inv, SampleReturns PROVE Inv'
<1>1. /\ pc = "running" /\ proc[sample] # "running"
      /\ proc' = [proc EXCEPT ![sample] = "reaped"]
      /\ children' = children /\ nr' = nr /\ output' = output /\ i' = i
      /\ fork' = fork /\ filter' = filter /\ runs' = runs
      /\ \/ proc[sample] = "exit0" /\ pc' = "loop" /\ sample' = sample + 1
         \/ proc[sample] # "exit0" /\ pc' = "aborted" /\ sample' = sample
  BY DEF SampleReturns, world
<1>2. ~fork /\ sample \in Samples /\ proc[sample] # "none"
  BY <1>1 DEF Inv, Control, Stages, Turns
<1>3. /\ ControlType /\ Turns /\ Stages /\ Sequential /\ DataType /\ Listed /\ Outputs
  BY DEF Inv, Control, Data
<1>4. DataType' /\ Outputs'
  BY <1>1, <1>2, <1>3 DEF DataType, Outputs, Ended
<1>5. Listed' /\ Counted'
  BY <1>1, <1>2, <1>3 DEF Listed, Counted
<1>6. ControlType'
  BY <1>1, <1>2, <1>3, SampleAssumption DEF ControlType, Polling, Samples
<1>7. Turns'
  BY <1>1, <1>2, <1>3, SampleAssumption DEF Turns, DataType, Samples
<1>8. Stages'
  BY <1>1 DEF Stages, Polling
<1>9. \A s \in Samples : s \notin Live'
  BY <1>1, <1>2, <1>3 DEF Sequential, Live, DataType, Ended
<1>10. \A s \in Samples : s < sample' => proc'[s] = "reaped" /\ output'[s] = "full"
  <2>1. ASSUME NEW s \in Samples, s < sample
        PROVE  proc'[s] = "reaped" /\ output'[s] = "full"
    BY <1>1, <1>2, <1>3, <2>1 DEF Sequential, DataType
  <2>2. CASE proc[sample] = "exit0"
    <3>1. proc'[sample] = "reaped" /\ output'[sample] = "full"
      BY <1>1, <1>2, <1>3, <2>2 DEF DataType, Outputs
    <3>2. QED
      BY <1>1, <1>2, <2>1, <2>2, <3>1 DEF Samples
  <2>3. CASE proc[sample] # "exit0"
    BY <1>1, <2>1, <2>3
  <2>4. QED
    BY <2>2, <2>3
<1>11. QED
  BY <1>4, <1>5, <1>6, <1>7, <1>8, <1>9, <1>10 DEF Inv, Control, Data, Sequential

LEMMA RunAgainInv == ASSUME Inv, RunAgain PROVE Inv'
<1>1. /\ pc = "done" /\ runs' = runs + 1 /\ pc' = "premc" /\ sample' = 1
      /\ proc' = [s \in Samples |-> "none"] /\ output' = [s \in Samples |-> "none"]
      /\ fork' = fork /\ filter' = filter /\ i' = i /\ children' = children /\ nr' = nr
  BY DEF RunAgain
<1>2. children = <<>> /\ DataType /\ nr.forked = nr.finished + Len(children)
  BY <1>1 DEF Inv, Control, Stages, Data, Listed
<1>3. nr.forked = nr.finished
  BY <1>2 DEF DataType
<1>4. runs' \in Nat \ {0} /\ runs' # 1
  BY <1>1, <1>2 DEF DataType
<1>5. Data'
  BY <1>1, <1>2, <1>3, <1>4, FreshData DEF DataType
<1>6. ControlType' /\ Stages'
  BY <1>1, <1>2, SampleAssumption DEF ControlType, Stages, Polling
<1>7. Turns' /\ Sequential'
  BY <1>1 DEF Turns, Sequential, Live, Ended, Samples
<1>8. QED
  BY <1>5, <1>6, <1>7 DEF Inv, Control

LEMMA StutterInv == ASSUME Inv, UNCHANGED vars PROVE Inv'
BY DataUnchanged DEF vars, world, Inv, Control, ControlType, Turns, Stages, Sequential,
                     Polling, Live

LEMMA InvInductive == Inv /\ [Next]_vars => Inv'
<1> SUFFICES ASSUME Inv, [Next]_vars PROVE Inv'
  OBVIOUS
<1>1. CASE RunPremcloop \/ WaitForProcessor \/ ForkFails \/ PollRunning \/ PollDone
           \/ SamplesDone \/ WaitDone \/ RunPostmcloop
  BY <1>1, MovesOn
<1>2. CASE Fork
  BY <1>2, ForkInv
<1>3. CASE RunSample
  BY <1>3, RunSampleInv
<1>4. CASE SampleReturns
  BY <1>4, SampleReturnsInv
<1>5. CASE PollEnded
  BY <1>5, PollEndedInv
<1>6. CASE WaitForChild
  BY <1>6, WaitForChildInv
<1>7. CASE RunAgain
  BY <1>7, RunAgainInv
<1>8. CASE \E s \in Samples : SampleEnds(s)
  BY <1>8, SampleEndsInv
<1>9. CASE UNCHANGED vars
  BY <1>9, StutterInv
<1>10. QED
  BY <1>1, <1>2, <1>3, <1>4, <1>5, <1>6, <1>7, <1>8, <1>9 DEF Next, Parent

-------------------------------------------------------------------------------
(* The theorems *)

\* In every behaviour the variables have their types and a poll stays within
\* the list (ForkScript.handleFinishedChildProcesses).
THEOREM TypeCorrect == Spec => []TypeOK
<1>1. Inv => TypeOK
  BY DEF Inv, Data, DataType, Control, ControlType, TypeOK
<1>2. QED
  BY <1>1, InitInv, InvInductive, PTL DEF Spec

\* For every number of samples and processors: no more samples have a process
\* than the framework may run at a time (MonteCarloFramework.run).
THEOREM ProcessorsCorrect == Spec => []AtMostProcessors
<1>1. Inv => AtMostProcessors
  <2> SUFFICES ASSUME Inv PROVE AtMostProcessors
    OBVIOUS
  <2>1. CASE fork
    BY <2>1, DistinctLength DEF Inv, Data, DataType, Listed, AtMostProcessors
  <2>2. CASE ~fork
    <3>1. Live \in SUBSET {sample}
      BY <2>2 DEF Inv, Control, Sequential, Live
    <3>2. Cardinality(Live) <= 1
      <4>1. IsFiniteSet({sample}) /\ Cardinality({sample}) = 1
        BY FS_Singleton
      <4>2. QED
        BY <3>1, <4>1, FS_Subset
    <3>3. QED
      BY <2>2, <3>2 DEF AtMostProcessors
  <2>3. QED
    BY <2>1, <2>2
<1>2. QED
  BY <1>1, InitInv, InvInductive, PTL DEF Spec

\* However children end between the polls: d_childProcesses has each process
\* that exists, once, and no other (ForkScript).
THEOREM ListCorrect == Spec => []ListIsProcesses
<1>1. Inv => ListIsProcesses
  BY DistinctLength DEF Inv, Data, DataType, Listed, ListIsProcesses
<1>2. QED
  BY <1>1, InitInv, InvInductive, PTL DEF Spec

\* For every number of samples: the number of failed children is that of the
\* samples that are not complete, and a sequential run that reaches the
\* postmcloop has lost none (ForkScript.handleFinishedChildProcess).
THEOREM LossesCorrect == Spec => []LossesAreKnown
<1>1. Inv => LossesAreKnown
  <2> SUFFICES ASSUME Inv, pc = "postmc"
               PROVE  LET lost == {s \in Samples : output[s] # "full"} IN
                      IF fork THEN runs = 1 => nr.failed = Cardinality(lost) ELSE lost = {}
    BY DEF LossesAreKnown
  <2>1. children = <<>> /\ sample = NrSamples + 1
    BY DEF Inv, Control, Stages
  <2>2. \A s \in Samples : s < sample
    BY <2>1, SampleAssumption DEF Samples
  <2>3. CASE fork
    <3>1. Live = {}
      BY <2>1, <2>3 DEF Inv, Data, Listed, ToSet
    <3>2. \A s \in Samples : proc[s] = "reaped"
      BY <2>2, <3>1 DEF Inv, Control, Turns, Data, DataType, Live
    <3>3. Lost = {s \in Samples : output[s] # "full"}
      BY <3>2 DEF Lost
    <3>4. QED
      BY <2>3, <3>3 DEF Inv, Data, Counted
  <2>4. CASE ~fork
    BY <2>2, <2>4 DEF Inv, Control, Sequential
  <2>5. QED
    BY <2>3, <2>4
<1>2. QED
  BY <1>1, InitInv, InvInductive, PTL DEF Spec

-------------------------------------------------------------------------------
(* The refinement *)

\* What a process and its files are, for Ensemble.
Member(p, o) ==
  IF p = "none" THEN "todo"
  ELSE IF p = "running" THEN "running"
  ELSE IF o = "full" THEN "complete" ELSE "incomplete"

LEMMA Members ==
  /\ memberBar = [s \in Samples |-> Member(proc[s], output[s])]
  /\ memberBar' = [s \in Samples |-> Member(proc'[s], output'[s])]
BY DEF memberBar, Member

LEMMA MemberValues ==
  /\ \A o : Member("none", o) = "todo" /\ Member("running", o) = "running"
  /\ \A p \in Ended \cup {"reaped"} : \A o :
       Member(p, o) = IF o = "full" THEN "complete" ELSE "incomplete"
BY DEF Member, Ended

LEMMA SameMember ==
  ASSUME UNCHANGED <<proc, output>> PROVE memberBar' = memberBar
BY Members

\* A process is handled without a change of its member.
LEMMA MemberKept ==
  ASSUME proc \in [Samples -> {"none", "running", "reaped"} \cup Ended],
         NEW c \in Samples, proc[c] \in Ended,
         proc' = [proc EXCEPT ![c] = "reaped"], output' = output
  PROVE  memberBar' = memberBar
<1>1. ASSUME NEW s \in Samples
      PROVE  Member(proc'[s], output'[s]) = Member(proc[s], output[s])
  <2>1. CASE s = c
    BY <2>1, MemberValues
  <2>2. CASE s # c
    BY <2>2
  <2>3. QED
    BY <2>1, <2>2
<1>2. QED
  BY <1>1, Members

\* The member of one sample changes.
LEMMA MemberChanges ==
  ASSUME proc \in [Samples -> {"none", "running", "reaped"} \cup Ended],
         output \in [Samples -> {"none", "part", "full"}],
         NEW c \in Samples, NEW p, NEW o,
         proc' = [proc EXCEPT ![c] = p], output' = [output EXCEPT ![c] = o]
  PROVE  /\ memberBar[c] = Member(proc[c], output[c])
         /\ memberBar' = [memberBar EXCEPT ![c] = Member(p, o)]
<1>1. ASSUME NEW s \in Samples
      PROVE  Member(proc'[s], output'[s])
               = IF s = c THEN Member(p, o) ELSE Member(proc[s], output[s])
  BY DEF Ended
<1>2. memberBar' = [s \in Samples |-> IF s = c THEN Member(p, o)
                                      ELSE Member(proc[s], output[s])]
  BY <1>1, Members
<1>3. memberBar = [s \in Samples |-> Member(proc[s], output[s])]
  BY Members
<1>4. QED
  BY <1>2, <1>3

\* A sample starts.
LEMMA MemberBegins ==
  ASSUME proc \in [Samples -> {"none", "running", "reaped"} \cup Ended],
         output \in [Samples -> {"none", "part", "full"}],
         NEW c \in Samples, proc[c] = "none",
         proc' = [proc EXCEPT ![c] = "running"], output' = [output EXCEPT ![c] = "part"]
  PROVE  memberBar[c] = "todo" /\ memberBar' = [memberBar EXCEPT ![c] = "running"]
<1>1. Member(proc[c], output[c]) = "todo" /\ Member(proc'[c], output'[c]) = "running"
  BY MemberValues
<1>2. ASSUME NEW s \in Samples
      PROVE  Member(proc'[s], output'[s])
               = IF s = c THEN "running" ELSE Member(proc[s], output[s])
  BY <1>1
<1>3. memberBar' = [s \in Samples |-> IF s = c THEN "running"
                                      ELSE Member(proc[s], output[s])]
  BY <1>2, Members
<1>4. memberBar = [s \in Samples |-> Member(proc[s], output[s])]
  BY Members
<1>5. QED
  BY <1>1, <1>3, <1>4

\* A sample ends.
LEMMA MemberEnds ==
  ASSUME proc \in [Samples -> {"none", "running", "reaped"} \cup Ended],
         output \in [Samples -> {"none", "part", "full"}],
         NEW c \in Samples, proc[c] = "running", NEW r \in Ended,
         proc' = [proc EXCEPT ![c] = r],
         output' = [output EXCEPT ![c] = output'[c]]
  PROVE  /\ memberBar[c] = "running"
         /\ \E m \in {"complete", "incomplete"} : memberBar' = [memberBar EXCEPT ![c] = m]
<1>1. /\ memberBar[c] = Member(proc[c], output[c])
      /\ memberBar' = [memberBar EXCEPT ![c] = Member(r, output'[c])]
  BY MemberChanges
<1>2. Member(r, output'[c]) \in {"complete", "incomplete"}
  BY MemberValues
<1>3. QED
  BY <1>1, <1>2, MemberValues

\* The phase by where the parent is.
LEMMA Phases ==
  /\ pc = "premc" => phaseBar = "before"
  /\ pc \in {"postmc", "done"} => phaseBar = "after"
  /\ pc = "aborted" => phaseBar = "abandoned"
  /\ pc \in {"loop", "running", "pollOccupied", "pollForked", "wait"} => phaseBar = "samples"
BY DEF phaseBar

LEMMA PhasesNext ==
  /\ pc' = "premc" => phaseBar' = "before"
  /\ pc' \in {"postmc", "done"} => phaseBar' = "after"
  /\ pc' = "aborted" => phaseBar' = "abandoned"
  /\ pc' \in {"loop", "running", "pollOccupied", "pollForked", "wait"} => phaseBar' = "samples"
BY DEF phaseBar

\* Every step is one of Ensemble, or none of its.
LEMMA StepRefines ==
  ASSUME Inv, [Next]_vars PROVE [Ensemble!Next]_(Ensemble!vars)
<1> USE Phases, PhasesNext
<1>1. /\ proc \in [Samples -> {"none", "running", "reaped"} \cup Ended]
      /\ output \in [Samples -> {"none", "part", "full"}]
      /\ ControlType /\ Turns /\ Stages
  BY DEF Inv, Data, DataType, Control
<1>2. CASE RunPremcloop
  <2>1. memberBar' = memberBar
    BY <1>2, SameMember DEF RunPremcloop
  <2>2. phaseBar = "before" /\ phaseBar' \in {"samples", "abandoned"}
    BY <1>2 DEF RunPremcloop
  <2>3. QED
    BY <2>1, <2>2 DEF Ensemble!Next, Ensemble!Prepare, Ensemble!Abandon
<1>3. CASE ForkFails \/ (RunPostmcloop /\ pc' = "aborted")
  <2>1. memberBar' = memberBar
    BY <1>3, SameMember DEF ForkFails, RunPostmcloop
  <2>2. phaseBar \in {"samples", "after"} /\ phaseBar' = "abandoned"
    BY <1>3 DEF ForkFails, RunPostmcloop
  <2>3. QED
    BY <2>1, <2>2 DEF Ensemble!Next, Ensemble!Abandon
<1>4. CASE \/ WaitForProcessor \/ PollRunning \/ PollDone \/ SamplesDone
           \/ (RunPostmcloop /\ pc' # "aborted")
  <2>1. memberBar' = memberBar
    BY <1>4, SameMember DEF WaitForProcessor, PollRunning, PollDone, SamplesDone, RunPostmcloop
  <2>2. phaseBar' = phaseBar
    BY <1>4 DEF WaitForProcessor, PollRunning, PollDone, SamplesDone, RunPostmcloop, Polling
  <2>3. QED
    BY <2>1, <2>2 DEF Ensemble!vars
<1>5. CASE WaitDone
  <2>1. memberBar' = memberBar
    BY <1>5, SameMember DEF WaitDone
  <2>2. phaseBar = "samples" /\ phaseBar' = "after"
    BY <1>5 DEF WaitDone
  <2>3. \A s \in Samples : proc[s] = "reaped"
    <3>1. pc = "wait" /\ children = <<>>
      BY <1>5 DEF WaitDone
    <3>2. \A s \in Samples : s < sample
      BY <1>1, <3>1, SampleAssumption DEF Stages, Samples
    <3>3. Live = {}
      <4>1. CASE fork
        BY <3>1, <4>1 DEF Inv, Data, Listed, ToSet
      <4>2. CASE ~fork
        BY <3>1, <4>2 DEF Inv, Control, Sequential, Live
      <4>3. QED
        BY <4>1, <4>2
    <3>4. QED
      BY <1>1, <3>2, <3>3 DEF Turns, Live
  <2>4. \A s \in Samples : memberBar[s] \in {"complete", "incomplete"}
    BY <2>3, Members, MemberValues
  <2>5. QED
    BY <2>1, <2>2, <2>4 DEF Ensemble!Next, Ensemble!Conclude
<1>6. CASE Fork \/ RunSample
  <2>1. sample \in Samples /\ proc[sample] = "none"
    BY <1>1, <1>6, SampleAssumption DEF Fork, RunSample, ControlType, Turns, Samples
  <2>2. /\ proc' = [proc EXCEPT ![sample] = "running"]
        /\ output' = [output EXCEPT ![sample] = "part"]
        /\ pc = "loop" /\ pc' \in {"pollForked", "running"}
    BY <1>6 DEF Fork, RunSample
  <2>3. memberBar[sample] = "todo" /\ memberBar' = [memberBar EXCEPT ![sample] = "running"]
    BY <1>1, <2>1, <2>2, MemberBegins
  <2>4. phaseBar = "samples" /\ phaseBar' = "samples"
    BY <2>2
  <2>5. Ensemble!Begin(sample)
    BY <2>3, <2>4 DEF Ensemble!Begin
  <2>6. QED
    BY <2>1, <2>5 DEF Ensemble!Next
<1>7. CASE SampleReturns
  <2>1. sample \in Samples /\ proc[sample] \in Ended \cup {"reaped"}
    BY <1>1, <1>7 DEF SampleReturns, Turns
  <2>2. memberBar' = memberBar
    <3>1. proc' = [proc EXCEPT ![sample] = "reaped"] /\ output' = output
      BY <1>7 DEF SampleReturns
    <3>2. CASE proc[sample] \in Ended
      BY <1>1, <2>1, <3>1, <3>2, MemberKept
    <3>3. CASE proc[sample] = "reaped"
      <4>1. proc' = proc
        BY <1>1, <3>1, <3>3
      <4>2. QED
        BY <3>1, <4>1, SameMember
    <3>4. QED
      BY <2>1, <3>2, <3>3
  <2>3. phaseBar = "samples" /\ phaseBar' \in {"samples", "abandoned"}
    BY <1>7 DEF SampleReturns
  <2>4. QED
    BY <2>2, <2>3 DEF Ensemble!Next, Ensemble!Abandon, Ensemble!vars
<1>8. CASE PollEnded \/ WaitForChild
  <2>1. PICK k : /\ k \in 1..Len(children) /\ HandleFinishedChildProcess(k)
                 /\ pc' = pc /\ output' = output
    <3>1. CASE PollEnded
      <4>1. i \in 1..Len(children)
        BY <1>1, <3>1 DEF PollEnded, ControlType, Inv, Data, DataType
      <4>2. QED
        BY <3>1, <4>1 DEF PollEnded
    <3>2. CASE WaitForChild
      <4>1. 1 \in 1..Len(children)
        BY <3>2 DEF WaitForChild, Inv, Data, DataType
      <4>2. QED
        BY <3>2, <4>1 DEF WaitForChild
    <3>3. QED
      BY <1>8, <3>1, <3>2
  <2>2. children[k] \in Samples
    BY <2>1 DEF Inv, Data, DataType
  <2>3. memberBar' = memberBar
    BY <1>1, <2>1, <2>2, MemberKept DEF HandleFinishedChildProcess
  <2>4. phaseBar' = phaseBar
    BY <2>1 DEF phaseBar
  <2>5. QED
    BY <2>3, <2>4 DEF Ensemble!vars
<1>9. CASE RunAgain
  <2>1. memberBar' = [s \in Samples |-> "todo"]
    BY <1>9, Members, MemberValues DEF RunAgain
  <2>2. phaseBar = "after" /\ phaseBar' = "before"
    BY <1>9 DEF RunAgain
  <2>3. QED
    BY <2>1, <2>2 DEF Ensemble!Next, Ensemble!Again
<1>10. CASE \E s \in Samples : SampleEnds(s)
  <2>1. PICK s \in Samples : SampleEnds(s)
    BY <1>10
  <2>2. PICK r \in Ended : proc' = [proc EXCEPT ![s] = r]
    BY <2>1, EndedData
  <2>3. /\ proc[s] = "running" /\ pc' = pc
        /\ output' = [output EXCEPT ![s] = output'[s]]
    BY <1>1, <2>1 DEF SampleEnds
  <2>4. /\ memberBar[s] = "running"
        /\ \E m \in {"complete", "incomplete"} : memberBar' = [memberBar EXCEPT ![s] = m]
    BY <1>1, <2>2, <2>3, MemberEnds
  <2>5. phaseBar' = phaseBar
    BY <2>3 DEF phaseBar
  <2>6. Ensemble!End(s)
    BY <2>4, <2>5 DEF Ensemble!End
  <2>7. QED
    BY <2>6 DEF Ensemble!Next
<1>11. CASE UNCHANGED vars
  <2>1. memberBar' = memberBar /\ phaseBar' = phaseBar
    BY <1>11, SameMember DEF vars, phaseBar
  <2>2. QED
    BY <2>1 DEF Ensemble!vars
<1>12. QED
  BY <1>2, <1>3, <1>4, <1>5, <1>6, <1>7, <1>8, <1>9, <1>10, <1>11 DEF Next, Parent

\* For every number of samples and processors the run is one of Ensemble: the
\* premcloop first, every sample once, the postmcloop after the last has ended.
THEOREM EnsembleCorrect == Spec => ImplementsEnsemble
<1>1. Init => Ensemble!Init
  BY Members, MemberValues, Phases DEF Init, Ensemble!Init
<1>2. Inv /\ [Next]_vars => [Ensemble!Next]_(Ensemble!vars)
  BY StepRefines
<1>3. QED
  BY <1>1, <1>2, InitInv, InvInductive, PTL DEF Spec, Ensemble!Spec, ImplementsEnsemble
================================================================================
