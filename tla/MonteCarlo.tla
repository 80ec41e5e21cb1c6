------------------------------- MODULE MonteCarlo ------------------------------
(***************************************************************************)
(* MonteCarloFramework.run and the child processes of ForkScript.          *)
(*                                                                         *)
(* With forking, the parent forks one process per sample and polls its     *)
(* children, at most NrProcessors of which it lets run at a time; without, *)
(* it runs the samples itself, one after the other.  The filter frameworks *)
(* call run once per filter period, without premcloop and postmcloop.      *)
(*                                                                         *)
(* A process is named by its sample.  The parent knows a child by its      *)
(* entry in d_childProcesses, the operating system until it was waited     *)
(* for.  What a sample writes to its directory is complete only if it      *)
(* returned from the user's model.                                         *)
(***************************************************************************)
EXTENDS Naturals, Sequences, SequencesExt, FiniteSets

CONSTANTS
  NrSamples,
  NrCPUs,           \* the second argument of setForkSamples
  CpuCount,         \* multiprocessing.cpu_count()
  MaxRuns           \* bound: calls of run on one framework

ASSUME SampleAssumption == NrSamples \in Nat \ {0}
ASSUME CPUAssumption == NrCPUs \in Nat \ {0} /\ CpuCount \in Nat \ {0}

Samples == 1..NrSamples

\* MonteCarloFramework.setForkSamples.
NrProcessors == IF NrCPUs = 1 THEN CpuCount ELSE NrCPUs

VARIABLES
  fork,             \* _forkSamples()
  filter,           \* run(False, False), called by a filter framework
  pc,               \* where the parent is
  sample,           \* the parent's loop variable
  i,                \* the index of handleFinishedChildProcesses
  proc,             \* the process of each sample, as the system knows it
  children,         \* d_childProcesses
  nr,               \* the numbers of children forked, finished and failed
  output,           \* what the directory of a sample has of this run
  runs

world == <<fork, filter, runs>>
vars == <<world, pc, sample, i, proc, children, nr, output>>

Ended == {"exit0", "exit1", "signal"}

Init ==
  /\ fork \in BOOLEAN /\ filter \in BOOLEAN
  /\ pc = "premc" /\ sample = 1 /\ i = 1 /\ runs = 1
  /\ proc = [s \in Samples |-> "none"]
  /\ output = [s \in Samples |-> "none"]
  /\ children = <<>>
  /\ nr = [forked |-> 0, finished |-> 0, failed |-> 0]

\* The premcloop is the user's and may raise an exception.
RunPremcloop ==
  /\ pc = "premc"
  /\ pc' \in IF filter THEN {"loop"} ELSE {"loop", "aborted"}
  /\ UNCHANGED <<world, sample, i, proc, children, nr, output>>

-------------------------------------------------------------------------------
(* The loop over the samples.                                              *)

\* Mutant: one child too many.
OneMore == Len(children) > NrProcessors

\* MonteCarloFramework._systemIsOccupied.
Occupied == Len(children) >= NrProcessors

\* Mutant: waiting without looking at the children.
SleepOnly ==
  /\ pc = "loop" /\ fork /\ sample <= NrSamples /\ Occupied
  /\ UNCHANGED vars

WaitForProcessor ==
  /\ pc = "loop" /\ fork /\ sample <= NrSamples /\ Occupied
  /\ pc' = "pollOccupied" /\ i' = 1
  /\ UNCHANGED <<world, sample, proc, children, nr, output>>

\* ForkScript.fork; the child starts with the sample of the parent.
Fork ==
  /\ pc = "loop" /\ fork /\ sample <= NrSamples /\ ~Occupied
  /\ proc' = [proc EXCEPT ![sample] = "running"]
  /\ output' = [output EXCEPT ![sample] = "part"]
  /\ children' = Append(children, sample)
  /\ nr' = [nr EXCEPT !.forked = @ + 1]
  /\ pc' = "pollForked" /\ i' = 1
  /\ UNCHANGED <<world, sample>>

\* os.fork raises an exception, which leaves the children to themselves.
ForkFails ==
  /\ pc = "loop" /\ fork /\ sample <= NrSamples /\ ~Occupied
  /\ pc' = "aborted"
  /\ UNCHANGED <<world, sample, i, proc, children, nr, output>>

\* Without forking the parent is the process of every sample.
RunSample ==
  /\ pc = "loop" /\ ~fork /\ sample <= NrSamples
  /\ proc' = [proc EXCEPT ![sample] = "running"]
  /\ output' = [output EXCEPT ![sample] = "part"]
  /\ pc' = "running"
  /\ UNCHANGED <<world, sample, i, children, nr>>

\* The model returns, raises an exception or, in a child, is killed.
SampleEnds(s) ==
  /\ proc[s] = "running"
  /\ \E r \in IF fork THEN Ended ELSE {"exit0", "exit1"} :
       /\ proc' = [proc EXCEPT ![s] = r]
       /\ output' = [output EXCEPT ![s] = IF r = "exit0" THEN "full" ELSE @]
  /\ UNCHANGED <<world, pc, sample, i, children, nr>>

\* The model returned to run, or its exception leaves run.
SampleReturns ==
  /\ pc = "running" /\ proc[sample] # "running"
  /\ IF proc[sample] = "exit0"
     THEN pc' = "loop" /\ sample' = sample + 1
     ELSE pc' = "aborted" /\ UNCHANGED sample
  /\ proc' = [proc EXCEPT ![sample] = "reaped"]
  /\ UNCHANGED <<world, i, children, nr, output>>

-------------------------------------------------------------------------------
(* The children.                                                           *)

\* Mutant: the exit status of a process that a signal ended is 0 too.
ExitStatusZero(r) == r # "exit1"

\* ChildProcess.exitedWithZeroStatus.
ExitedWithZeroStatus(r) == r = "exit0"

\* Mutant: the entry stays.
HandleAndKeep(k) ==
  LET c == children[k] IN
  /\ proc[c] \in Ended
  /\ proc' = [proc EXCEPT ![c] = "reaped"]
  /\ nr' = [nr EXCEPT !.finished = @ + 1,
                      !.failed = IF ExitedWithZeroStatus(proc[c]) THEN @ ELSE @ + 1]
  /\ UNCHANGED children

\* os.waitpid and ForkScript.handleFinishedChildProcess.
HandleFinishedChildProcess(k) ==
  LET c == children[k] IN
  /\ proc[c] \in Ended
  /\ proc' = [proc EXCEPT ![c] = "reaped"]
  /\ children' = RemoveAt(children, k)
  /\ nr' = [nr EXCEPT !.finished = @ + 1,
                      !.failed = IF ExitedWithZeroStatus(proc[c]) THEN @ ELSE @ + 1]

Polling == pc \in {"pollOccupied", "pollForked"}

\* ForkScript.handleFinishedChildProcesses, a child that has ended.
PollEnded ==
  /\ Polling /\ i <= Len(children)
  /\ HandleFinishedChildProcess(i)
  /\ UNCHANGED <<world, pc, sample, i, output>>

\* The same, a child that is running.
PollRunning ==
  /\ Polling /\ i <= Len(children)
  /\ proc[children[i]] = "running"
  /\ i' = i + 1
  /\ UNCHANGED <<world, pc, sample, proc, children, nr, output>>

PollDone ==
  /\ Polling /\ i > Len(children)
  /\ pc' = "loop"
  /\ sample' = IF pc = "pollForked" THEN sample + 1 ELSE sample
  /\ UNCHANGED <<world, i, proc, children, nr, output>>

SamplesDone ==
  /\ pc = "loop" /\ sample > NrSamples
  /\ pc' = "wait"
  /\ UNCHANGED <<world, sample, i, proc, children, nr, output>>

\* ForkScript.waitForChildProcessesToFinish waits for the oldest child.
WaitForChild ==
  /\ pc = "wait" /\ children # <<>>
  /\ HandleFinishedChildProcess(1)
  /\ UNCHANGED <<world, pc, sample, i, output>>

\* Mutant: the children that have ended are handled, no other waited for.
WaitForNone ==
  /\ pc = "wait" /\ \A k \in DOMAIN children : proc[children[k]] = "running"
  /\ pc' = "postmc"
  /\ UNCHANGED <<world, sample, i, proc, children, nr, output>>

WaitDone ==
  /\ pc = "wait" /\ children = <<>>
  /\ pc' = "postmc"
  /\ UNCHANGED <<world, sample, i, proc, children, nr, output>>

RunPostmcloop ==
  /\ pc = "postmc"
  /\ pc' \in IF filter THEN {"done"} ELSE {"done", "aborted"}
  /\ UNCHANGED <<world, sample, i, proc, children, nr, output>>

\* The next filter period.
RunAgain ==
  /\ pc = "done" /\ filter /\ runs < MaxRuns
  /\ runs' = runs + 1 /\ pc' = "premc" /\ sample' = 1
  /\ proc' = [s \in Samples |-> "none"]
  /\ output' = [s \in Samples |-> "none"]
  /\ UNCHANGED <<fork, filter, i, children, nr>>

-------------------------------------------------------------------------------
Parent ==
  \/ RunPremcloop \/ WaitForProcessor \/ Fork \/ ForkFails \/ RunSample
  \/ SampleReturns \/ PollEnded \/ PollRunning \/ PollDone \/ SamplesDone
  \/ WaitForChild \/ WaitDone \/ RunPostmcloop

Next == Parent \/ RunAgain \/ \E s \in Samples : SampleEnds(s)

\* The parent is one process, which the system schedules; it assumes of the
\* user's model that it ends.
Fairness == WF_vars(Parent) /\ \A s \in Samples : WF_vars(SampleEnds(s))

Spec == Init /\ [][Next]_vars
FairSpec == Spec /\ Fairness

-------------------------------------------------------------------------------
Live == {s \in Samples : proc[s] \in {"running"} \cup Ended}

\* Every variable has its type; the poll stays within the list.
TypeOK ==
  /\ fork \in BOOLEAN /\ filter \in BOOLEAN /\ runs \in Nat
  /\ pc \in {"premc", "loop", "running", "pollOccupied", "pollForked", "wait",
             "postmc", "done", "aborted"}
  /\ sample \in 1..(NrSamples + 1)
  /\ i \in 1..(Len(children) + 1) \/ ~Polling
  /\ proc \in [Samples -> {"none", "running", "reaped"} \cup Ended]
  /\ output \in [Samples -> {"none", "part", "full"}]
  /\ children \in Seq(Samples)
  /\ nr \in [forked : Nat, finished : Nat, failed : Nat]

\* However polls and ends of children interleave, no more than NrProcessors
\* samples have a process (mcFramework.py, run).
AtMostProcessors == Cardinality(Live) <= IF fork THEN NrProcessors ELSE 1

\* The entries of d_childProcesses are the processes that exist, each once: no
\* process is waited for twice, which raises an exception, and none is left.
ListIsProcesses ==
  fork => /\ ToSet(children) = Live
          /\ Len(children) = Cardinality(Live)
          /\ nr.forked = nr.finished + Len(children)

\* Whatever ended a child: when the postmcloop of the first run is reached, the
\* framework has counted as failed as many samples as have not written
\* everything (ForkScript.handleFinishedChildProcess; later runs add to nr).  A
\* sequential run that reaches it has the results of all samples.
LossesAreKnown ==
  pc = "postmc" =>
    LET lost == {s \in Samples : output[s] # "full"} IN
    IF fork THEN runs = 1 => nr.failed = Cardinality(lost) ELSE lost = {}

\* The run of the samples is one of Ensemble: premcloop, every sample once,
\* postmcloop after the last has ended.
phaseBar ==
  CASE pc = "premc" -> "before"
    [] pc \in {"postmc", "done"} -> "after"
    [] pc = "aborted" -> "abandoned"
    [] OTHER -> "samples"
memberBar ==
  [s \in Samples |->
     IF proc[s] = "none" THEN "todo"
     ELSE IF proc[s] = "running" THEN "running"
     ELSE IF output[s] = "full" THEN "complete" ELSE "incomplete"]

Ensemble == INSTANCE Ensemble WITH phase <- phaseBar, member <- memberBar
ImplementsEnsemble == Ensemble!Spec

\* A run ends whenever its samples do, and lets all its samples have a turn
\* unless it is given up (the loop that waits for a processor, mcFramework.py).
RunEnds == (pc = "premc") ~> (pc \in {"done", "aborted"})
================================================================================
