----------------------------- MODULE ParticleFilter ----------------------------
(***************************************************************************)
(* ParticleFilterFramework.run with a dynamic model: the time steps are    *)
(* run in periods that end at the filter time steps.  In each period the   *)
(* Monte Carlo framework runs every sample (MonteCarlo), which resumes     *)
(* from its state files and leaves state files; at the filter time step    *)
(* the samples are weighed and the state files of some replace those of    *)
(* others.                                                                 *)
(*                                                                         *)
(* The user's model reports its state in every time step, and in suspend   *)
(* and resume with reportState and readState or with report and readmap,   *)
(* for both of which the framework makes the file names.  The content of a *)
(* file is the history of the state: the sample of each time step.         *)
(***************************************************************************)
EXTENDS Naturals, Sequences, FiniteSets, Resampling, FrameworkFiles

CONSTANTS
  NrSamples,
  NrTimeSteps,      \* _d_totalTimesteps
  FilterTimesteps,  \* the lists that setFilterTimesteps may be given
  Weights,          \* what updateWeight may return
  Schemes,          \* subset of {"SIR", "RR"}
  Forking,          \* subset of BOOLEAN: samples in processes of their own
  Failing,          \* subset of BOOLEAN: samples may fail
  SuspendBy,        \* subset of {"reportState", "report"}
  ResumeBy,         \* subset of {"readState", "readmap"}
  None              \* no file

ASSUME NrAssumption == NrSamples \in Nat \ {0} /\ NrTimeSteps \in Nat \ {0}

\* setFilterTimesteps accepts the time steps of the model, in any order.
ASSUME FilterAssumption ==
  \A f \in FilterTimesteps : f \in Seq(1..NrTimeSteps) /\ f # <<>>

ASSUME WeightsAssumption == Weights \subseteq Nat

Samples == 1..NrSamples
Times   == 0..NrTimeSteps
NoFiles == [t \in Times |-> None]

\* No file is not the content of a file.
ASSUME NoneAssumption == \A t \in Times : None \notin [1..t -> Samples]

VARIABLES
  scheme, forked, failing, filterSteps,  \* how the run was set up
  suspendBy, resumeBy,                   \* what the user's model calls
  pc,
  period,           \* _d_filterPeriod and currentPeriod
  first, last,      \* firstTimeStep() and nrTimeSteps()
  ended,            \* samples that ended in this period
  weights,          \* _d_particleWeights, relative to each other
  cdf,              \* the cumulative weights that samples are drawn from
  todo,             \* samples to draw
  clones,           \* samplesToClone
  report,           \* sample/name.t, by sample and time step
  state,            \* sample/stateVar/name.t
  track             \* _d_trackCloned, by period and sample

setup == <<scheme, forked, failing, filterSteps, suspendBy, resumeBy>>
vars == <<setup, pc, period, first, last, ended, weights, cdf, todo, clones,
          report, state, track>>

LastPeriod == Len(filterSteps)
Equal == [s \in Samples |-> 1]

Init ==
  /\ scheme \in Schemes /\ forked \in Forking /\ failing \in Failing
  /\ filterSteps \in FilterTimesteps
  /\ suspendBy \in SuspendBy /\ resumeBy \in ResumeBy
  /\ pc = "premc" /\ period = 0
  /\ first = 1 /\ last = NrTimeSteps
  /\ ended = {} /\ weights = Equal /\ cdf = <<>> /\ todo = 0 /\ clones = <<>>
  /\ report = [s \in Samples |-> NoFiles]
  /\ state = [s \in Samples |-> NoFiles]
  /\ track = [n \in (0..LastPeriod) \X Samples |-> {}]

RunPremcloop ==
  /\ pc = "premc" /\ pc' = "period"
  /\ UNCHANGED <<setup, period, first, last, ended, weights, cdf, todo, clones,
                 report, state, track>>

-------------------------------------------------------------------------------
(* A period.                                                               *)

\* _startEndOfPeriod.
StartOfPeriod == IF period = 0 THEN 1 ELSE filterSteps[period] + 1
EndOfPeriod == IF period = LastPeriod THEN NrTimeSteps ELSE filterSteps[period + 1]

StartPeriod ==
  /\ pc = "period" /\ StartOfPeriod <= EndOfPeriod
  /\ first' = StartOfPeriod /\ last' = EndOfPeriod
  /\ ended' = {} /\ pc' = "samples"
  /\ UNCHANGED <<setup, period, weights, cdf, todo, clones, report, state, track>>

\* assert startTimestep <= endTimestep.
PeriodIsEmpty ==
  /\ pc = "period" /\ StartOfPeriod > EndOfPeriod
  /\ pc' = "aborted"
  /\ UNCHANGED <<setup, period, first, last, ended, weights, cdf, todo, clones,
                 report, state, track>>

\* Mutant: from the latest state there is.
ResumedLatest(s) ==
  LET has == {t \in 1..(first - 1) : state[s][t] # None} IN
  IF has = {} THEN <<>> ELSE state[s][Max(has)]

\* What DynamicFramework.run starts from: initial or resume.
Resumed(s) ==
  IF first = 1 THEN <<>>
  ELSE IF resumeBy = "readState" THEN state[s][ReadStateName(first)]
  ELSE report[s][ReadName("resume", last, first)]

\* The state after time step t of this period.
History(s, t) == Resumed(s) \o [k \in 1..(t + 1 - first) |-> s]

\* DynamicFramework.run, up to an exception: in resume, before time step
\* upto + 1, or in suspend.
Runs(s, upto, suspended) ==
  /\ report' =
       [report EXCEPT ![s] =
          [t \in Times |-> IF Resumed(s) # None /\ t \in first..upto
                           THEN History(s, ReportName("dynamic", t)) ELSE @[t]]]
  /\ state' = IF suspended
              THEN [state EXCEPT ![s][ReportStateName(last)] = History(s, last)]
              ELSE state

\* report in suspend makes no name.
Complete(s, upto) ==
  /\ Resumed(s) # None /\ upto = last
  /\ suspendBy = "reportState" \/ ReportName("suspend", last) # NoName

\* A sample of the period ends.  Without processes the samples are run in
\* order, and an exception ends the run.
RunSample(s) ==
  /\ pc = "samples" /\ s \notin ended
  /\ forked \/ \A r \in 1..(s - 1) : r \in ended
  /\ \E upto \in IF failing THEN (first - 1)..last ELSE {last} :
     \E suspended \in BOOLEAN :
       /\ suspended => Complete(s, upto)
       /\ failing \/ (suspended <=> Complete(s, upto))
       /\ Runs(s, upto, suspended)
       /\ pc' = IF forked \/ suspended THEN pc ELSE "aborted"
  /\ ended' = ended \cup {s}
  /\ UNCHANGED <<setup, period, first, last, weights, cdf, todo, clones, track>>

EndPeriod ==
  /\ pc = "samples" /\ ended = Samples
  /\ pc' = IF period = LastPeriod THEN "postmc" ELSE "weights"
  /\ UNCHANGED <<setup, period, first, last, ended, weights, cdf, todo, clones,
                 report, state, track>>

-------------------------------------------------------------------------------
(* A filter time step.                                                     *)

\* updateWeight of each sample, which reads what the sample reported.
Reported(s) == report[s][ReportName("updateWeight", last)] # None

\* Mutant: what was not reported has no weight.
UpdateWeightsOfAny ==
  /\ pc = "weights"
  /\ \E w \in [Samples -> Weights] :
       weights' = [s \in Samples |-> IF Reported(s) THEN w[s] ELSE 0]
  /\ pc' = "resample"
  /\ UNCHANGED <<setup, period, first, last, ended, cdf, todo, clones, report,
                 state, track>>

UpdateWeights ==
  /\ pc = "weights"
  /\ IF \A s \in Samples : Reported(s)
     THEN weights' \in [Samples -> Weights] /\ pc' = "resample"
     ELSE pc' = "aborted" /\ UNCHANGED weights
  /\ UNCHANGED <<setup, period, first, last, ended, cdf, todo, clones, report,
                 state, track>>

\* Sequential importance resampling draws every sample.
ResampleAll ==
  /\ pc = "resample" /\ scheme = "SIR"
  /\ \E w \in {NormaliseWeights(weights)} : cdf' = CumulativeWeights(w)
  /\ clones' = [s \in Samples |-> 0] /\ todo' = NrSamples
  /\ pc' = "draw"
  /\ UNCHANGED <<setup, period, first, last, ended, weights, report, state, track>>

\* Residual resampling copies by weight and draws the rest.
ResampleResidual ==
  /\ pc = "resample" /\ scheme = "RR"
  /\ \E w \in {NormaliseWeights(weights)} : \E k \in Floors(w) :
       /\ clones' = k /\ todo' = NrSamples - Total(k)
       /\ \E rest \in {ResidualWeights(w, k)} : cdf' = CumulativeWeights(rest)
  /\ pc' = "draw"
  /\ UNCHANGED <<setup, period, first, last, ended, weights, report, state, track>>

Draw ==
  /\ pc = "draw" /\ todo > 0
  /\ \E hit \in Draws(cdf) :
       clones' = [s \in Samples |-> IF s \in hit THEN clones[s] + 1 ELSE clones[s]]
  /\ todo' = todo - 1
  /\ UNCHANGED <<setup, pc, period, first, last, ended, weights, cdf, report,
                 state, track>>

\* assert sum(samplesToClone) == nrSamples.
AllDrawn ==
  /\ pc = "draw" /\ todo = 0
  /\ pc' = IF Total(clones) = NrSamples THEN "clone" ELSE "aborted"
  /\ UNCHANGED <<setup, period, first, last, ended, weights, cdf, todo, clones,
                 report, state, track>>

\* Mutant: a sample that is copied is recorded without itself.
TrackedCopies(s) ==
  {<<period + 1, r>> : r \in {q \in Samples : Source(clones, q) = s /\ (q # s \/ clones[s] = 1)}}

\* What _cloneData records of a sample: itself and its copies.
Tracked(s) ==
  {<<period + 1, r>> : r \in {q \in Samples : clones[s] > 0 /\ (q = s \/ Source(clones, q) = s)}}

\* Mutant: the next period is the same.
CloneDataOnly ==
  /\ pc = "clone"
  /\ state' = [s \in Samples |-> state[Source(clones, s)]]
  /\ track' = [n \in DOMAIN track |->
                 IF n[1] = period THEN Tracked(n[2]) ELSE track[n]]
  /\ weights' = Equal /\ cdf' = <<>> /\ clones' = <<>>
  /\ pc' = "period"
  /\ UNCHANGED <<setup, period, first, last, ended, todo, report>>

\* _cloneData, and the end of the period.
CloneData ==
  /\ pc = "clone"
  /\ state' = [s \in Samples |-> state[Source(clones, s)]]
  /\ track' = [n \in DOMAIN track |->
                 IF n[1] = period THEN Tracked(n[2]) ELSE track[n]]
  /\ weights' = Equal /\ cdf' = <<>> /\ clones' = <<>>
  /\ period' = period + 1 /\ pc' = "period"
  /\ UNCHANGED <<setup, first, last, ended, todo, report>>

\* _setFirstTimeStep(firstTimeStep()) changes nothing.
RunPostmcloop ==
  /\ pc = "postmc" /\ pc' = "done"
  /\ UNCHANGED <<setup, period, first, last, ended, weights, cdf, todo, clones,
                 report, state, track>>

-------------------------------------------------------------------------------
Next ==
  \/ RunPremcloop \/ StartPeriod \/ PeriodIsEmpty \/ EndPeriod \/ UpdateWeights
  \/ ResampleAll \/ ResampleResidual \/ Draw \/ AllDrawn \/ CloneData
  \/ RunPostmcloop
  \/ \E s \in Samples : RunSample(s)

Spec == Init /\ [][Next]_vars

\* One program, and samples that end (MonteCarlo!RunEnds).
FairSpec == Spec /\ WF_vars(Next)
-------------------------------------------------------------------------------
\* Nothing that a sample reports or stores was computed from a state of another
\* time: a file of time step t has t time steps of history, whichever samples
\* failed and were copied over others before (resume, suspend, _cloneData).
NoGaps ==
  \A s \in Samples, t \in Times :
    /\ report[s][t] # None => Len(report[s][t]) = t
    /\ state[s][t] # None => Len(state[s][t]) = t

\* The period that a time step is in.
PeriodOf(t) ==
  Min({k - 1 : k \in {n \in 1..LastPeriod : t <= filterSteps[n]}} \cup {LastPeriod})

\* The graph that _createGraph draws from _d_trackCloned is the ancestry of the
\* states: where a history goes from one period to the next, or was stored for
\* the next, there is an edge, and there are no others than one to each sample
\* of a period.  With readmap, models resume from files that were not cloned.
GraphIsAncestry ==
  resumeBy = "readState" =>
    /\ \A s \in Samples, t \in Times : report[s][t] # None =>
         \A u \in 1..(t - 1) : PeriodOf(u) # PeriodOf(u + 1) =>
           <<PeriodOf(u + 1), report[s][t][u + 1]>>
              \in track[<<PeriodOf(u), report[s][t][u]>>]
    /\ pc = "period" /\ period > 0 =>
         \A s \in Samples :
           LET h == state[s][filterSteps[period]] IN
           h # None => <<period, s>> \in track[<<period - 1, h[Len(h)]>>]
    /\ \A p \in 1..period, s \in Samples :
         Cardinality({r \in Samples : <<p, s>> \in track[<<p - 1, r>>]}) = 1

\* In residual resampling a sample is kept as often as its weight is worth, but
\* for one copy less at most, whatever is drawn (rounding: see Resampling).
ResidualKeeps ==
  pc = "clone" /\ scheme = "RR" =>
    LET w == NormaliseWeights(weights) IN
    \A s \in Samples : clones[s] >= Floor(w, s) - (IF IsWhole(w, s) THEN 1 ELSE 0)

\* Samples that fail in processes of their own go unnoticed in the last period
\* only: a run that gets to the postmcloop has weighed every sample at every
\* filter time step.
LossesAreNoticed ==
  pc \in {"postmc", "done"} =>
    \A s \in Samples, k \in 1..LastPeriod : report[s][filterSteps[k]] # None

\* No sample fails, and the states go through the files that are cloned.
Intact == ~failing /\ suspendBy = "reportState" /\ resumeBy = "readState"

\* The detailed filter is one of Population, as long as no sample fails: the
\* particle of a sample is its last stored state.
particleBar ==
  [s \in Samples |->
     IF pc = "premc" THEN <<>>
     ELSE IF s \in ended THEN state[s][last]
     ELSE IF first = 1 THEN <<>> ELSE state[s][first - 1]]
untilBar == IF pc = "premc" \/ (pc = "period" /\ period = 0) THEN 0 ELSE last
weightBar == IF pc = "resample" \/ clones # <<>> THEN weights ELSE <<>>

P == INSTANCE Population
       WITH MaxTime <- NrTimeSteps, particle <- particleBar, until <- untilBar,
            weight <- weightBar
ImplementsPopulation == (Intact => P!Init) /\ [][Intact => P!Next]_(P!vars)

\* Every run ends, in success or in an assertion or exception.
RunEnds == <>(pc \in {"done", "aborted"})

\* The documentation of resume: state variables, which the filter has cloned, can
\* be obtained with the self.readmap() method.
ResumesClone ==
  pc = "samples" /\ first > 1 =>
    \A s \in Samples \ ended : Resumed(s) = state[s][first - 1]
================================================================================
