# Verification of PCRaster

TLA+ models of the parts of PCRaster that keep state between calls: the model
engine (`pcraster_model_engine`, the library behind `pcrcalc`, the C API and the
Python extension), which analyzes a script, decides where each map is used for
the last time, and runs the script while overwriting and freeing maps at exactly
those places; the engine as the Python extension uses it, where Python and the
engine share the maps; the Python frameworks that run samples in processes and
filter them; and the multiple outflow ldd. The models are checked with TLC on
small instances; theorems about seven of them, for every value of the constants,
are proved with TLAPS.

## The system

A script is parsed into an abstract syntax tree. `CFGCreator` threads its nodes
into a control flow graph (CFG). `UseDefAnalyzer` visits the CFG and sets
`ASTPar::lastUse` and the delete sets of the jump nodes. An `Executor` visits
the same CFG; each node acts on the `RunTimeEnv`, which holds a stack, a table
of values by name, a cache of derived objects and the file writers. The C API
(`pcrcalc.h`) wraps script and executor in a `PcrScript`, which a client runs at
once or time step by time step. All of this is sequential: there are no threads
in the engine, so what interleaves are the client's calls, the branches that
loops take, and failures. Python models (`python_modelling_framework`) call
single operations through `RunTimeEngine`, which may fail anywhere, and run
samples in processes, which end, fail or are killed at any moment.

| Component | State | Operations | Interacts with | Correct when |
|---|---|---|---|---|
| CFG (`calc_cfgcreator`, `calc_cfgvisitor`) | list of nodes with forward and back branches | create, visit, advance | AST; analyzers and executor visit it | order of evaluation; back branch of a jump goes to the entrance of its block |
| Use-definition analysis (`calc_usedefanalyzer`, `calc_udevent`) | chain of events per name, simulated stack, block nesting | one visit, backward passes to a fixed point, marking | marks AST nodes that the executor reads | last uses, loop deletions, inputs are those of all paths |
| Executor (`calc_executor`) | current node, timer, all-done flag, pending time series | visit and jump methods, `execAll`, stepwise run | drives `RunTimeEnv`; owned by the client interface | computes what the script says; each time step once |
| Runtime environment (`calc_runtimeenv`, `calc_datatable`, `calc_runtimestack`, `calc_datavalue`) | table, stack, cache, ownership flags of each value | load, push, pop, assign, delete, clean | files through the IO strategy; operators | every value has one owner, freed once, at its last use |
| Operator execution (`calc_execarguments`, `calc_opimpl`, `calc_accuimpl`) | operands and results of one operation | pop operands, choose the result's place, push, fail | stack and cache | never changes a value that is needed later |
| C API (`calc_clientinterface`, `pcrcalc`) | error stream, script, executor, exchange buffers | create, reflect, execute, initial, next, finish, destroy | client's calls; executor | any order of calls is safe; documented return codes |
| IO strategy, field writers, stack input | open files, memory buffers | read, write, transfer | runtime environment | outputs complete and in order |
| Parser, type resolution | AST, symbol table | parse, rebuild CFG, resolve | analysis | types and inputs consistent |
| Engine behind Python (`calc_runtimeengine`, `pcraster_python`) | stack with fields that Python owns too, flags of each field, a lookup table, the clone | push arguments, check, execute, release the result; read a map, set a clone | Python's references; operator execution | every field has one owner; operands keep their values, also when the operation fails |
| Monte Carlo framework (`mcFramework`, `forkscript`) | the parent's place, its list of children, the processes, what each sample wrote | fork, poll, wait, run a sample, postmcloop | child processes, which end, fail or are killed | each sample once, none lost unnoticed, postmcloop after the last |
| Particle filter (`particleFilterFramework`, `frameworkBase`, `dynamicFramework`) | period, weights, copies of each sample, files of each sample | run a period, weigh, resample, clone files | Monte Carlo framework runs the samples; files of sample directories | each time step once in every surviving history; dead samples are replaced by live ones |
| `mldd` | flows between cells (two bytes per cell), visiting order, elevations | add, set, remove, get streams; upstream, accuflux, diffuse | Python | order is topological; both ends of a flow agree; a removal takes what runs dry |
| `pcrblock`, `modflow`, `pcraster_moc` | layers; input and output of external programs | | Python | |
| `pcraster_dal`, `pcrcom`, `pcrgeo`, `pcrxml`, `pcrdiscr`, legacy `pcraster_old_calc`, `calc`, `mathx`, command line tools, `pcraster_aguila`, `pcraster_multicore` | formats, geometry, numerical code, user interface | | | |

What is hard: liveness across back branches; one value reached through several
operands; lazy loading of stack entries; in-place results; cached objects keyed
by address; exceptions between pops and pushes; runs that are abandoned; API
calls in any order; two owners of one field; processes that end while they are
polled; files of a sample that another sample replaces; an order of visits that
has to follow every change of a graph. `PROJECT.json` lists these hazards with
their lines.

## The modules

| Module | Models | State and actions |
|---|---|---|
| `Cfg` | node types, `CFGVisitor::advance` | a CFG is a sequence of nodes, a block is named by the position of its entrance |
| `CfgCreator` | `CFGCreatorPrivate` | one operator per kind of tree node; scripts are written as terms |
| `Liveness` | (reference) | last uses, loop deletions, inputs from the dataflow equations over all paths |
| `UseDefRecorder` | `UseDefRecorder`, `EventChain`, `UDEvent` | a record `r` with chains, nesting and simulated stack; one operator per method |
| `UseDefAnalyzer` | `calc::setLastUse`, `inputSet`, `ioTypes` | one action per visited node, one per backward pass, one for the marking |
| `RunTimeEnv` | `RunTimeEnv`, `DataTable`, `RunTimeStack`, `DataValue`, `ExecArguments`, `ScopedCachedObject` | a record `rte` (stack, table, heap, flags, cache); one operator per method. Values are terms, so two maps are equal when they are computed alike. A deletion of a freed value and a use of one are recorded in `faults` |
| `ScriptSemantics` | (abstract) | an interpreter that never frees, moves or overwrites anything |
| `Executor` | `Executor`, `Operator` execution | one action per visit or jump method; `INSTANCE ScriptSemantics` with the stack of denoted values is the refinement mapping |
| `ClientInterface` | `Pcrcalc`, `ClientInterface` | one action per API function, each with its failing alternative |
| `PureOperations` | (abstract) | fields are values; an operation gives the value that was asked for, or raises |
| `RunTimeEngine` | `RunTimeEngine`, `RTTypeCheck`, `Operator` execution as Python calls it, the wrappers of `pcraster_python` | one action per push, check, execution, failure and release; Python deletes a field when its last reference goes, whether or not the stack points to it (`Forget`, `Leave`: then the entry is `Dangling`); a `setclone` whose destructor reads such an entry ends the model (`undefined`), as anything may follow; refines `PureOperations` |
| `Ensemble` | (abstract) | samples, each run once between premcloop and postmcloop |
| `MonteCarlo` | `MonteCarloFramework.run`, `ForkScript` | actions of the parent, one per call of the operating system, and of each child; refines `Ensemble` |
| `Population` | (abstract) | particles are carried on, weighed and replaced by particles with a weight |
| `Resampling` | the two resampling schemes | operators on weights; floating point shows at two places, which the module names |
| `FrameworkFiles` | names of files in each section of a user's model | one operator per kind of name |
| `ParticleFilter` | `ParticleFilterFramework.run` with a dynamic model | one action per stage of a period, sample, draw and cloning; refines `Population` |
| `DagRaster` | `DagRaster`, neighbour codes | a raster is a record of two functions from cells to sets of bits; the order is any that `boost::topological_sort` may leave, in part when it finds a cycle |
| `StreamNetwork` | (abstract) | a set of flows that streams are put in and cut from |
| `Mldd` | `Mldd` and its visitors | one action per operation and per visited edge; refines `StreamNetwork` |
| `ClientInterfaceProofs`, `RunTimeEngineProofs`, `MonteCarloProofs`, `ParticleFilterProofs`, `MlddProofs` | | theorems about the C API, the engine behind Python, the Monte Carlo framework, the particle filter, the multiple outflow ldd and the network that it implements |
| `MarkedCode`, `Marks` | (for proofs) | what the code and the marks of a script have to be like, node by node, for a run to compute what the script says; no run is mentioned. `MarkedCode` has what concerns names, `Marks` what is particular to operators and the cache |
| `UseDefInvariants`, `UseDefAnalyzerProofs` | | theorems about the analysis: its chains, inputs, last uses and delete sets are those of all paths, and its marks serve a run; the first module has the definitions of the inductive invariants |
| `ExecutorProofs`, `SemanticsProofs` | | lemmas about the operators of `RunTimeEnv` and theorems about the executor: types, ownership, kept values and faults; that it implements `ScriptSemantics` |
| `AnalyzedScripts`, `MC*` | | the scripts and constants of the runs |

Operators of the language are grouped by how their class in `calc_opimpl`
treats operands (`same1`, `left`, `right`, `comm`, `diff`, `two`, `accu`, `nop`,
`timeoutput`), as listed in `Executor`. The marks on the scripts that the
executor runs are those that `UseDefRecorder!Analyzed` computes, so the executor
runs check analysis and execution together. The condition of a repeat-until and
the occurrence of domain errors are nondeterministic.

What is computed is abstract everywhere: in `RunTimeEngine` the cells of a field
are a term, in `Mldd` an amount of material is the set of paths it came along,
in `ParticleFilter` the state of a sample is its history, the sample that
computed each of its time steps. `MonteCarlo` names a process by its sample, and
keeps what the operating system knows of it (`proc`) apart from what the parent
knows (`children`). `ParticleFilter` runs the samples of a period in any order,
as `MonteCarlo` shows they may end; that a period comes to its end is
`MonteCarlo!RunEnds`.

Definitions that a comment calls *mutant* are wrong variants of the definition
after them. No specification uses them; each shows, in the place of the right
definition, that a property fails when the code is wrong.

## The runs

| Run | Shows | Bounds |
|---|---|---|
| `usedef` | the analysis marks exactly the last uses, loop deletions and inputs of all paths, on well nested chains, and ends | 3 statements of 6 kinds, loops, loops in loops, loops in and statements before dynamic sections, 2 names; with and without `keepLiveAtEnd` and prologue |
| `executor` | values have one owner, are freed once and at the last use (`HeldIsNeeded`), read-only values keep their cells, nothing is left at the end, after an exception or after an abandoned stepwise run; the script's meaning is that of `ScriptSemantics`; the run ends; all scripts are `Consistent`, as the proofs suppose (`MarksAssumption`) | two or three statements of 8 kinds, as straight code, with a loop, with a dynamic section, and with a loop in a dynamic section, and scripts that route over an ldd with option m (782 scripts); 2 names and a time series; 2 time steps; one repetition of a loop; 8 addresses |
| `client` | API calls in any order; a stepwise run ends if the client goes on | 2 outputs, 4 buffers, scripts with 0, 1 and 3 time steps |
| `engine` | Python operations that succeed or fail anywhere: every field has one owner, is locked only while it is on the stack, keeps its value; the result is the one asked for; also when Python deletes what a failed operation left on the stack | operators with one, two and three fields, numbers, None or a table; 2 maps read, 2 operations, 2 clones; 9 addresses |
| `montecarlo` | samples in processes that end, fail or are killed at any moment, or in sequence: no more at a time than allowed, none lost, each once; the run ends | 4 samples, 2 processors of 3, 2 runs |
| `filter` | particles are carried on, weighed and replaced as promised whatever the weights and draws; the recorded graph is their ancestry; no state is computed from one of another time, and losses before the last filter moment end the run, whatever samples fail; every run ends | 3 samples, 3 time steps, weights 0, 1 and 3; 5 lists of filter moments, two of which (out of order, and at the last time step) the framework asserts on later; both schemes; with and without processes, with and without samples that fail; both ways to suspend and to resume |
| `mldd` | streams that are added, set and removed in any order, also into a cycle: both ends of a flow agree, visits follow the graph, material moves along every path once where none is missing | a raster of 2 by 2 cells; 7 flows in ldds of one or two, all sets of edges to remove, 3 sets of missing values, 2 iterations |

In `executor`, two names are enough for aliasing between operands, between a
name and the stack, and between the sides of an assignment, a third one is the
ldd; three statements put a use, a redefinition and a use around or in a loop.
With one repetition the back branch is taken and left; with two time steps the
dynamic section too. Eight addresses are more than a state needs (TLC reports a
deadlock if a step finds fewer than four), so that freed addresses are used
again.

In `engine`, two operations let the second one meet what the first left: a
result that is an operand, a stack that a failure did not empty, another clone.
Operators with more fields only repeat the loop over the arguments. In
`montecarlo`, four samples on two processors wait for a processor, end while
others are polled and come again in a second run; `CpuCount` is what the system
reports when the user gives no number. In the filter runs three samples are the
least with one that dies, one that is copied and one that is neither; weights 0,
1 and 3 make expected copies that are whole and that are not. `GraphIsAncestry`
is about the runs of the model that resume with `readState`, `ImplementsPopulation`
about those in which also no sample fails and states are suspended with
`reportState` (`Intact`): the documentation promises more, see `resume_readmap`,
and the others are what `NoGaps` and `LossesAreNoticed` are for. In `mldd` the
upper left cell of four flows to the other three, by two ways, and there is a
flow back up, so that streams join, part, run dry in steps and close a cycle.
`FluxIsEveryPath` is about the catchments in which no material is missing and all
weights are numbers (`Whole`): elsewhere the code does not do what is written of
it, see Observations.

`HeldIsNeeded` says *needed*, not *live*: the marks are those of all paths, and
a value that is dead on the back branch of a loop but live on the forward
branch stays until it is replaced.

Runs that show a disagreement with the code's documentation, comments or
assertions (`findings` in `PROJECT.json` quotes them):

| Run | What happens |
|---|---|
| `cached_graph_twice` | option m, two routing operators over one ldd: at the last use the cached graph is deleted through the cache and by its user |
| `resume_readmap` | `readmap` in `resume` reads the report of the sample itself; the filter clones the state files only, so a sample that was replaced goes on with its old state |
| `diffuse_terms` | where an elevation is missing, an iteration of `diffuse` does not advance its counter: later edges get the terms of others |
| `stack_dangles` | an operation that is refused after its first `pushField` leaves a field on the engine's stack; Python deletes it; at the next `setclone` the destructor of the stack reads it, where the callee should guarantee that it is alive |
| `ordinal_in_place` | `b = ordinal(a)` of a nominal `a` changes the value scale of `a` itself |

The scripts and operations of the passing runs avoid these cases: one case more
would only repeat the finding. They also avoid some that were met on the way:

- a conversion to the type that its operand has (`nop`) pushes a pointer to a
  value in the table; the last use of the name clears the flag, and an operator
  overwrites the value under the stack entry: `b = f(nop(a), g(a))`
  (`calc_opimpl.cc:442`). `ReadOnlyKept` and `Ownership` fail for such scripts;
- `a/a` at the last use of a non-spatial `a` with a domain error, and
  `timeoutput(a, a)` at the last use of `a`: operand and result, or both
  operands, are one value that is deleted twice;
- option m, an ldd whose last use is not a routing operator: its graph stays in
  the cache.

`ClientInterface` has all of these, as the code does: `finish` without a run
dereferences a null pointer (`FinishWithoutExecutor`); `finish` followed by
`initial` runs the initial section again, where `pcrcalc.h:268-271` has it once;
and `next` after the last time step returns 0 and runs none, where
`pcrcalc.h:322` says of a 0 that a time step is executed. Its time steps are
numbered from 1; `Timer::increment` starts at `startInt` (`calc_timer.cc:137-144`),
which gives the same steps other numbers.

## Fairness

The engine is sequential and `execAll` runs to the end, so `Executor!Spec` and
`UseDefAnalyzer!Spec` assume weak fairness of `Next`; in `Executor` it is
written without `ENABLED` (see there). Loops of a script end by assumption
(`MaxSpins`): the condition is data. `ClientInterface!FairSpec` assumes that the
client goes on calling for the next time step, as the loop in the API's examples
does; `Spec` alone assumes nothing of the client.

`MonteCarlo!FairSpec` assumes that the parent, one process, is scheduled, and
that a sample that runs ends, in whatever way: a model that does not end keeps
its parent waiting. `ParticleFilter!FairSpec` assumes weak fairness of `Next`:
one program, whose samples end as above. Nothing is assumed of which sample ends
first, of weights or of draws. The other specifications state no fairness: their
properties are about what operations do, not about when they are called.

## The proofs

### The C API

`ClientInterfaceProofs` proves, for any sets of outputs, buffers and last time
steps:

- `TypeCorrect`: the type invariant (which no run checks: it follows from the
  proof);
- `NoDangling`, `StepsOnce`: from the inductive invariant `IInv`, which adds to
  the two properties and the types that an executor that is gone leaves nothing
  behind and that an object has no error before it exists (`Gone`). Without it
  the step from a failed object to its destruction is not covered;
- `OutputsReadable`: inductive by itself, given the types;
- `ErrorsAreFinal`: the action property `ErrorsStay`, from `IInv`;
- `BuffersStay`: the action property `BuffersKept`, call by call.

They rest on `AddressAssumption` (the null address and the client's address are
not addresses of engine buffers) and `TimerAssumption` (time steps are natural
numbers).

### The analysis of a script

`UseDefAnalyzerProofs` proves, for any set of control flow graphs of any length
and any names, loops in loops and dynamic sections included, with and without
`keepLiveAtEnd` and prologue:

- `WellNestedCorrect`, the invariant `WellNested`: what the chains and the
  simulated stack are made of;
- `InputsCorrect`, the invariant `InputsExact`: the inputs are the names whose
  initial value some path uses;
- `LastUsesCorrect`, the invariant `LastUseExact`: `setLastUse` marks the
  occurrences after which no path uses the value, and no others;
- `DeletesCorrect`, the invariant `DeletesExact`: the jump nodes of loops delete
  the values that were kept for the back branch only, and no others.

None of these is inductive: they compare a result with the paths of the graph,
and say nothing of how it came about. There are two inductive invariants, one
for the visit and one for the passes.

`Recording` (`RecordingCorrect`) says what is recorded when a node is visited.
The events of a name that the nodes before it stand for are a set (`Seen`); the
order of evaluation orders them (`At` and `Rank`, as several events may stand
for one node); the chain lists this set in this order (`Records`). So does the
nesting list the blocks that are open, and the simulated stack the parameters
that no operation has taken, each at its depth (`StackOK`). What makes it hard
is that `UseDefRecorder` does not look ahead: the Enter of a block goes to every
chain there is, whether or not the name occurs in the block; a name that occurs
for the first time gets the Enters of all open blocks (`PrologueLists`); and a
Jump that follows an Enter takes it out again. That this leaves exactly the
blocks in which the name occurs, and those that are open, is `JumpUnreferred` and
`JumpReferred`. `WellNested` follows, as blocks are nested in the graph, and
`InputsExact`, as a name is needed at the start exactly if its first event is a
use.

`Marking` (`MarkingCorrect`) adds what the passes find. The reference,
`Liveness`, is a fixed point too: `LivePlacesFacts` and `LiveLeast` say that it
is the least solution of the dataflow equations. The proof compares the two
fixed points from both sides:

- *sound*: a mark says of no value that it is live when it is not (`Sound`).
  Every pass keeps this (`PassIsSound`), whatever it started from: what a pass
  finds live between two events is live in the graph (`LiveBetween`,
  `BeforeIsLive`), across a back branch by the mark of the Enter
  (`LoopedIsLive`);
- *complete*: when a pass adds nothing (`Settles`), the places up to the events
  that the marks reach (`Reached`) solve the dataflow equations, so that they
  have all places of the least solution (`LiveIsReached`). The case that is not
  local is the back branch of a loop in which the name does not occur, as its Jump
  is not in the chain: then nothing of the loop is, and its entrance and its end
  are reached from the same event (`BlockEmpty`, `ReachedAtLoop`).

So in the last state the marks are exact (`MarksAre`), and what is read off them
is (`LastUsesAre`, `DeadIs`). Events before the opening of a name, the Def of its
prologue, are at no place of the graph and are left out of both sides.

These theorems rest on `CodesAssumption`: each graph is `Structured`, which is
what `CFGCreator` makes of a script. Blocks are nested and have an entrance and
one jump; expressions find their operands on the stack and are complete where a
block begins or ends. TLC evaluates it for the scripts of `usedef`.

`MarksServe` links this to the theorems about a run, below: on a code that is
`Executable`, the marks that the analysis leaves without `keepLiveAtEnd` meet
`UsesKept` and `UsesEnd`, the conditions on last uses and delete sets there.
The two sides do not speak of the same stack. The analysis pops the operands of
a `timeoutput` or of a condition at once; a run leaves them to the next node.
`WaitingIs` says how the stacks differ, `Taker` which node takes an operand in a
run, and `ReadsLastIs`, `KeepsIs` and `DeletesToIs` what the marks say there in
terms of `LivePlaces`. `UsesKept` follows node by node (`ExactUsesKept`).
`UsesEnd` needs also what `Needed` adds, places from which some path ends
without an assignment (`EscapesAre`), and that a value which ends being needed
on the way from one node to the next does so at a last use or a jump
(`QuitsTaken`, `QuitsUntaken`).

### Values of a run

For any set of scripts of any length, any names and any finite set of
addresses:

- `ExecutorProofs!TypeCorrect`: the type invariant. It is not inductive: an
  assignment loads and stores fields only if its target is a name of a field,
  and the target of a deferred operator is a time series. `Deferred` adds that
  such an assignment is reached with `timeoutput` set, which holds because the
  node before it is the deferred operator and no jump leads to it.
- `ExecutorProofs!OwnershipCorrect`: the invariant `Ownership`, and
  `NothingLeftCorrect`: nothing is left after a run, however it ended
  (`NothingLeft`, the part of `FreedAtEnd` that does not depend on the marks).

In the middle of an operation neither table nor stack owns the values that the
operation has popped or created: they are *loose*. `Sound` says that what is
owned is alive and owned once and that the flag marks what the table owns;
there is a lemma for each operation on the environment that says which values
it makes loose. `ArgsSound` says that an `ExecArguments` holds exactly the loose
values, each result as one that nobody owns: then `pushResults` and the
destructor, with `d_doNotDelete`, leave nothing loose (`PushResultsSound`), and
neither do the destructor when an exception passes (`CleanArgumentsSound`), an
assignment (`AssignStackTopOwned`) and a delete set (`DeleteForwardsOwned`). The
invariant `OwnInv` is: the types, every value owned and none loose while the run
goes on (`Owned`), nothing on the heap once it is over (`Nothing`).

These theorems say nothing of the marks: a wrong last use or delete set changes
what is computed or when a value goes, but not that it has one owner. They
exclude scripts with a conversion of a name to the type that its value has, but
in its last use (`NoNamesConverted`), for which `Ownership` fails, as said above.

- `ExecutorProofs!ReadOnlyKeptCorrect`: an operation never overwrites a value
  that a name, or an entry of the stack, keeps. Each step keeps the cells of all
  read-only values (`KeepsCells`, `KeepsReadOnly`); what `srcDest` overwrites is
  a copy if it is read-only.
- `NoFaultsCorrect` and `OnlyGraphFaultsCorrect`: nothing is deleted twice or
  used after it was deleted, from `FaultInv`. They exclude, by conditions on the
  marks, `a/a` at the last use of `a` as the left operand (`NoOperandTwice`) and
  an assignment of a name to itself that is never used (`NoSelfAssignment`). With
  option m and a routing operator only the graphs of ldds may be deleted twice,
  which the run `cached_graph_twice` shows to happen.

They rest on `ProgramsAssumption` (operators get at least the operands that they
overwrite, jumps go back to entrances of blocks, only time series are assigned
without being fields; TLC evaluates it for the scripts of every run),
`ObjAssumption` (addresses are finitely many and not null) and
`TimerAssumption`; and on the guard `Visiting`, which bounds what a node
allocates: a visit starts with four free addresses and with the entries its node
pops. The runs show that the guard never fails for the scripts they execute, and
`OperandsThereCorrect`, below, proves the part about the entries.

### Meaning of a run

`SemanticsProofs` proves what depends on the marks, for any set of scripts of
any length that are `Consistent` (module `Marks`): the stack is balanced; a name
that some path still reads is not taken by a last use, nor deleted or
overwritten by an assignment that is marked unused (`UsesKept`); a name
that no path needs any more is taken, deleted or left unassigned (`UsesEnd`); and
a name whose graph may be in the cache is freed by a jump node only
(`GraphsDeleted`). Each condition compares a node with its successors, so that it
can be evaluated for a script without running it: TLC does so for all scripts of
the run `executor`, with the marks that `UseDefRecorder` computes, and `MarksServe`
proves `UsesKept` and `UsesEnd` of what the analysis leaves on any script that is
`Executable`. A script as that of `cached_graph_twice` is not `Consistent`.

- `SemanticsImplemented`: the executor implements `ScriptSemantics`, the
  property `ImplementsSemantics`: operand by operand, report by report and time
  step by time step it computes what an interpreter does that never frees,
  shares, overwrites or defers anything.
- `ConsistentNoFaults`, `CacheFreshCorrect`: no fault, with option m too, and
  no graph of cells that were overwritten.
- `HeldIsNeededCorrect`, `FreedAtEndCorrect`: values are held only while they
  are needed, and none is left after the last block.
- `OperandsThereCorrect`: no node pops more than there is.

The invariant is `SemInv`. To `OwnInv` and `FaultInv` it adds `WaitInv` (the
entries of the stack were pushed by the nodes that wait there according to the
code), `ValInv` (what is read before it is assigned has, in the table or in its
file, the value that the interpreter has for it) and `CacheInv` (graphs are
fresh). `ImplementsSemantics` is not inductive without `ValInv`: an entry of the
stack with a name is read only when it is popped, and the table may have lost or
replaced the value by then. Nor is `ValInv` without `WaitInv`, which says what
the popped entries are and so which names a visit may free or load. A lemma for
each kind of node says what its visit does to the stack, the names and the cache
(`Visits`), and three lemmas that this keeps the three parts, whatever the node
(`StepWaitInv`, `StepValInv`, `StepCacheInv`); so only the first kind is about
operations. The refinement follows node by node (`VisitExprMeans`,
`VisitAssMeans`, ...), as entries below those that are popped keep what they
denote. `HeldInv` is the converse of `ValInv`: a value has a reason to be held,
which it loses only together with the value (`StepHeldInv`).

### Fields that Python and the engine share

`RunTimeEngineProofs` proves `OneOwnerCorrect` and `FlagsCorrect` (the
invariants `OneOwner` and `OutsideNotReadOnly`) for any addresses and any number
of maps, operations and clones, also after operations that fail, and when Python
then deletes what they left on the stack. That the stack points to nothing that
Python deleted is not true (`stack_dangles`), and not part of `OneOwner`: what is
proved is that the engine leaves nothing behind, deletes nothing that the program
or the stack refers to, and that the arguments of the operation in progress are
there. Neither invariant is inductive: during a call some operands are on the
stack and locked, a result may belong to nobody, and the checks pop and push
again. `Inv` is

- `Owned`: what is on the heap is the program's, the table's or nobody's (a
  pending result), and only that; a field of the program that is locked is on
  the stack, one on the stack is not managed by the engine; tables are managed
  and read-only, a pending result is managed and not read-only. The stack holds
  addresses and dangling pointers (`Pointer`), of which nothing is said;
- `ProgramOK`, `CallOK`, `StackOK`: what the program's variables, the phases of
  a call and the stack are made of, so that each pop finds what it expects: the
  arguments that were pushed are the program's (`Present`), below them may be
  what earlier operations left, or nothing any more (`Known`).

A lemma for each step of the operation (`PushArgumentInv`, `CheckedInv`,
`ExecuteInv`, ...) says that `Inv` is kept; they rest on lemmas about the
operators that change a heap (`PushOwned`, `DropOwned`, `ReleaseOwned`,
`WrittenOwned`, ...) and on `Parts`, which cuts the stack in what an operation
takes and what is below. The proof rests on `EngineAssumption` (None is an
object; a null pointer, what is not a field and a dangling pointer are not) and on the guard of the
actions that allocate, that memory is available.

`PureCorrect` proves that the engine implements `PureOperations` (the property
`ImplementsPure`), and `NotModifiedCorrect` that no operation changes a field
that the program has, from `PureInv`, which adds to `Inv`:

- `Meant`: until an operation was executed, what comes of its arguments as they
  are now is what the program asked for when it called; then its result is.
  That pushing, checking and narrowing of the arguments keep this is what
  `ShapedResult` and `NarrowResult` say: a result depends on what the operands
  contain and not on their flags, and an operand that is narrowed to the scales
  that the operator allows gives the same result;
- `Locked`: the arguments that were pushed are read-only, so that what an
  operation overwrites is a clone (`WrittenMeaning`);
- `Scaled` and `Calling`: a field of the program has one scale, so that
  narrowing it changes nothing, and only cover has a third argument.

Every step then is a step of `PureOperations` (`ReadMapPure`, `CallPure`,
`GivePure`, `RaisePure`, ...) or a stutter (`CheckedPure`, `ExecutePure`, ...).
Both theorems have the hypothesis `NoOrdinals`: no map that is read is ordinal
and the program does not convert to ordinal. With it `nominal` and `scalar` are
allowed. Without it they fail: a conversion between nominal and ordinal is
executed on the operand itself, which the run `ordinal_in_place` shows.

### Samples in processes

`MonteCarloProofs` proves, for any number of samples, processors and runs:
`ProcessorsCorrect`, `ListCorrect`, `LossesCorrect` and the types, from `Inv ==
Data /\ Control`. `Data` relates the parent's list to the processes: each child
that was not waited for is in it once (`Listed`), what its directory has is what
its exit says (`Outputs`), and the number of failures is that of the samples
lost (`Counted`). `Control` says which samples had their turn when the parent is
at a place of its loop. `AtMostProcessors` needs both: the length of the list
bounds the processes, and the parent forks where the list was just measured.
`EnsembleCorrect` proves the refinement: every step is one of `Ensemble` or a
stutter, under the mapping of `phaseBar` and `memberBar`. They rest on
`SampleAssumption` and `CPUAssumption` (there is a sample and a processor).

### Particles

`ParticleFilterProofs` proves, for any number of samples, time steps, filter
moments and weights, for both schemes, and whatever the user's model stores
where and fails where:

- `TypeCorrect`, `NoGapsCorrect` and `LossesCorrect` from `Inv == Control /\
  NoGaps /\ Weighed /\ Kept`. `Control` says where in a period the framework
  is: periods are those between two filter moments in their order (`InPeriod`),
  and draws are left only while it chooses (`Choosing`). `Weighed` keeps the
  weights and reports as they were when they were summed, which is what the
  assertion on the number of copies is about; `Kept` says that a draw takes no
  copy back.
- `ResidualCorrect` from the same invariant: a sample that residual resampling
  ought to copy a number of times for certain has at most one copy less.
- `GraphCorrect`, `GraphIsAncestry`, from `GInv`, which adds that the clone a
  sample resumes from has an edge to that sample and came from the sample which
  the edge names (`Lineage`, `Stored`), that no edge is ahead of the period
  (`Ahead`) and that each sample of a moment has one parent (`OneParent`).
- `PopulationImplemented`: every step is a step of `Population` or a stutter,
  from `PInv`, which adds that no result of the previous period is left when a
  sample starts (`Cleared`), that where the copies went is what the samples then
  read (`Succeeding`), and that only a sample with a weight is copied
  (`Weighted`). The mapping is given stage by stage.

The last two have no hypothesis on the constants: a specification may have
models of all kinds, and the properties are about the runs of some. `GInv` holds
of runs that resume with `readState`: a `resume` that reads maps directly opens
the file of the sample's own directory, which cloning does not fill, and the run
`resume_readmap` shows that it then resumes from another history than the graph
says. `PInv` holds of runs that are `Intact`: samples that fail, and a `suspend`
that reports, which loses the sample, are the subject of `LossesCorrect`. That
the way a model resumes does not change in a run is `Filtering`.

Copies are counted by folds over the samples. The library's induction rules for
sets cannot be used, so the lemmas about them (`DeadMeaning`, that the copies
made are as many as the places of samples that die, ...) go through the set of
numbers up to which the statement holds, whose least missing element would be
the successor of one that is in it (`Climb`). The theorems rest on
`NrAssumption`, `FilterAssumption`, `WeightsAssumption` (weights are numerators
of a common denominator) and `NoneAssumption` (no history is the value that
stands for none).

### Flows between cells

`MlddProofs` proves, for rasters of any size: the types, `FlowsMirrorCorrect`,
`OrderCorrect`, `RoundTripCorrect`, `TermsCorrect` and `FluxCorrect`. `Inv ==
TypeOK /\ FlowsMirror /\ OrderIsCurrent /\ Rest`, where `Rest` says that nothing of a visit is left
between operations, which the next visit starts from. That the order is current
is not only a matter of `updateOrder`: a removal visits the old order while it
collects what goes, and changes the graph and the order together at its end.
`RoundTripOfMirrors` shows that `addLdds` of what `getStream` returns puts every
flow back, which needs that both ends of each flow agree.

`TermsCorrect` and `FluxCorrect` are about the visits of `diffuse`, `accuflux` and
`upstream`. `TInv` adds to `Inv` that the first visit made one term for each edge
that it passed, in the order of the visit, and that an iteration counted as many
terms as there are edges that it passed, or fewer where elevations are missing
(`Terms`). `FInv` adds what a cell has at each moment of a visit: nothing when
a value was missing or a weight was not a number, and else its own material and
what each inflow that was passed brought (`Flux`). Because the order is current,
a cell receives nothing more once its own outflows are visited, so that `Flux`
speaks of the present amounts of other cells and not of what they were.
Where all edges were passed, each cell whose material is there has what amounts
are carried to it (`FluxFound`), cell by cell along the order: the last of the
cells for which it might fail gets its material from cells that it holds for.
`FluxFound` is about all cells, but speaks of the paths on which nothing is
missing according to the code (`Carrying`). In a catchment where nothing is
missing these are all paths, since a path to it stays in it (`PathInside`), and
that is `FluxIsEveryPath`.

`NetworkCorrect` is that the mldd implements
`StreamNetwork`, under the mapping of `netBar`, `usableBar` and `markedBar`. It
has two parts. One is that `updateOrder` fails exactly where there is a cycle:
of all orders one that leaves out the fewest vertices leaves out none, or what
it leaves out has a cycle (`NoCycleMeansOrder`), and no cell of a cycle is in an
order (`CycleIsOutside`). The other is that the visit of a removal finds all
that runs dry in one pass, though it looks at a cell once. `RInv` adds to `Inv`
that what goes has a cause (`Cause`), that what was visited and must go does
(`Effect`), and that only what the order has goes (`Reached`). `Effect` is kept
because a cell is visited before all that it flows to, so that a cell of
which the edges were visited receives no more removals. That the numbers of
inflows are equal says that the inflows are is `InflowRemovedMeaning`. Where the
graph had a cycle the visit does not reach it, so it stays (`CycleStays`).

These theorems rest on `RasterAssumption`, `LddAssumption`,
`MissingAssumption`, `DiffusionAssumption` and `IterationAssumption` (there is a
cell; ldds have a direction for each cell; what is missing are cells; what has
no diffusion value are cells and edges; at least one iteration), and
`NoneAssumption` (a set of edges is not the value that stands for none).

### Only model-checked

Liveness under fairness (`AnalysisEnds`, `RunEnds`, `StepwiseEnds`), which is
out of the prover's reach. And what the theorems about the analysis and the
executor suppose of scripts: that `CfgCreator`, whose operators are recursive
over scripts, makes graphs that are `Structured`, and `Executable` for the names
of fields; and the conditions of `Consistent` that are about operators and the
cache, not about names. TLC evaluates the one for all scripts of the run
`usedef`, the other for all scripts of `executor`. All other invariants and
action properties of the passing runs have a theorem.

## Observations

What the models show of the code and no run is about. But for the first, there is
no line of documentation that it contradicts:

- `accuflux` and `upstream` only leave out the inflow from a cell whose amount is
  missing. `mldd_accuflux.h:37` calls this "the pcrcalc accuflux function", of
  which `op_accuflux.rst:45` says that the cells downstream of missing material
  "are assigned a missing value"; so `op_upstream.rst:41` of the downstream
  neighbour, and of a cell with missing material, which `upstream` gives a number.
  And the assertion `DEVELOP_PRECOND(!isMV(d_newState[t]))` of
  `mldd_accuflux.cc:106`, or `mldd_upstream.cc:106`, fails where something flows
  to a cell that is missing already: in `accuflux` one without material, in both
  one that took a flow whose weight was no number. Without the assertion such a
  cell stays missing, as in `Flow`. `FluxIsEveryPath` is restricted to catchments
  in which nothing is missing: there code, assertions and documentation agree.
- `deepcopy` of a field after a clone of another size reads past its cells.
- `setForkSamples(True, 1)` takes all processors: one is the default value.
- Residual resampling may round `nrSamples * weight` down where it is whole
  (`ResidualKeeps` allows for one copy less), and a draw that is exactly 0 or
  above the last cumulative weight, which is rounded, chooses nobody: the
  assertion on the number of copies then ends the run (`AllDrawn`).
- A filter moment at the last time step is accepted; its last period is empty
  and the framework asserts. Losses in the last period are not noticed.
- `report` in `suspend` makes no file name, so that the sample fails; the
  `postmcloop` makes names of the time steps of the last period.
- If `fork` fails the parent leaves its children behind.
- Weights of uphill edges of the multiple outflow ldd may be above one.
- `addStream` adds the flows before it finds that they have a cycle, and leaves
  them; `removeStream` and `setStream` bring the graph back to use
  (`StreamNetwork` has this as `usable`).

## Not modelled

See `components` in `PROJECT.json`. Files, formats, cell values and numerical
algorithms are pure I/O or computation without state between calls. Within the
modelled parts: point code blocks, disk storage of maps, tables and indirect
parameters of scripts, if-then-else; files that cannot be read during an
operation (`calc_execarguments.cc:93`, the one hazard without a property: what
was popped before is lost, and `RunTimeEnv` has no files); links, time steps,
time series and map stacks as arguments of Python operations, operations with
several results, numpy and pickles; the Kalman filter, initial weights (which
resampling never uses), names with an extension, aggregation and statistics
functions of the frameworks; the numbers of the multiple outflow ldd (weights,
levels, amounts) and the link that converts the arguments of a script.

## Plan

Modelled and checked: analysis, executor with runtime environment, C API, engine
behind Python, Monte Carlo and particle filter frameworks, multiple outflow ldd.
Next, in this order:

1. If-then-else and operators with three operands; point code blocks and
   `newLiveDefSet`; an operation of a script whose file cannot be read.
2. `MemoryExchange`: buffers and arrays of `IOStrategy` under
   `ClientInterface`, which then is their abstraction; `StackInput` resolution
   of missing time steps.
3. The Kalman filter, which shares periods and files with `ParticleFilter`.
4. Conversion of script arguments in the link to `mldd`.
