---------------------------- MODULE ClientInterface ----------------------------
(***************************************************************************)
(* The C API of the model engine (pcrcalc.h): one PcrScript object and a   *)
(* client that makes the calls in any order.                               *)
(*                                                                         *)
(* A PcrScript is a Pcrcalc: an error stream and a ClientInterface, which  *)
(* holds the analyzed script and the executor of a stepwise run.  Any step *)
(* that parses, resolves or executes may throw; Pcrcalc catches it, keeps  *)
(* the message and deletes the ClientInterface.                            *)
(*                                                                         *)
(* Output goes to the client through an array of addresses.  Where the     *)
(* client passes 0 the engine allocates a buffer, which it owns.           *)
(***************************************************************************)
EXTENDS Naturals, FiniteSets

CONSTANTS
  Outputs,          \* memory exchange outputs that a script may have
  Buffers,          \* addresses of buffers that the engine allocates
  Null,             \* the address 0
  Caller,           \* the address of a buffer of the client
  LastInts          \* last time steps of scripts, 0 for a static script

ASSUME AddressAssumption ==
  Null \notin Buffers /\ Caller \notin Buffers /\ Null # Caller
ASSUME TimerAssumption == LastInts \subseteq Nat

VARIABLES
  lastInt,          \* the last time step of the script, 0 if it is static
  outputs,          \* the memory exchange outputs of the script
  object,           \* "none", "created", "destroyed" or "crashed"
  error,            \* the error stream is not empty
  ci,               \* d_ci # 0
  script,           \* d_script # 0
  executor,         \* d_executor
  owned,            \* d_memoryData: the buffers of the engine by output
  array,            \* the client's array after its last stepwise call
  last,             \* the last call and what it returned
  initials,         \* initial steps that succeeded, 2 stands for more
  steps             \* dynamic sections run by this executor

text == <<lastInt, outputs>>
vars == <<text, object, error, ci, script, executor, owned, array, last,
          initials, steps>>

NoExecutor == [running |-> FALSE, time |-> 0, done |-> FALSE]
NoBuffers  == [o \in Outputs |-> Null]
Error      == "error"

Owned == {owned[o] : o \in Outputs} \ {Null}

-------------------------------------------------------------------------------
Init ==
  /\ lastInt \in LastInts /\ outputs \in SUBSET Outputs
  /\ object = "none" /\ error = FALSE /\ ci = FALSE /\ script = FALSE
  /\ executor = NoExecutor /\ owned = NoBuffers /\ array = NoBuffers
  /\ last = [call |-> "none", ret |-> "none"]
  /\ initials = 0 /\ steps = 0

Returns(call, ret) == last' = [call |-> call, ret |-> ret]

\* Mutant: the executor outlives the script.
CleanScriptOnly ==
  /\ script' = FALSE /\ owned' = NoBuffers /\ steps' = 0
  /\ UNCHANGED executor

\* ClientInterface::clean.
Clean ==
  /\ script' = FALSE /\ executor' = NoExecutor /\ owned' = NoBuffers
  /\ steps' = 0

\* Mutant: the error is kept but the ClientInterface too.
FailsSoftly(call) ==
  /\ error' = TRUE
  /\ Returns(call, Error)
  /\ UNCHANGED <<text, object, ci, script, executor, owned, steps>>

\* CATCH_ALL_EXCEPTIONS and Pcrcalc::cleanOnError.
Fails(call) ==
  /\ error' = TRUE /\ ci' = FALSE
  /\ Clean
  /\ Returns(call, Error)
  /\ UNCHANGED <<text, object>>

\* The constructor; a null pointer as argument is an error.
CreateScript ==
  /\ object = "none"
  /\ object' = "created"
  /\ \E nullArgument \in BOOLEAN :
       /\ error' = nullArgument /\ ci' = ~nullArgument
       /\ Returns("create", IF nullArgument THEN Error ELSE "ok")
  /\ UNCHANGED <<text, script, executor, owned, array, initials, steps>>

\* A call on an object that failed before returns at once.
DoNothing ==
  /\ object = "created" /\ ~ci
  /\ \E call \in {"reflection", "execute", "initial", "next", "finish"} :
       Returns(call, Error)
  /\ UNCHANGED <<text, object, error, ci, script, executor, owned, array,
                 initials, steps>>

Calling == object = "created" /\ ci

\* Mutant: the reflection loads the script again and drops the run.
XMLReflectionReloads ==
  /\ Calling
  /\ script' = TRUE /\ owned' = NoBuffers
  /\ Returns("reflection", "ok")
  /\ UNCHANGED <<error, ci, executor, steps, text, object, array, initials>>

\* pcr_ScriptXMLReflection: load(), or writing the document, may throw.
XMLReflection ==
  /\ Calling
  /\ \/ /\ script' = TRUE
        /\ Returns("reflection", "ok")
        /\ UNCHANGED <<error, ci, executor, owned, steps, text, object>>
     \/ Fails("reflection")
  /\ UNCHANGED <<array, initials>>

\* pcr_ScriptExecute: an executor of its own, for scripts without exchange.
Execute ==
  /\ Calling
  /\ \/ /\ outputs = {}
        /\ script' = TRUE
        /\ Returns("execute", "ok")
        /\ UNCHANGED <<error, ci, executor, owned, steps, text, object>>
     \/ Fails("execute")
  /\ UNCHANGED <<array, initials>>

-------------------------------------------------------------------------------
(* The stepwise calls *)

\* Mutant: a buffer of the previous call is handed out that is deleted.
ExchangedStale(given, written) ==
  /\ owned' = NoBuffers
  /\ \E o \in written, b \in Buffers : array' = [given EXCEPT ![o] = b]

(***************************************************************************)
(* setMemoryExchangeData drops the buffers of the previous call; then the  *)
(* section that is run writes some of the outputs: into the buffer that    *)
(* the client gave, or into a new one of the engine.  A buffer's address   *)
(* is not one that the client still holds.                                 *)
(***************************************************************************)
Exchanged(given, written) ==
  LET allocated == {o \in written : given[o] = Null}
      unused    == Buffers \ {array[o] : o \in Outputs}
  IN \E new \in [allocated -> unused] :
       /\ \A o, p \in allocated : new[o] = new[p] => o = p
       /\ owned' = [o \in Outputs |-> IF o \in allocated THEN new[o] ELSE Null]
       /\ array' = [o \in Outputs |-> IF o \in allocated THEN new[o] ELSE given[o]]

Given == [Outputs -> {Null, Caller}]

\* A call that fails may have put in addresses of buffers that are now gone.
Addresses == [Outputs -> Buffers \cup {Null, Caller}]

\* Up to the entrance of the dynamic section, or all of a static script.
ExecInitialSection ==
  IF lastInt = 0 THEN [running |-> TRUE, time |-> 0, done |-> TRUE]
  ELSE [running |-> TRUE, time |-> 1, done |-> FALSE]

InitialStep ==
  /\ Calling
  /\ \/ /\ ~executor.running
        /\ script' = TRUE
        /\ executor' = ExecInitialSection
        /\ \E given \in Given, written \in SUBSET outputs : Exchanged(given, written)
        /\ initials' = IF initials = 0 THEN 1 ELSE 2
        /\ steps' = 0
        /\ Returns("initial", IF executor'.done THEN "finished" ELSE "more")
        /\ UNCHANGED <<error, ci, text, object>>
     \/ Fails("initial") /\ array' \in Addresses /\ UNCHANGED initials

\* Mutant: one time step more than the timer has.
ExecOneSectionMore ==
  IF executor.done THEN executor
  ELSE IF executor.time <= lastInt THEN [executor EXCEPT !.time = @ + 1]
  ELSE [executor EXCEPT !.done = TRUE]

\* The rest of the section, and the entrance of the next time step if any.
ExecDynamicSectionOnce ==
  IF executor.done THEN executor
  ELSE IF executor.time < lastInt THEN [executor EXCEPT !.time = @ + 1]
  ELSE [executor EXCEPT !.done = TRUE]

\* Mutant: the data is exchanged and no section is run.
NextTimeStepRunsNothing ==
  /\ Calling /\ executor.running
  /\ \E given \in Given, written \in SUBSET outputs : Exchanged(given, written)
  /\ Returns("next", "more")
  /\ UNCHANGED <<error, ci, script, text, object, executor, steps, initials>>

NextTimeStep ==
  /\ Calling
  /\ \/ /\ executor.running
        /\ executor' = ExecDynamicSectionOnce
        /\ \E given \in Given, written \in SUBSET outputs :
             /\ executor.done => written = {}
             /\ Exchanged(given, written)
        /\ steps' = IF executor.done THEN steps ELSE steps + 1
        /\ Returns("next", IF executor'.done THEN "finished" ELSE "more")
        /\ UNCHANGED <<error, ci, script, text, object>>
     \/ Fails("next") /\ array' \in Addresses
  /\ UNCHANGED initials

\* finishStepWise closes the writers, which may fail, and clean() deletes
\* the script too.
Finish ==
  /\ Calling /\ executor.running
  /\ \/ /\ Clean
        /\ Returns("finish", "ok")
        /\ UNCHANGED <<error, ci, text, object>>
     \/ Fails("finish")
  /\ UNCHANGED <<array, initials>>

\* d_executor->finishStepWise() through a null pointer.
FinishWithoutExecutor ==
  /\ Calling /\ ~executor.running
  /\ object' = "crashed"
  /\ Returns("finish", "none")
  /\ UNCHANGED <<text, error, ci, script, executor, owned, array, initials, steps>>

Destroy ==
  /\ object = "created"
  /\ object' = "destroyed" /\ ci' = FALSE
  /\ Clean
  /\ Returns("destroy", "ok")
  /\ UNCHANGED <<text, error, array, initials>>

Next ==
  \/ CreateScript \/ DoNothing \/ XMLReflection \/ Execute
  \/ InitialStep \/ NextTimeStep \/ Finish \/ FinishWithoutExecutor \/ Destroy

Spec == Init /\ [][Next]_vars

\* A client that, once started, goes on calling for the next time step.
FairSpec == Spec /\ WF_vars(NextTimeStep)

-------------------------------------------------------------------------------
(* Properties *)

TypeOK ==
  /\ lastInt \in LastInts /\ outputs \in SUBSET Outputs
  /\ object \in {"none", "created", "destroyed", "crashed"}
  /\ error \in BOOLEAN /\ ci \in BOOLEAN /\ script \in BOOLEAN
  /\ executor \in [running : BOOLEAN, time : Nat, done : BOOLEAN]
  /\ owned \in [Outputs -> Buffers \cup {Null}]
  /\ array \in Addresses
  /\ initials \in 0 .. 2 /\ steps \in Nat

(***************************************************************************)
(* Nothing outlives what it points into: an executor walks the CFG of the  *)
(* script, the script belongs to the ClientInterface, and that to an       *)
(* object that has not failed.                                             *)
(***************************************************************************)
NothingDangles ==
  /\ executor.running => script
  /\ script => ci
  /\ ci => object \in {"created", "crashed"} /\ ~error
  /\ ~executor.running => owned = NoBuffers /\ steps = 0

(***************************************************************************)
(* The return codes that pcrcalc.h documents: 1 ("more") when time steps    *)
(* follow, 0 ("finished") when the model is finished, whatever calls came before; and   *)
(* each time step is run once and no time step is left out.                *)
(***************************************************************************)
EveryStepOnce ==
  /\ executor.running /\ ~executor.done => steps + 1 = executor.time /\ executor.time <= lastInt
  /\ executor.running /\ executor.done => steps = lastInt
  /\ last.call \in {"initial", "next"} /\ last.ret = "more" => executor.running /\ ~executor.done
  /\ last.call \in {"initial", "next"} /\ last.ret = "finished" => executor.done

(***************************************************************************)
(* An address of the engine in the client's array is that of a buffer the  *)
(* engine still owns, and at most of one, if the last call was stepwise    *)
(* and succeeded: the client may read its outputs.                         *)
(***************************************************************************)
OutputReadable ==
  last.call \in {"initial", "next"} /\ last.ret # Error =>
    \A o \in Outputs :
      /\ array[o] \in Buffers => array[o] = owned[o]
      /\ \A p \in Outputs : owned[o] = owned[p] /\ owned[o] # Null => o = p

(***************************************************************************)
(* "Buffers allocated by the stepwise functions will be deleted by a next  *)
(* stepwise function or pcr_destroyScript() call": not by other calls that *)
(* succeed, pcr_ScriptExecuteFinish excepted.                              *)
(***************************************************************************)
BuffersKept ==
  [][owned' # owned =>
       last'.call \in {"initial", "next", "finish", "destroy"} \/ last'.ret = Error]_vars

(***************************************************************************)
(* "Errors on a PcrScript object are NOT recoverable; all successive calls *)
(* on the same PcrScript will do nothing."                                 *)
(***************************************************************************)
ErrorsStay ==
  [][error => error' /\ ~ci' /\ last'.ret \in {Error, "ok"}
              /\ UNCHANGED <<array, initials, executor, script>>]_vars

\* A stepwise run ends, or is abandoned, when its client keeps asking for the
\* next time step, whatever it calls in between.
StepwiseEnds == executor.running ~> executor.done \/ ~executor.running
================================================================================
