-------------------------- MODULE ClientInterfaceProofs ------------------------
(***************************************************************************)
(* For every script, every number of outputs and every order of calls:     *)
(* nothing of the client interface dangles, every time step is run once,   *)
(* the outputs of the last call can be read and errors stay.               *)
(***************************************************************************)
EXTENDS ClientInterface, TLAPS

-------------------------------------------------------------------------------
(* Type correctness *)

\* No executor, no buffers: these are values of the right types.
LEMMA NothingType ==
  /\ NoExecutor \in [running : BOOLEAN, time : Nat, done : BOOLEAN]
  /\ NoBuffers \in [Outputs -> Buffers \cup {Null}]
  /\ NoBuffers \in Addresses
<1>1. NoExecutor \in [running : BOOLEAN, time : Nat, done : BOOLEAN]
  BY DEF NoExecutor
<1>2. NoBuffers \in [Outputs -> Buffers \cup {Null}] /\ NoBuffers \in Addresses
  BY DEF NoBuffers, Addresses
<1>3. QED
  BY <1>1, <1>2

\* The initial states have the types of the state variables.
LEMMA InitTypeOK == Init => TypeOK
<1> SUFFICES ASSUME Init PROVE TypeOK
  OBVIOUS
<1>1. lastInt \in LastInts /\ outputs \in SUBSET Outputs
  BY DEF Init
<1>2. object \in {"none", "created", "destroyed", "crashed"}
  BY DEF Init
<1>3. error \in BOOLEAN /\ ci \in BOOLEAN /\ script \in BOOLEAN
  BY DEF Init
<1>4. executor \in [running : BOOLEAN, time : Nat, done : BOOLEAN]
  BY NothingType DEF Init
<1>5. owned \in [Outputs -> Buffers \cup {Null}] /\ array \in Addresses
  BY NothingType DEF Init
<1>6. initials \in 0 .. 2 /\ steps \in Nat
  BY DEF Init
<1>7. QED
  BY <1>1, <1>2, <1>3, <1>4, <1>5, <1>6 DEF TypeOK

\* The sections of a script that an initial step runs through.
LEMMA InitialSectionType ==
  ExecInitialSection \in [running : BOOLEAN, time : Nat, done : BOOLEAN]
<1>1. CASE lastInt = 0
  BY <1>1 DEF ExecInitialSection
<1>2. CASE lastInt # 0
  BY <1>2 DEF ExecInitialSection
<1>3. QED
  BY <1>1, <1>2

\* The executor after one more dynamic section.
LEMMA DynamicSectionType ==
  ASSUME executor \in [running : BOOLEAN, time : Nat, done : BOOLEAN]
  PROVE  ExecDynamicSectionOnce \in [running : BOOLEAN, time : Nat, done : BOOLEAN]
<1>1. CASE executor.done
  BY <1>1 DEF ExecDynamicSectionOnce
<1>2. CASE ~executor.done /\ executor.time < lastInt
  <2>1. executor.time + 1 \in Nat
    OBVIOUS
  <2>2. [executor EXCEPT !.time = @ + 1] \in
          [running : BOOLEAN, time : Nat, done : BOOLEAN]
    BY <2>1
  <2>3. QED
    BY <1>2, <2>2 DEF ExecDynamicSectionOnce
<1>3. CASE ~executor.done /\ ~(executor.time < lastInt)
  BY <1>3 DEF ExecDynamicSectionOnce
<1>4. QED
  BY <1>1, <1>2, <1>3

\* A stepwise call leaves buffers and an array of the right types.
LEMMA ExchangedType ==
  ASSUME NEW given \in Given, NEW written \in SUBSET outputs,
         outputs \in SUBSET Outputs,
         Exchanged(given, written)
  PROVE  /\ owned' \in [Outputs -> Buffers \cup {Null}]
         /\ array' \in Addresses
<1> DEFINE allocated == {o \in written : given[o] = Null}
           unused    == Buffers \ {array[o] : o \in Outputs}
<1>1. PICK new \in [allocated -> unused] :
        /\ owned' = [o \in Outputs |-> IF o \in allocated THEN new[o] ELSE Null]
        /\ array' = [o \in Outputs |-> IF o \in allocated THEN new[o] ELSE given[o]]
  BY DEF Exchanged
<1>2. \A o \in allocated : new[o] \in Buffers
  OBVIOUS
<1>3. QED
  BY <1>1, <1>2 DEF Given, Addresses

\* A call that throws leaves a typed state.
LEMMA FailsType ==
  ASSUME TypeOK, NEW call, Fails(call)
  PROVE  /\ error' \in BOOLEAN /\ ci' \in BOOLEAN /\ script' \in BOOLEAN
         /\ executor' \in [running : BOOLEAN, time : Nat, done : BOOLEAN]
         /\ owned' \in [Outputs -> Buffers \cup {Null}] /\ steps' \in Nat
         /\ UNCHANGED <<lastInt, outputs, object>>
BY NothingType DEF TypeOK, Fails, Clean, text

\* Every step keeps the types.
LEMMA NextTypeOK == TypeOK /\ [Next]_vars => TypeOK'
<1> SUFFICES ASSUME TypeOK, [Next]_vars PROVE TypeOK'
  OBVIOUS
<1> USE DEF TypeOK
<1>1. CASE CreateScript
  BY <1>1 DEF CreateScript, text
<1>2. CASE DoNothing
  BY <1>2 DEF DoNothing, text
<1>3. CASE XMLReflection
  BY <1>3, FailsType DEF XMLReflection, text
<1>4. CASE Execute
  BY <1>4, FailsType DEF Execute, text
<1>5. CASE InitialStep
  <2>1. CASE Fails("initial") /\ array' \in Addresses /\ UNCHANGED initials
    BY <2>1, FailsType
  <2>2. CASE ~ (Fails("initial") /\ array' \in Addresses /\ UNCHANGED initials)
    <3>1. executor' \in [running : BOOLEAN, time : Nat, done : BOOLEAN]
      BY <1>5, <2>2, InitialSectionType DEF InitialStep
    <3>2. owned' \in [Outputs -> Buffers \cup {Null}] /\ array' \in Addresses
      BY <1>5, <2>2, ExchangedType DEF InitialStep
    <3>3. initials' \in 0 .. 2 /\ steps' \in Nat
      BY <1>5, <2>2 DEF InitialStep
    <3>4. QED
      BY <1>5, <2>2, <3>1, <3>2, <3>3 DEF InitialStep, text
  <2>3. QED
    BY <2>1, <2>2
<1>6. CASE NextTimeStep
  <2>1. CASE Fails("next") /\ array' \in Addresses
    BY <1>6, <2>1, FailsType DEF NextTimeStep
  <2>2. CASE ~ (Fails("next") /\ array' \in Addresses)
    <3>1. executor' \in [running : BOOLEAN, time : Nat, done : BOOLEAN]
      BY <1>6, <2>2, DynamicSectionType DEF NextTimeStep
    <3>2. owned' \in [Outputs -> Buffers \cup {Null}] /\ array' \in Addresses
      BY <1>6, <2>2, ExchangedType DEF NextTimeStep
    <3>3. steps' \in Nat
      BY <1>6, <2>2 DEF NextTimeStep
    <3>4. QED
      BY <1>6, <2>2, <3>1, <3>2, <3>3 DEF NextTimeStep, text
  <2>3. QED
    BY <2>1, <2>2
<1>7. CASE Finish
  <2>1. CASE Fails("finish")
    BY <1>7, <2>1, FailsType DEF Finish
  <2>2. CASE ~Fails("finish")
    <3>1. Clean /\ UNCHANGED <<error, ci, text, object>>
      BY <1>7, <2>2 DEF Finish
    <3>2. UNCHANGED <<array, initials>>
      BY <1>7 DEF Finish
    <3>3. QED
      BY <3>1, <3>2, NothingType DEF Clean, text
  <2>3. QED
    BY <2>1, <2>2
<1>8. CASE FinishWithoutExecutor
  BY <1>8 DEF FinishWithoutExecutor, text
<1>9. CASE Destroy
  BY <1>9, NothingType DEF Destroy, Clean, text
<1>10. CASE UNCHANGED vars
  BY <1>10 DEF vars, text
<1>11. QED
  BY <1>1, <1>2, <1>3, <1>4, <1>5, <1>6, <1>7, <1>8, <1>9, <1>10 DEF Next

\* The state of a PcrScript and of its client is always well typed.
THEOREM TypeCorrect == Spec => []TypeOK
BY InitTypeOK, NextTypeOK, PTL DEF Spec

-------------------------------------------------------------------------------
(* Lifetimes, and the time steps of a run *)

(***************************************************************************)
(* The inductive invariant: also, an executor that is gone leaves nothing  *)
(* behind, and an object that does not exist yet has no error.             *)
(***************************************************************************)
Gone == /\ ~executor.running => executor = NoExecutor
        /\ object = "none" => ~error

IInv == TypeOK /\ NothingDangles /\ Gone /\ EveryStepOnce

\* The executor's part of the invariant is preserved when nothing is run.
LEMMA FailsInv ==
  ASSUME NEW call, Fails(call), object = "created"
  PROVE  NothingDangles' /\ Gone' /\ EveryStepOnce'
<1>1. executor' = NoExecutor /\ owned' = NoBuffers' /\ steps' = 0 /\ script' = FALSE
  BY DEF Fails, Clean, NoBuffers
<1>2. ~executor'.running /\ NoExecutor' = NoExecutor
  BY <1>1 DEF NoExecutor
<1>3. last'.ret = "error" /\ ci' = FALSE /\ object' = "created"
  BY DEF Fails, Returns, Error
<1>4. QED
  BY <1>1, <1>2, <1>3 DEF NothingDangles, Gone, EveryStepOnce

\* A successful initial step: the first dynamic section is still to be run.
LEMMA InitialInv ==
  ASSUME IInv, InitialStep, ~Fails("initial")
  PROVE  NothingDangles' /\ Gone' /\ EveryStepOnce'
<1>1. /\ Calling /\ script' = TRUE /\ steps' = 0
      /\ executor' = ExecInitialSection
      /\ last' = [call |-> "initial", ret |-> IF executor'.done THEN "finished" ELSE "more"]
      /\ UNCHANGED <<error, ci, lastInt, outputs, object>>
  BY DEF InitialStep, Returns, text
<1>2. lastInt \in Nat
  BY TimerAssumption DEF IInv, TypeOK
<1>3. executor'.running
  BY <1>1 DEF ExecInitialSection
<1>4. NothingDangles' /\ Gone'
  BY <1>1, <1>3 DEF IInv, NothingDangles, Gone, Calling
<1>5. CASE lastInt = 0
  <2>1. executor'.done /\ last'.ret = "finished"
    BY <1>1, <1>5 DEF ExecInitialSection
  <2>2. QED
    BY <1>1, <1>4, <1>5, <2>1 DEF EveryStepOnce
<1>6. CASE lastInt # 0
  <2>1. ~executor'.done /\ executor'.time = 1 /\ last'.ret = "more"
    BY <1>1, <1>6 DEF ExecInitialSection
  <2>2. QED
    BY <1>1, <1>2, <1>3, <1>4, <1>6, <2>1 DEF EveryStepOnce
<1>7. QED
  BY <1>5, <1>6

\* A successful next step runs the section of exactly one time step.
LEMMA NextTimeStepInv ==
  ASSUME IInv, NextTimeStep, ~Fails("next")
  PROVE  NothingDangles' /\ Gone' /\ EveryStepOnce'
<1>1. /\ Calling /\ executor.running
      /\ executor' = ExecDynamicSectionOnce
      /\ steps' = IF executor.done THEN steps ELSE steps + 1
      /\ last' = [call |-> "next", ret |-> IF executor'.done THEN "finished" ELSE "more"]
      /\ UNCHANGED <<error, ci, script, lastInt, outputs, object>>
  BY DEF NextTimeStep, Returns, text
<1>2. /\ lastInt \in Nat /\ steps \in Nat
      /\ executor \in [running : BOOLEAN, time : Nat, done : BOOLEAN]
  BY TimerAssumption DEF IInv, TypeOK
<1>3. executor'.running
  BY <1>1, <1>2 DEF ExecDynamicSectionOnce
<1>4. NothingDangles' /\ Gone'
  BY <1>1, <1>3 DEF IInv, NothingDangles, Gone, Calling
<1>5. CASE executor.done
  <2>1. executor' = executor /\ steps' = steps /\ last'.ret = "finished"
    BY <1>1, <1>5 DEF ExecDynamicSectionOnce
  <2>2. QED
    BY <1>1, <1>4, <1>5, <2>1 DEF IInv, EveryStepOnce
<1>6. CASE ~executor.done /\ executor.time < lastInt
  <2>1. /\ ~executor'.done /\ executor'.time = executor.time + 1
        /\ steps' = steps + 1 /\ last'.ret = "more"
    BY <1>1, <1>2, <1>6 DEF ExecDynamicSectionOnce
  <2>2. steps + 1 = executor.time
    BY <1>1, <1>6 DEF IInv, EveryStepOnce
  <2>3. steps' + 1 = executor'.time /\ executor'.time <= lastInt'
    BY <1>1, <1>2, <1>6, <2>1, <2>2
  <2>4. QED
    BY <1>1, <1>3, <1>4, <2>1, <2>3 DEF EveryStepOnce
<1>7. CASE ~executor.done /\ ~(executor.time < lastInt)
  <2>1. executor'.done /\ steps' = steps + 1 /\ last'.ret = "finished"
    BY <1>1, <1>2, <1>7 DEF ExecDynamicSectionOnce
  <2>2. steps + 1 = executor.time /\ executor.time <= lastInt
    BY <1>1, <1>7 DEF IInv, EveryStepOnce
  <2>3. steps' = lastInt'
    BY <1>1, <1>2, <1>7, <2>1, <2>2
  <2>4. QED
    BY <1>1, <1>3, <1>4, <2>1, <2>3 DEF EveryStepOnce
<1>8. QED
  BY <1>5, <1>6, <1>7

\* Deleting script and executor: by Finish and by Destroy.
LEMMA CleanInv ==
  ASSUME Clean, last'.call \notin {"initial", "next"}, object' # "none",
         ci' => object' \in {"created", "crashed"} /\ ~error'
  PROVE  NothingDangles' /\ Gone' /\ EveryStepOnce'
<1>1. executor' = NoExecutor /\ owned' = NoBuffers' /\ steps' = 0 /\ script' = FALSE
  BY DEF Clean, NoBuffers
<1>2. ~executor'.running /\ NoExecutor' = NoExecutor
  BY <1>1 DEF NoExecutor
<1>3. QED
  BY <1>1, <1>2 DEF NothingDangles, Gone, EveryStepOnce

\* A call that leaves the executor and its buffers alone.
LEMMA IdleInv ==
  ASSUME IInv, UNCHANGED <<lastInt, outputs, executor, owned, steps>>,
         last'.call \notin {"initial", "next"},
         executor.running => script', script' => ci', object' # "none",
         ci' => object' \in {"created", "crashed"} /\ ~error'
  PROVE  NothingDangles' /\ Gone' /\ EveryStepOnce'
<1>1. NoExecutor' = NoExecutor /\ NoBuffers' = NoBuffers
  BY DEF NoExecutor, NoBuffers
<1>2. NothingDangles' /\ Gone'
  BY <1>1 DEF IInv, NothingDangles, Gone
<1>3. EveryStepOnce'
  BY DEF IInv, EveryStepOnce
<1>4. QED
  BY <1>2, <1>3

\* The invariant holds initially.
LEMMA InitIInv == Init => IInv
<1> SUFFICES ASSUME Init PROVE IInv
  OBVIOUS
<1>1. TypeOK
  BY InitTypeOK
<1>2. NothingDangles /\ Gone
  BY DEF Init, NothingDangles, Gone, NoExecutor
<1>3. EveryStepOnce
  BY DEF Init, EveryStepOnce, NoExecutor
<1>4. QED
  BY <1>1, <1>2, <1>3 DEF IInv

\* Every call preserves the invariant.
LEMMA NextIInv == IInv /\ [Next]_vars => IInv'
<1> SUFFICES ASSUME IInv, [Next]_vars PROVE NothingDangles' /\ Gone' /\ EveryStepOnce'
  BY NextTypeOK DEF IInv
<1> USE DEF IInv
<1>1. CASE CreateScript
  <2>1. PICK nullArgument \in BOOLEAN :
          /\ error' = nullArgument /\ ci' = ~nullArgument
          /\ Returns("create", IF nullArgument THEN Error ELSE "ok")
    BY <1>1 DEF CreateScript
  <2>2. ci' => ~error'
    BY <2>1
  <2>3. last'.call = "create"
    BY <2>1 DEF Returns
  <2>4. ~script /\ ~executor.running
    BY <1>1 DEF CreateScript, NothingDangles
  <2>5. /\ object' = "created"
        /\ UNCHANGED <<lastInt, outputs, executor, owned, steps, script>>
    BY <1>1 DEF CreateScript, text
  <2>6. QED
    BY <2>2, <2>3, <2>4, <2>5, IdleInv
<1>2. CASE DoNothing
  BY <1>2 DEF DoNothing, Returns, text, NothingDangles, Gone, EveryStepOnce, NoBuffers, NoExecutor, Error
<1>3. CASE XMLReflection
  <2>1. CASE Fails("reflection")
    BY <1>3, <2>1, FailsInv DEF XMLReflection, Calling
  <2>2. CASE ~Fails("reflection")
    <3>1. /\ script' = TRUE /\ last' = [call |-> "reflection", ret |-> "ok"] /\ Calling
          /\ UNCHANGED <<error, ci, executor, owned, steps, text, object>>
      BY <1>3, <2>2 DEF XMLReflection, Returns
    <3>2. QED
      BY <3>1, IdleInv DEF NothingDangles, Calling, text
  <2>3. QED
    BY <2>1, <2>2
<1>4. CASE Execute
  <2>1. CASE Fails("execute")
    BY <1>4, <2>1, FailsInv DEF Execute, Calling
  <2>2. CASE ~Fails("execute")
    <3>1. /\ script' = TRUE /\ last' = [call |-> "execute", ret |-> "ok"] /\ Calling
          /\ UNCHANGED <<error, ci, executor, owned, steps, text, object>>
      BY <1>4, <2>2 DEF Execute, Returns
    <3>2. QED
      BY <3>1, IdleInv DEF NothingDangles, Calling, text
  <2>3. QED
    BY <2>1, <2>2
<1>5. CASE InitialStep
  <2>1. CASE Fails("initial")
    BY <1>5, <2>1, FailsInv DEF InitialStep, Calling
  <2>2. CASE ~Fails("initial")
    BY <1>5, <2>2, InitialInv
  <2>3. QED
    BY <2>1, <2>2
<1>6. CASE NextTimeStep
  <2>1. CASE Fails("next")
    BY <1>6, <2>1, FailsInv DEF NextTimeStep, Calling
  <2>2. CASE ~Fails("next")
    BY <1>6, <2>2, NextTimeStepInv
  <2>3. QED
    BY <2>1, <2>2
<1>7. CASE Finish
  <2>1. CASE Fails("finish")
    BY <1>7, <2>1, FailsInv DEF Finish, Calling
  <2>2. CASE ~Fails("finish")
    <3>1. /\ Clean /\ last' = [call |-> "finish", ret |-> "ok"]
          /\ UNCHANGED <<error, ci, object>> /\ Calling
      BY <1>7, <2>2 DEF Finish, Returns
    <3>2. QED
      BY <3>1, CleanInv DEF Calling, NothingDangles
  <2>3. QED
    BY <2>1, <2>2
<1>8. CASE FinishWithoutExecutor
  BY <1>8 DEF FinishWithoutExecutor, Calling, Returns, text, NothingDangles, Gone, EveryStepOnce, NoBuffers, NoExecutor
<1>9. CASE Destroy
  <2>1. Clean /\ last' = [call |-> "destroy", ret |-> "ok"] /\ ci' = FALSE /\ object' = "destroyed"
    BY <1>9 DEF Destroy, Returns
  <2>2. QED
    BY <2>1, CleanInv
<1>10. CASE UNCHANGED vars
  BY <1>10 DEF vars, text, NothingDangles, Gone, EveryStepOnce, NoBuffers, NoExecutor
<1>11. QED
  BY <1>1, <1>2, <1>3, <1>4, <1>5, <1>6, <1>7, <1>8, <1>9, <1>10 DEF Next

\* The invariant holds in every reachable state.
LEMMA Invariance == Spec => []IInv
BY InitIInv, NextIInv, PTL DEF Spec

(***************************************************************************)
(* No executor walks the CFG of a deleted script, and no script or         *)
(* executor outlives its owner, whatever the client calls.                 *)
(***************************************************************************)
THEOREM NoDangling == Spec => []NothingDangles
<1>1. IInv => NothingDangles
  BY DEF IInv
<1>2. QED
  BY <1>1, Invariance, PTL

(***************************************************************************)
(* pcr_ScriptExecuteNextTimeStepMemory runs every time step once, for      *)
(* every last time step, and says rightly whether more are to come.        *)
(***************************************************************************)
THEOREM StepsOnce == Spec => []EveryStepOnce
<1>1. IInv => EveryStepOnce
  BY DEF IInv
<1>2. QED
  BY <1>1, Invariance, PTL

-------------------------------------------------------------------------------
(* Outputs and errors *)

\* A stepwise call hands out buffers that the engine owns, each of them once.
LEMMA ExchangedReadable ==
  ASSUME outputs \in SUBSET Outputs,
         NEW given \in Given, NEW written \in SUBSET outputs,
         Exchanged(given, written)
  PROVE  OutputReadable'
<1> DEFINE allocated == {o \in written : given[o] = Null}
           unused    == Buffers \ {array[o] : o \in Outputs}
<1>1. PICK new \in [allocated -> unused] :
        /\ \A o, p \in allocated : new[o] = new[p] => o = p
        /\ owned' = [o \in Outputs |-> IF o \in allocated THEN new[o] ELSE Null]
        /\ array' = [o \in Outputs |-> IF o \in allocated THEN new[o] ELSE given[o]]
  BY DEF Exchanged
<1>2. ASSUME NEW o \in Outputs, array'[o] \in Buffers
      PROVE  array'[o] = owned'[o]
  <2>1. o \in allocated
    BY <1>1, <1>2, AddressAssumption DEF Given
  <2>2. QED
    BY <1>1, <2>1
<1>3. ASSUME NEW o \in Outputs, NEW p \in Outputs,
             owned'[o] = owned'[p], owned'[o] # Null
      PROVE  o = p
  <2>1. o \in allocated /\ p \in allocated
    BY <1>1, <1>3
  <2>2. QED
    BY <1>1, <1>3, <2>1
<1>4. QED
  BY <1>2, <1>3 DEF OutputReadable

\* Of the calls only the two stepwise ones promise readable outputs.
LEMMA NextOutputReadable ==
  TypeOK /\ OutputReadable /\ [Next]_vars => OutputReadable'
<1> SUFFICES ASSUME TypeOK, OutputReadable, [Next]_vars,
                    last'.call \in {"initial", "next"}, last'.ret # Error
             PROVE  OutputReadable'
  BY DEF OutputReadable, Error
<1>0. outputs \in SUBSET Outputs
  BY DEF TypeOK
<1>1. CASE InitialStep
  BY <1>0, <1>1, ExchangedReadable DEF InitialStep, Fails, Returns
<1>2. CASE NextTimeStep
  BY <1>0, <1>2, ExchangedReadable DEF NextTimeStep, Fails, Returns
<1>3. CASE UNCHANGED vars
  BY <1>3 DEF vars, OutputReadable
<1>4. CASE CreateScript
  BY <1>4 DEF CreateScript, Returns
<1>5. CASE DoNothing
  BY <1>5 DEF DoNothing, Returns
<1>6. CASE XMLReflection
  BY <1>6 DEF XMLReflection, Fails, Returns
<1>7. CASE Execute
  BY <1>7 DEF Execute, Fails, Returns
<1>8. CASE Finish
  BY <1>8 DEF Finish, Fails, Returns
<1>9. CASE FinishWithoutExecutor
  BY <1>9 DEF FinishWithoutExecutor, Returns
<1>10. CASE Destroy
  BY <1>10 DEF Destroy, Returns
<1>11. QED
  BY <1>1, <1>2, <1>3, <1>4, <1>5, <1>6, <1>7, <1>8, <1>9, <1>10 DEF Next

(***************************************************************************)
(* After a successful stepwise call every address of the engine in the     *)
(* client's array is that of a buffer which still exists, and no two       *)
(* outputs share one.                                                      *)
(***************************************************************************)
THEOREM OutputsReadable == Spec => []OutputReadable
<1>1. Init => OutputReadable
  BY DEF Init, OutputReadable
<1>2. TypeOK /\ OutputReadable /\ [Next]_vars => OutputReadable'
  BY NextOutputReadable
<1>3. QED
  BY <1>1, <1>2, TypeCorrect, PTL DEF Spec

\* What a call does to an object that has failed.
LEMMA AfterError ==
  ASSUME IInv, error, [Next]_vars, vars' # vars
  PROVE  /\ error' /\ ~ci' /\ last'.ret \in {Error, "ok"}
         /\ UNCHANGED <<array, initials, executor, script>>
<1>1. ~ci /\ ~script /\ executor = NoExecutor /\ object # "none"
  BY DEF IInv, NothingDangles, Gone
<1>2. CASE DoNothing
  BY <1>1, <1>2 DEF DoNothing, Returns
<1>3. CASE Destroy
  <2>1. script' = FALSE /\ executor' = NoExecutor
    BY <1>3 DEF Destroy, Clean
  <2>2. script = FALSE
    BY <1>1 DEF IInv, TypeOK
  <2>3. QED
    BY <1>1, <1>3, <2>1, <2>2 DEF Destroy, Returns
<1>4. DoNothing \/ Destroy
  BY <1>1 DEF Next, CreateScript, XMLReflection, Execute, InitialStep,
              NextTimeStep, Finish, FinishWithoutExecutor, Calling
<1>5. QED
  BY <1>2, <1>3, <1>4

(***************************************************************************)
(* Errors on a PcrScript are not recoverable: no later call runs anything, *)
(* writes to the client's array or clears the error.                       *)
(***************************************************************************)
THEOREM ErrorsAreFinal == Spec => ErrorsStay
<1>1. IInv /\ [Next]_vars =>
        [error => /\ error' /\ ~ci' /\ last'.ret \in {Error, "ok"}
                  /\ UNCHANGED <<array, initials, executor, script>>]_vars
  BY AfterError
<1>2. QED
  BY <1>1, Invariance, PTL DEF Spec, ErrorsStay

(***************************************************************************)
(* The buffers of the last stepwise call stay until the next one, the end  *)
(* of the run or an error: no other call that succeeds deletes them.       *)
(***************************************************************************)
THEOREM BuffersStay == Spec => BuffersKept
<1>1. ASSUME Next, owned' # owned
      PROVE  last'.call \in {"initial", "next", "finish", "destroy"} \/ last'.ret = Error
  <2>1. CASE CreateScript \/ DoNothing \/ FinishWithoutExecutor
    BY <1>1, <2>1 DEF CreateScript, DoNothing, FinishWithoutExecutor
  <2>2. CASE XMLReflection \/ Execute
    BY <1>1, <2>2 DEF XMLReflection, Execute, Fails, Returns
  <2>3. CASE InitialStep \/ NextTimeStep \/ Finish \/ Destroy
    BY <2>3 DEF InitialStep, NextTimeStep, Finish, Destroy, Fails, Returns
  <2>4. QED
    BY <1>1, <2>1, <2>2, <2>3 DEF Next
<1>2. [Next]_vars =>
        [owned' # owned =>
           last'.call \in {"initial", "next", "finish", "destroy"} \/ last'.ret = Error]_vars
  BY <1>1
<1>3. QED
  BY <1>2, PTL DEF Spec, BuffersKept
================================================================================
