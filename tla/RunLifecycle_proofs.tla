------------------------- MODULE RunLifecycle_proofs -------------------------
(***************************************************************************)
(* For any sets of runs and execute requests and any bound on retries: a   *)
(* run is executed at most once, the status an execute request answered is *)
(* final, and only the executing handler takes a run out of a terminal     *)
(* status.                                                                 *)
(***************************************************************************)
EXTENDS RunLifecycle, TLAPS

(* Requests that start from an empty registry satisfy the invariant.       *)
LEMMA InitRunInv == Init => RunInv
BY DEF Init, RunInv, TypeOK, ExecutedOnce, AnswerStands, ExecutedRunHasSnapshot, Waiting

(* A registry call moves one run along canTransition, never one that an    *)
(* execute request answered for.                                           *)
LEMMA MoveKeepsRunInv ==
    ASSUME RunInv, NEW r \in Run, NEW to \in RunStatus \ {"created"}, MoveRun(r, to)
    PROVE  RunInv'
<1>1. /\ canTransition(runs[r], to)
      /\ runs' = [runs EXCEPT ![r] = to]
      /\ UNCHANGED << checkpoint, exec >>
    BY DEF MoveRun
<1>2. ~ isTerminal(runs[r])
    BY <1>1 DEF canTransition, isTerminal
<1>3. TypeOK'
    BY <1>1 DEF RunInv, TypeOK
<1>4. ExecutedOnce'
    BY <1>1 DEF RunInv, ExecutedOnce
<1>5. \A x \in Execution : exec[x].at # "waiting" => exec[x].run \in Run
    BY DEF RunInv, TypeOK, Waiting, Executing, Answered
<1>6. AnswerStands'
    BY <1>1, <1>2, <1>5 DEF RunInv, TypeOK, AnswerStands
<1>7. ExecutedRunHasSnapshot'
    BY <1>1, <1>5 DEF RunInv, TypeOK, ExecutedRunHasSnapshot, RunStatus
<1> QED
    BY <1>3, <1>4, <1>6, <1>7 DEF RunInv

(* A run that may be started was never executed.                           *)
LEMMA StartableIsUnexecuted ==
    ASSUME RunInv, NEW r \in Run, canTransition(runs[r], "running")
    PROVE  \A x \in Execution : exec[x].at # "waiting" => exec[x].run # r
BY DEF RunInv, ExecutedRunHasSnapshot, canTransition, isTerminal

(* Creating a run, and executing it without awaiting, touch a run that no  *)
(* execute request has begun with.                                         *)
LEMMA FreshKeepsRunInv ==
    ASSUME RunInv, NEW r \in Run, NEW to \in RunStatus,
           \A x \in Execution : exec[x].at # "waiting" => exec[x].run # r,
           runs' = [runs EXCEPT ![r] = to],
           checkpoint' \in {checkpoint, [checkpoint EXCEPT ![r] = "running"]},
           UNCHANGED exec
    PROVE  RunInv'
<1>1. \A x \in Execution : exec[x].at # "waiting" => exec[x].run \in Run \ {r}
    BY DEF RunInv, TypeOK, Waiting, Executing, Answered
<1>2. TypeOK'
    BY DEF RunInv, TypeOK
<1>3. ExecutedOnce'
    BY DEF RunInv, ExecutedOnce
<1>4. AnswerStands'
    BY <1>1 DEF RunInv, TypeOK, AnswerStands
<1>5. ExecutedRunHasSnapshot'
    BY <1>1 DEF RunInv, TypeOK, ExecutedRunHasSnapshot
<1> QED
    BY <1>2, <1>3, <1>4, <1>5 DEF RunInv

(* start, snapshot, first await.                                           *)
LEMMA BeginKeepsRunInv ==
    ASSUME RunInv, NEW x \in Execution, NEW r \in Run, BeginExecution(x, r)
    PROVE  RunInv'
<1>1. /\ exec[x].at = "waiting"
      /\ canTransition(runs[r], "running")
      /\ runs' = [runs EXCEPT ![r] = "running"]
      /\ checkpoint' = [checkpoint EXCEPT ![r] = "running"]
      /\ exec' = [exec EXCEPT ![x] = Executing(r, 0)]
    BY DEF BeginExecution
<1>2. \A y \in Execution : exec[y].at # "waiting" => exec[y].run \in Run \ {r}
    BY <1>1, StartableIsUnexecuted DEF RunInv, TypeOK, Waiting, Executing, Answered
<1>3. /\ DOMAIN exec' = Execution
      /\ exec'[x] = Executing(r, 0)
      /\ \A y \in Execution \ {x} : exec'[y] = exec[y]
    BY <1>1 DEF RunInv, TypeOK
<1>4. TypeOK'
    <2>1. 0 \in 0..(MaxIterations - 1)
        BY MaxIterationsAssumption
    <2>2. /\ runs' \in [Run -> RunStatus \cup {"absent"}]
          /\ checkpoint' \in [Run -> {"none", "running"}]
        BY <1>1 DEF RunInv, TypeOK, RunStatus
    <2>3. \A y \in Execution :
             \/ exec'[y] = Waiting
             \/ \E q \in Run, iter \in 0..(MaxIterations - 1) : exec'[y] = Executing(q, iter)
             \/ \E q \in Run, status \in RunStatus : exec'[y] = Answered(q, status)
        BY <1>3, <2>1 DEF RunInv, TypeOK
    <2> QED
        BY <1>3, <2>2, <2>3 DEF TypeOK
<1>5. exec'[x].at = "executing" /\ exec'[x].run = r
    BY <1>3 DEF Executing
<1>6. ExecutedOnce'
    BY <1>2, <1>3, <1>5 DEF RunInv, ExecutedOnce
<1>7. AnswerStands'
    BY <1>1, <1>2, <1>3, <1>5 DEF RunInv, TypeOK, AnswerStands
<1>8. ExecutedRunHasSnapshot'
    BY <1>1, <1>2, <1>3, <1>5 DEF RunInv, TypeOK, ExecutedRunHasSnapshot
<1> QED
    BY <1>4, <1>6, <1>7, <1>8 DEF RunInv

(* What an iteration does to its run and its request: back to running and  *)
(* the next iteration, or a terminal status that is answered.              *)
LEMMA IterationOutcome ==
    ASSUME RunInv, NEW x \in Execution, Iterate(x)
    PROVE  \E r \in Run :
             /\ exec[x].at = "executing" /\ exec[x].run = r
             /\ UNCHANGED checkpoint
             /\ \/ /\ runs' = [runs EXCEPT ![r] = "running"]
                   /\ \E iter \in 0..(MaxIterations - 1) :
                        exec' = [exec EXCEPT ![x] = Executing(r, iter)]
                \/ \E status \in {"completed", "failed"} :
                     /\ runs' = [runs EXCEPT ![r] = status]
                     /\ exec' = [exec EXCEPT ![x] = Answered(r, status)]
<1> DEFINE r == exec[x].run
<1>1. exec[x].at = "executing"
    BY DEF Iterate, PlanEnds, PlanEndsTooLate, PlanFailsRetryable
<1>2. r \in Run /\ exec[x].iter \in 0..(MaxIterations - 1)
    BY <1>1 DEF RunInv, TypeOK, Waiting, Executing, Answered
<1>3. Restored(r) = "running"
    BY <1>1 DEF RunInv, ExecutedRunHasSnapshot, Restored
<1>4. CASE Retry(x)
    <2>1. CASE exec[x].iter + 1 < MaxIterations
        <3>1. exec[x].iter + 1 \in 0..(MaxIterations - 1)
            BY <1>2, <2>1, MaxIterationsAssumption
        <3>2. /\ runs' = [runs EXCEPT ![r] = "running"]
              /\ exec' = [exec EXCEPT ![x] = Executing(r, exec[x].iter + 1)]
              /\ UNCHANGED checkpoint
            BY <1>3, <1>4, <2>1 DEF Retry
        <3> QED
            BY <1>1, <1>2, <3>1, <3>2
    <2>2. CASE ~ (exec[x].iter + 1 < MaxIterations)
        BY <1>1, <1>2, <1>4, <2>2 DEF Retry
    <2> QED
        BY <2>1, <2>2
<1>5. CASE \E outcome \in {"completed", "failed"} : PlanEnds(x, outcome)
    BY <1>1, <1>2, <1>5 DEF PlanEnds
<1> QED
    BY <1>4, <1>5 DEF Iterate, PlanEndsTooLate, PlanFailsRetryable

(* One iteration of the retry loop.                                        *)
LEMMA IterateKeepsRunInv ==
    ASSUME RunInv, NEW x \in Execution, Iterate(x)
    PROVE  RunInv'
<1>1. PICK r \in Run :
        /\ exec[x].at = "executing" /\ exec[x].run = r
        /\ UNCHANGED checkpoint
        /\ \/ /\ runs' = [runs EXCEPT ![r] = "running"]
              /\ \E iter \in 0..(MaxIterations - 1) :
                   exec' = [exec EXCEPT ![x] = Executing(r, iter)]
           \/ \E status \in {"completed", "failed"} :
                /\ runs' = [runs EXCEPT ![r] = status]
                /\ exec' = [exec EXCEPT ![x] = Answered(r, status)]
    BY IterationOutcome
<1>2. /\ DOMAIN exec = Execution /\ DOMAIN exec' = Execution
      /\ \A y \in Execution \ {x} : exec'[y] = exec[y]
      /\ exec'[x].run = r /\ exec'[x].at # "waiting"
    BY <1>1 DEF RunInv, TypeOK, Executing, Answered
<1>3. \A y \in Execution \ {x} : exec[y].at # "waiting" => exec[y].run \in Run \ {r}
    <2>1. \A y \in Execution \ {x} : exec[y].at # "waiting" => exec[y].run # r
        BY <1>1 DEF RunInv, ExecutedOnce
    <2> QED
        BY <2>1 DEF RunInv, TypeOK, Waiting, Executing, Answered
<1>4. /\ DOMAIN runs = Run
      /\ runs'[r] \in {"running", "completed", "failed"}
      /\ \A q \in Run \ {r} : runs'[q] = runs[q]
      /\ exec'[x].at = "answered" =>
           isTerminal(exec'[x].status) /\ runs'[r] = exec'[x].status
    BY <1>1 DEF RunInv, TypeOK, Executing, Answered, isTerminal
<1>5. TypeOK'
    <2>1. /\ runs' \in [Run -> RunStatus \cup {"absent"}]
          /\ checkpoint' \in [Run -> {"none", "running"}]
        BY <1>1 DEF RunInv, TypeOK, RunStatus
    <2>2. \/ \E iter \in 0..(MaxIterations - 1) : exec'[x] = Executing(r, iter)
          \/ \E status \in RunStatus : exec'[x] = Answered(r, status)
        BY <1>1, <1>2 DEF RunStatus
    <2>3. \A y \in Execution :
             \/ exec'[y] = Waiting
             \/ \E q \in Run, iter \in 0..(MaxIterations - 1) : exec'[y] = Executing(q, iter)
             \/ \E q \in Run, status \in RunStatus : exec'[y] = Answered(q, status)
        BY <1>2, <2>2 DEF RunInv, TypeOK
    <2> QED
        BY <1>2, <2>1, <2>3 DEF TypeOK
<1>6. ExecutedOnce'
    BY <1>2, <1>3 DEF RunInv, ExecutedOnce
<1>7. AnswerStands'
    BY <1>2, <1>3, <1>4 DEF RunInv, AnswerStands
<1>8. ExecutedRunHasSnapshot'
    BY <1>1, <1>2, <1>3, <1>4 DEF RunInv, ExecutedRunHasSnapshot
<1> QED
    BY <1>5, <1>6, <1>7, <1>8 DEF RunInv

(* Every step of every request keeps the invariant.                        *)
LEMMA NextKeepsRunInv == RunInv /\ [Next]_vars => RunInv'
<1> SUFFICES ASSUME RunInv, [Next]_vars PROVE RunInv'
    OBVIOUS
<1>1. ASSUME NEW r \in Run, CreateRun(r) PROVE RunInv'
    <2>1. \A x \in Execution : exec[x].at # "waiting" => exec[x].run # r
        BY <1>1 DEF CreateRun, RunInv, ExecutedRunHasSnapshot
    <2>2. /\ runs' = [runs EXCEPT ![r] = "created"]
          /\ checkpoint' = checkpoint
          /\ UNCHANGED exec
        BY <1>1 DEF CreateRun
    <2> QED
        BY <2>1, <2>2, FreshKeepsRunInv DEF RunStatus
<1>2. ASSUME NEW r \in Run, StartRun(r) \/ CompleteRun(r) \/ FailRun(r) \/ CancelRun(r)
      PROVE  RunInv'
    BY <1>2, MoveKeepsRunInv DEF StartRun, CompleteRun, FailRun, CancelRun, RunStatus
<1>3. ASSUME NEW r \in Run, NEW outcome \in {"completed", "failed"}, ExecuteRun(r, outcome)
      PROVE  RunInv'
    <2>1. \A x \in Execution : exec[x].at # "waiting" => exec[x].run # r
        BY <1>3, StartableIsUnexecuted DEF ExecuteRun
    <2>2. /\ runs' = [runs EXCEPT ![r] = outcome]
          /\ checkpoint' = [checkpoint EXCEPT ![r] = "running"]
          /\ UNCHANGED exec
        BY <1>3 DEF ExecuteRun
    <2> QED
        BY <2>1, <2>2, FreshKeepsRunInv DEF RunStatus
<1>4. ASSUME NEW r \in Run, NEW x \in Execution, BeginExecution(x, r) PROVE RunInv'
    BY <1>4, BeginKeepsRunInv
<1>5. ASSUME NEW x \in Execution, Iterate(x) PROVE RunInv'
    BY <1>5, IterateKeepsRunInv
<1>6. CASE UNCHANGED vars
    BY <1>6 DEF vars, RunInv, TypeOK, ExecutedOnce, AnswerStands, ExecutedRunHasSnapshot
<1> QED
    BY <1>1, <1>2, <1>3, <1>4, <1>5, <1>6 DEF Next

(* The invariant holds in every state of every behaviour of the registry   *)
(* and its execute handlers.                                               *)
THEOREM RunInvariantHolds == Spec => []RunInv
BY InitRunInv, NextKeepsRunInv, PTL DEF Spec

(* Statuses, snapshots and handler positions keep their types; the retry   *)
(* counter stays below its bound.                                          *)
THEOREM RunTypesHold == Spec => []TypeOK
<1>1. RunInv => TypeOK
    BY DEF RunInv
<1> QED
    BY <1>1, RunInvariantHolds, PTL

(* restore never makes a run executable again.                             *)
THEOREM RunExecutedOnce == Spec => []ExecutedOnce
<1>1. RunInv => ExecutedOnce
    BY DEF RunInv
<1> QED
    BY <1>1, RunInvariantHolds, PTL

(* What POST /runs/:id/execute answered stays true of the run.             *)
THEOREM ExecuteAnswerStands == Spec => []AnswerStands
<1>1. RunInv => AnswerStands
    BY DEF RunInv
<1> QED
    BY <1>1, RunInvariantHolds, PTL

(* A run no handler is executing never leaves a terminal status.           *)
THEOREM RevivedOnlyByExecution == Spec => OnlyExecutionRevives
<1> DEFINE Kept(r) ==
        /\ (isTerminal(runs[r]) /\ ~ UnderExecution(r)) => runs'[r] = runs[r]
        /\ runs[r] # "absent" => runs'[r] # "absent"
        /\ runs[r] \notin {"absent", "created"} => runs'[r] # "created"
<1>1. RunInv /\ [Next]_vars => [\A r \in Run : Kept(r)]_vars
    <2> SUFFICES ASSUME RunInv, Next, NEW q \in Run PROVE Kept(q)
        OBVIOUS
    <2>1. DOMAIN runs = Run /\ runs[q] \in RunStatus \cup {"absent"}
        BY DEF RunInv, TypeOK
    <2>2. ASSUME NEW r \in Run, CreateRun(r) PROVE Kept(q)
        BY <2>1, <2>2 DEF CreateRun, isTerminal
    <2>3. ASSUME NEW r \in Run, NEW to \in {"running", "completed", "failed", "cancelled"},
                 canTransition(runs[r], to), runs' = [runs EXCEPT ![r] = to]
          PROVE  Kept(q)
        BY <2>1, <2>3 DEF canTransition, isTerminal
    <2>4. ASSUME NEW r \in Run, NEW outcome \in {"completed", "failed"},
                 ExecuteRun(r, outcome)
          PROVE  Kept(q)
        BY <2>1, <2>4 DEF ExecuteRun, canTransition, isTerminal
    <2>5. ASSUME NEW x \in Execution, Iterate(x) PROVE Kept(q)
        <3>1. PICK r \in Run :
                /\ exec[x].at = "executing" /\ exec[x].run = r
                /\ \E to \in {"running", "completed", "failed"} :
                     runs' = [runs EXCEPT ![r] = to]
            BY <2>5, IterationOutcome
        <3>2. UnderExecution(r)
            BY <3>1 DEF UnderExecution
        <3> QED
            BY <2>1, <3>1, <3>2
    <2>6. ASSUME NEW r \in Run,
                 StartRun(r) \/ CompleteRun(r) \/ FailRun(r) \/ CancelRun(r)
          PROVE  Kept(q)
        BY <2>3, <2>6 DEF StartRun, CompleteRun, FailRun, CancelRun, MoveRun
    <2>7. ASSUME NEW r \in Run, NEW x \in Execution, BeginExecution(x, r) PROVE Kept(q)
        BY <2>3, <2>7 DEF BeginExecution
    <2> QED
        BY <2>2, <2>4, <2>5, <2>6, <2>7 DEF Next
<1> QED
    BY <1>1, RunInvariantHolds, PTL DEF Spec, OnlyExecutionRevives

=============================================================================
