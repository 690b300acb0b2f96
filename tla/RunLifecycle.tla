---------------------------- MODULE RunLifecycle ----------------------------
(***************************************************************************)
(* The runs of /runs: AgentRunRegistry (src/http/runs/registry.ts), the    *)
(* checkpoint store (src/enterprise/state-manager.ts) and the execute      *)
(* handlers (src/http/handlers/run-execute.ts).                            *)
(*                                                                         *)
(* Registry calls are synchronous.  In mode local the execute handler      *)
(* awaits the plan (browser steps) on every iteration of its retry loop,   *)
(* and any other request may act on the run meanwhile; in mode mock it     *)
(* never yields.  A run record is abstracted to its status.  Requests the  *)
(* registry rejects (404, 409) and repeated cancels change nothing and are *)
(* left out.                                                               *)
(***************************************************************************)
EXTENDS Naturals

CONSTANTS Run,              \* run ids
          Execution,        \* POST /runs/:id/execute requests, mode local
          MaxIterations     \* maxIterations of the retry loop: 20 in the code

ASSUME MaxIterationsAssumption == MaxIterations \in Nat \ {0}

VARIABLES runs,             \* registry: runs[r], a status, or absent
          checkpoint,       \* checkpoint store: status of r's snapshot, or none
          exec              \* exec[x]: where the handler of x stands

vars == << runs, checkpoint, exec >>

RunStatus == {"created", "running", "completed", "failed", "cancelled"}

isTerminal(status) == status \in {"completed", "failed", "cancelled"}

(* Mutant of canTransition: a failed run may be started again.             *)
canTransitionAfterFailure(from, to) ==
    \/ from \in {"created", "failed"} /\ to \in {"running", "cancelled"}
    \/ from = "running" /\ isTerminal(to)

canTransition(from, to) ==
    \/ from = "created" /\ to \in {"running", "cancelled"}
    \/ from = "running" /\ isTerminal(to)

Waiting == [at |-> "waiting"]
Executing(r, iter) == [at |-> "executing", run |-> r, iter |-> iter]
Answered(r, status) == [at |-> "answered", run |-> r, status |-> status]

UnderExecution(r) == \E x \in Execution : exec[x].at = "executing" /\ exec[x].run = r

Init ==
    /\ runs = [r \in Run |-> "absent"]
    /\ checkpoint = [r \in Run |-> "none"]
    /\ exec = [x \in Execution |-> Waiting]

-----------------------------------------------------------------------------
(* The requests that make one registry call.                               *)

CreateRun(r) ==
    /\ runs[r] = "absent"
    /\ runs' = [runs EXCEPT ![r] = "created"]
    /\ UNCHANGED << checkpoint, exec >>

(* start, complete and fail.                                               *)
MoveRun(r, to) ==
    /\ canTransition(runs[r], to)
    /\ runs' = [runs EXCEPT ![r] = to]
    /\ UNCHANGED << checkpoint, exec >>

StartRun(r) == MoveRun(r, "running")
CompleteRun(r) == MoveRun(r, "completed")
FailRun(r) == MoveRun(r, "failed")

CancelRun(r) ==
    /\ ~ isTerminal(runs[r])
    /\ MoveRun(r, "cancelled")

-----------------------------------------------------------------------------
(* execute in mode mock: start, snapshot, loop and outcome in one step.    *)
(* Its retries restore the snapshot just taken, which changes nothing.     *)
ExecuteRun(r, outcome) ==
    /\ canTransition(runs[r], "running")
    /\ canTransition("running", outcome)
    /\ runs' = [runs EXCEPT ![r] = outcome]
    /\ checkpoint' = [checkpoint EXCEPT ![r] = "running"]
    /\ UNCHANGED exec

(* Mutant of BeginExecution: the snapshot taken before the run is started. *)
BeginExecutionSnapshotFirst(x, r) ==
    /\ exec[x].at = "waiting"
    /\ canTransition(runs[r], "running")
    /\ checkpoint' = [checkpoint EXCEPT ![r] = runs[r]]
    /\ runs' = [runs EXCEPT ![r] = "running"]
    /\ exec' = [exec EXCEPT ![x] = Executing(r, 0)]

(* execute in mode local: start and snapshot, then the first await.        *)
BeginExecution(x, r) ==
    /\ exec[x].at = "waiting"
    /\ canTransition(runs[r], "running")
    /\ runs' = [runs EXCEPT ![r] = "running"]
    /\ checkpoint' = [checkpoint EXCEPT ![r] = "running"]
    /\ exec' = [exec EXCEPT ![x] = Executing(r, 0)]

Restored(r) == IF checkpoint[r] = "none" THEN runs[r] ELSE checkpoint[r]

(* Mutant of Retry: the loop without its bound.                            *)
RetryForever(x) ==
    LET r == exec[x].run IN
    /\ runs' = [runs EXCEPT ![r] = Restored(r)]
    /\ UNCHANGED << checkpoint, exec >>

(* Restore the snapshot and go on with the next iteration, or, after the   *)
(* last, fail the run: restored a moment before, it is running, so fail    *)
(* does not throw.                                                         *)
Retry(x) ==
    LET r == exec[x].run IN
    /\ IF exec[x].iter + 1 < MaxIterations
       THEN /\ runs' = [runs EXCEPT ![r] = Restored(r)]
            /\ exec' = [exec EXCEPT ![x] = Executing(r, exec[x].iter + 1)]
       ELSE /\ canTransition(Restored(r), "failed")
            /\ runs' = [runs EXCEPT ![r] = "failed"]
            /\ exec' = [exec EXCEPT ![x] = Answered(r, "failed")]
    /\ UNCHANGED checkpoint

(* The awaited plan settled: ok, or with an error that is not retryable.   *)
PlanEnds(x, outcome) ==
    /\ exec[x].at = "executing"
    /\ canTransition(runs[exec[x].run], outcome)
    /\ runs' = [runs EXCEPT ![exec[x].run] = outcome]
    /\ exec' = [exec EXCEPT ![x] = Answered(exec[x].run, outcome)]
    /\ UNCHANGED checkpoint

(* It settled that way, but the registry throws, because the run was ended *)
(* meanwhile: caught, and treated as a retryable error.                    *)
PlanEndsTooLate(x, outcome) ==
    /\ exec[x].at = "executing"
    /\ ~ canTransition(runs[exec[x].run], outcome)
    /\ Retry(x)

(* A retryable error, or the plan threw.                                   *)
PlanFailsRetryable(x) ==
    /\ exec[x].at = "executing"
    /\ Retry(x)

Iterate(x) ==
    \/ \E outcome \in {"completed", "failed"} :
          PlanEnds(x, outcome) \/ PlanEndsTooLate(x, outcome)
    \/ PlanFailsRetryable(x)

Next ==
    \/ \E r \in Run :
          \/ CreateRun(r) \/ StartRun(r) \/ CompleteRun(r) \/ FailRun(r)
          \/ CancelRun(r)
          \/ \E outcome \in {"completed", "failed"} : ExecuteRun(r, outcome)
          \/ \E x \in Execution : BeginExecution(x, r)
    \/ \E x \in Execution : Iterate(x)

(* The browser's calls all have timeouts, so every awaited plan settles.   *)
Spec == Init /\ [][Next]_vars /\ \A x \in Execution : WF_vars(Iterate(x))

-----------------------------------------------------------------------------

(* Type invariant.                                                         *)
TypeOK ==
    /\ runs \in [Run -> RunStatus \cup {"absent"}]
    /\ checkpoint \in [Run -> {"none", "running"}]
    /\ DOMAIN exec = Execution
    /\ \A x \in Execution :
          \/ exec[x] = Waiting
          \/ \E r \in Run, iter \in 0..(MaxIterations - 1) : exec[x] = Executing(r, iter)
          \/ \E r \in Run, status \in RunStatus : exec[x] = Answered(r, status)

(* A run is executed at most once, ever: although retries overwrite the    *)
(* registry's record with an old one, no execute request finds the run in  *)
(* a status it may start from again.                                       *)
ExecutedOnce ==
    \A x, y \in Execution :
        (exec[x].at # "waiting" /\ exec[y].at # "waiting" /\ exec[x].run = exec[y].run)
            => x = y

(* The status an execute request answered is the run's status from then    *)
(* on, whatever clients do to the run while it executes and afterwards.    *)
AnswerStands ==
    \A x \in Execution : exec[x].at = "answered" =>
        isTerminal(exec[x].status) /\ runs[exec[x].run] = exec[x].status

(* Only the handler that is executing a run can move it out of a terminal  *)
(* status; and no step takes a run back to created or absent.              *)
OnlyExecutionRevives ==
    [][\A r \in Run :
         /\ (isTerminal(runs[r]) /\ ~ UnderExecution(r)) => runs'[r] = runs[r]
         /\ runs[r] # "absent" => runs'[r] # "absent"
         /\ runs[r] \notin {"absent", "created"} => runs'[r] # "created"]_vars

(* Every execute request is answered: retries are bounded, also when each  *)
(* of them fails because the run was cancelled or ended by a client.       *)
EveryExecutionAnswers ==
    \A x \in Execution : exec[x].at = "executing" ~> exec[x].at = "answered"

(* What makes the invariants inductive: a run under or after execution has *)
(* left created for good, and its snapshot is the running one.             *)
ExecutedRunHasSnapshot ==
    \A x \in Execution : exec[x].at # "waiting" =>
        /\ runs[exec[x].run] \notin {"absent", "created"}
        /\ checkpoint[exec[x].run] = "running"

RunInv == TypeOK /\ ExecutedOnce /\ AnswerStands /\ ExecutedRunHasSnapshot

(* README.md: cancellation persists, terminal states are protected.        *)
TerminalStatesAreProtected ==
    [][\A r \in Run : isTerminal(runs[r]) => runs'[r] = runs[r]]_vars
=============================================================================
