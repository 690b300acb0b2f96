--------------------------- MODULE AgentExecution ---------------------------
(***************************************************************************)
(* The execution of a plan (src/agent/executor.ts, and executor-async.ts   *)
(* for the steps that need no browser), the trace it leaves                *)
(* (trace-chain.ts), the verification of a recorded execution              *)
(* (src/agent/replay.ts), replay bundles (src/agent/replay) and what       *)
(* runAgent adds to a result (src/agent-run/run.ts).                       *)
(*                                                                         *)
(* An execution in mode mock never yields: it is a function of the plan.   *)
(* A hash is what it is computed from.  A link of the trace hashes its     *)
(* predecessor, so the hash of a link stands for the trace up to it.       *)
(***************************************************************************)
EXTENDS AgentPlan

TRACE_SCHEMA_VERSION == 1

mapToolErrorCode(error) ==
    CASE error = "tool_not_found" -> "TOOL_NOT_FOUND"
      [] error = "tool_invalid_input" -> "TOOL_INVALID_INPUT"
      [] error \in {"tool_input_ref_not_found", "tool_input_ref_invalid_json"} ->
             "TOOL_EXECUTION_FAILED"
      [] OTHER -> "INVALID_REQUEST"

(* The code of a tool's error, by its prefix.  A client may send a code of *)
(* any length.                                                             *)
LongToolError == "TOOL_, and more than a plan id has room for"

IsToolError(code) ==
    code \in {"TOOL_NOT_FOUND", "TOOL_INVALID_INPUT", "TOOL_EXECUTION_FAILED", LongToolError}

(* What a link hashes of its step: not the tool, its input nor its key.    *)
stableStepView(step) ==
    IF step.kind \in {"tool.call", "tool.loop"}
    THEN [id |-> step.id, kind |-> step.kind]
    ELSE step

StepTrace(step, before, after) ==
    [stepId |-> step.id, kind |-> step.kind, step |-> stableStepView(step),
     before |-> before, after |-> after]

(* computeTraceLinkHash of the last link.                                  *)
TraceLinkHash(trace) == trace

computeExecutionHash(plan, state, trace) ==
    [plan |-> plan, stepCount |-> Len(plan.steps), state |-> state,
     link |-> TraceLinkHash(trace)]

Advanced(run, step, next) ==
    IF next.ok
    THEN [run EXCEPT !.state = next.value,
                     !.trace = Append(@, StepTrace(step, run.state, next.value))]
    ELSE [run EXCEPT !.ok = FALSE, !.code = mapToolErrorCode(next.error)]

ExecuteStep(run, step) ==
    IF run.ok THEN Advanced(run, step, applyMockStep(run.state, step)) ELSE run

Begun == [ok |-> TRUE, code |-> "none", state |-> createInitialAgentState, trace |-> << >>]

executeSteps(steps) ==
    LET run[n \in 0..Len(steps)] == IF n = 0 THEN Begun ELSE ExecuteStep(run[n - 1], steps[n])
    IN  run[Len(steps)]

Failure(code) == [ok |-> FALSE, code |-> code]

AgentExecutionResult(plan, state, trace) ==
    [planHash |-> plan,
     executionHash |-> computeExecutionHash(plan, state, trace),
     finalTraceLinkHash |-> TraceLinkHash(trace),
     traceSchemaVersion |-> TRACE_SCHEMA_VERSION,
     stepsRequested |-> Len(plan.steps),
     finalState |-> state,
     trace |-> trace]

Success(result) == [ok |-> TRUE, code |-> "none", result |-> result]

ResultOf(plan, run) ==
    IF run.ok THEN Success(AgentExecutionResult(plan, run.state, run.trace)) ELSE Failure(run.code)

ExecuteCanonical(canonical, maxSteps) ==
    CASE ~ canonical.ok -> Failure("PLAN_CANONICALIZATION_FAILED")
      [] canonical.ok /\ Len(canonical.value.steps) > maxSteps -> Failure("PLAN_EXCEEDS_MAX_STEPS")
      [] OTHER -> ResultOf(canonical.value, executeSteps(canonical.value.steps))

executeDeterministicPlan(plan, maxSteps) ==
    IF validatePlan(plan) THEN ExecuteCanonical(canonicalizePlan(plan), maxSteps)
    ELSE Failure("PLAN_VALIDATION_FAILED")

-----------------------------------------------------------------------------
(* verifyExecutionReplay: run the plan again and compare.  The entries of  *)
(* the recorded trace are counted, not compared.                           *)

SameExecution(rerun, recorded) ==
    /\ rerun.ok
    /\ rerun.result.traceSchemaVersion = recorded.traceSchemaVersion
    /\ rerun.result.planHash = recorded.planHash
    /\ rerun.result.executionHash = recorded.executionHash
    /\ rerun.result.finalTraceLinkHash = recorded.finalTraceLinkHash
    /\ Len(rerun.result.trace) = Len(recorded.trace)
    /\ rerun.result.finalState = recorded.finalState

(* Mutant of verifyExecutionReplay: no room for the steps of the plan.     *)
verifyExecutionReplayTight(plan, recorded) ==
    SameExecution(executeDeterministicPlan(plan, recorded.stepsRequested - 1), recorded)

verifyExecutionReplay(plan, recorded) ==
    SameExecution(executeDeterministicPlan(plan, recorded.stepsRequested + 10), recorded)

-----------------------------------------------------------------------------
(* runAgent reads the lookups of a finished execution and adds a sentence  *)
(* about the first one that found something to the values of its state.    *)

LookupKeys == << "priceLookup", "availabilityLookup", "productLookup", "orderLookup",
                 "knowledgeLookup" >>

FoundUnder(values, key) ==
    /\ key \in DOMAIN values
    /\ IsEncodedObject(values[key])
    /\ "found" \in DOMAIN values[key].json.fields
    /\ values[key].json.fields["found"] = Text("true")

DomainKeys(values) == SelectSeq(LookupKeys, LAMBDA key : FoundUnder(values, key))

projectDomainResult(result) ==
    LET values == result.finalState.values
        sentence == Text(Head(DomainKeys(values)))
    IN  IF DomainKeys(values) = << >> THEN result
        ELSE [result EXCEPT !.finalState.values =
                  Put(Put(@, "domainResult", sentence), "canonicalResponse", sentence)]

Projected(response) ==
    IF response.ok THEN [response EXCEPT !.result = projectDomainResult(@)] ELSE response

runAgent(plan, maxSteps) == Projected(executeDeterministicPlan(plan, maxSteps))

-----------------------------------------------------------------------------
(* What a replay bundle keeps of a result.                                 *)

resultHashes(result) ==
    [planHash |-> result.planHash, executionHash |-> result.executionHash,
     finalTraceLinkHash |-> result.finalTraceLinkHash,
     traceSchemaVersion |-> result.traceSchemaVersion]
=============================================================================
