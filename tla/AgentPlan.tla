----------------------------- MODULE AgentPlan ------------------------------
(***************************************************************************)
(* Plans: which the policy accepts (src/agent/policies.ts), the canonical  *)
(* plan an execution runs (src/agent/canonical-plan.ts) and what the       *)
(* references between steps must satisfy (agent-run/step-dependencies.ts). *)
(*                                                                         *)
(* Step ids are strings of which only the order and equality count: a      *)
(* number stands for the id at that place of the string order, Padded + n  *)
(* for id n written with blanks around it, and Blank for an empty one.  A  *)
(* field is blank ("") when it is missing or empty, and TooLong when it is *)
(* over its maximum length.  "irregular" marks a step with a field of no   *)
(* use to its kind.  The policy looks at neither, the canonical plan       *)
(* refuses both.                                                           *)
(***************************************************************************)
EXTENDS AgentTools, FiniteSets

Blank == 0
Padded == 1000
TooLong == "too long"

Set(id, key, v) == [id |-> id, kind |-> "set", key |-> key, value |-> v, irregular |-> FALSE]
Increment(id, key, n) ==
    [id |-> id, kind |-> "increment", key |-> key, value |-> n, irregular |-> FALSE]
AppendLog(id, word) ==
    [id |-> id, kind |-> "append_log", value |-> Text(word), irregular |-> FALSE]
Sandbox(id, kind, sessionId, outputKey) ==
    [id |-> id, kind |-> kind, sessionId |-> sessionId, outputKey |-> outputKey,
     irregular |-> FALSE]
ToolCall(id, toolId, input, outputKey) ==
    [id |-> id, kind |-> "tool.call", toolId |-> toolId, input |-> input,
     outputKey |-> outputKey, irregular |-> FALSE]
ToolLoop(id, toolId, input, outputKey, maxIterations) ==
    [id |-> id, kind |-> "tool.loop", toolId |-> toolId, input |-> input,
     outputKey |-> outputKey, maxIterations |-> maxIterations, irregular |-> FALSE]

Plan(steps) == [planId |-> "plan", version |-> 1, steps |-> steps]

-----------------------------------------------------------------------------
(* The policy.  An input is JSON with finite numbers; a reference that     *)
(* names nothing is taken for an object like any other, and left to the    *)
(* canonical plan.                                                         *)

isNonEmptyString(s) == s # ""

IsId(id) == id \in Nat \ {Blank}

Undefined == [is |-> "undefined"]
Infinite == [is |-> "infinite"]     \* what a number out of range is read as

isJsonValue(v) == v \notin {Undefined, Infinite}

isArray(v) == v \in Seq(ToSet(v))

validateToolStep(step) ==
    /\ isNonEmptyString(step.toolId)
    /\ isNonEmptyString(step.outputKey)
    /\ \A argument \in DOMAIN step.input : isJsonValue(step.input[argument])
    /\ step.kind = "tool.loop" => step.maxIterations > 0

validateStep(step) ==
    /\ IsId(step.id)
    /\ CASE step.kind \in {"set", "increment"} -> isNonEmptyString(step.key)
         [] step.kind \in SandboxKind ->
                /\ isNonEmptyString(step.sessionId)
                /\ step.kind = "sandbox.extract" => isNonEmptyString(step.outputKey)
         [] step.kind \in {"tool.call", "tool.loop"} -> validateToolStep(step)
         [] OTHER -> TRUE

(* Ids are compared as they are written.                                   *)
validatePlan(plan) ==
    /\ isNonEmptyString(plan.planId)
    /\ plan.version = 1
    /\ isArray(plan.steps) /\ plan.steps # << >>
    /\ \A i \in DOMAIN plan.steps : validateStep(plan.steps[i])
    /\ \A i, j \in DOMAIN plan.steps : plan.steps[i].id = plan.steps[j].id => i = j

-----------------------------------------------------------------------------
(* The canonical plan: ids without blanks, steps in the order of their ids *)
(* and no id twice.                                                        *)

normalizedId(id) == IF id > Padded THEN id - Padded ELSE id

normalizeStepRaw(step) == [step EXCEPT !.id = normalizedId(@)]

compareSteps(a, b) == a.id < b.id

(* How many steps are sorted before the i-th.                              *)
Before(steps, i) == Cardinality({j \in DOMAIN steps : compareSteps(steps[j], steps[i])})

(* Mutant of Sorted: steps stay as they are listed.                        *)
SortedNot(steps) == steps

(* The sort, of steps with different ids.                                  *)
Sorted(steps) ==
    LET place == [i \in DOMAIN steps |-> Before(steps, i) + 1]
    IN  [n \in DOMAIN steps |-> steps[CHOOSE i \in DOMAIN steps : place[i] = n]]

DuplicateIds(steps) == \E i, j \in DOMAIN steps : i # j /\ steps[i].id = steps[j].id

(* What normalizeStringStrict and canonicalizeJsonValue let through; a     *)
(* string in an input may have any length.                                 *)
normalizeStringStrict(s) == s \notin {"", TooLong}
CanonicalValue(v) == v \notin {Text(""), Text(TooLong)}
CanonicalInput(v) == v \notin {Undefined, Infinite, Ref("", << >>)}

CanonicalStep(step) ==
    /\ ~ step.irregular
    /\ IsId(step.id)
    /\ CASE step.kind = "set" -> normalizeStringStrict(step.key) /\ CanonicalValue(step.value)
         [] step.kind = "increment" -> normalizeStringStrict(step.key)
         [] step.kind = "append_log" -> CanonicalValue(step.value)
         [] step.kind \in SandboxKind ->
                /\ normalizeStringStrict(step.sessionId)
                /\ step.kind = "sandbox.extract" => normalizeStringStrict(step.outputKey)
         [] step.kind \in {"tool.call", "tool.loop"} ->
                /\ normalizeStringStrict(step.toolId)
                /\ normalizeStringStrict(step.outputKey)
                /\ \A argument \in DOMAIN step.input : CanonicalInput(step.input[argument])
         [] OTHER -> FALSE

CanonicalPlan(plan, steps) ==
    IF \/ ~ normalizeStringStrict(plan.planId)
       \/ plan.version # 1
       \/ ~ isArray(plan.steps)
       \/ \E i \in DOMAIN steps : ~ CanonicalStep(steps[i])
       \/ DuplicateIds(steps)
    THEN Fails("PLAN_CANONICALIZATION_FAILED")
    ELSE Gives([planId |-> plan.planId, version |-> 1, steps |-> Sorted(steps)])

canonicalizePlan(plan) ==
    CanonicalPlan(plan, [i \in DOMAIN plan.steps |-> normalizeStepRaw(plan.steps[i])])

-----------------------------------------------------------------------------
(* References between steps, checked in the order the steps are listed.    *)
(* Only a tool.call produces a key.                                        *)

StepRefs(step) ==
    IF step.kind \in {"tool.call", "tool.loop"}
    THEN {v \in {step.input[argument] : argument \in DOMAIN step.input} : IsRef(v)}
    ELSE {}

isProducerStep(step) == step.kind = "tool.call" /\ isNonEmptyString(step.outputKey)

Produces(step, key) == isProducerStep(step) /\ step.outputKey = key

producedOutputKeys(steps) ==
    {steps[i].outputKey : i \in {i \in DOMAIN steps : isProducerStep(steps[i])}}

DuplicateOutputKey(steps) ==
    \E i, j \in DOMAIN steps :
        i # j /\ isProducerStep(steps[i]) /\ Produces(steps[j], steps[i].outputKey)

ProducerNotFound(steps) ==
    \E i \in DOMAIN steps : \E ref \in StepRefs(steps[i]) :
        ref.key \notin producedOutputKeys(steps)

OutOfOrder(steps) ==
    \E i, j \in DOMAIN steps : j >= i /\ \E ref \in StepRefs(steps[i]) : Produces(steps[j], ref.key)

validateStepDependencies(steps) ==
    ~ DuplicateOutputKey(steps) /\ ~ ProducerNotFound(steps) /\ ~ OutOfOrder(steps)

(* The reference a builder puts into a later step, or what it falls back   *)
(* to when nothing produces the key.                                       *)
bindStepInputRef(steps, outputKey, path, fallback) ==
    IF validateStepDependencies(steps) /\ outputKey \in producedOutputKeys(steps)
    THEN Ref(outputKey, path)
    ELSE fallback

(* A rule: the tool's argument must be that reference where the key is     *)
(* produced.                                                               *)
Rule(toolId, argument, key, path) ==
    [toolId |-> toolId, argument |-> argument, ref |-> Ref(key, path)]

validateRequiredDerivedInputs(steps, rules) ==
    /\ validateStepDependencies(steps)
    /\ \A i \in DOMAIN steps : \A rule \in rules :
           /\ steps[i].kind = "tool.call" /\ steps[i].toolId = rule.toolId
           /\ rule.ref.key \in producedOutputKeys(steps)
           => /\ rule.argument \in DOMAIN steps[i].input
              /\ steps[i].input[rule.argument] = rule.ref
=============================================================================
