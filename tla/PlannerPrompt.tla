--------------------------- MODULE PlannerPrompt ----------------------------
(***************************************************************************)
(* From the text of a model to a plan: the contract of the planner prompt  *)
(* (src/prompts/planner/planner-contract.ts), the plan verifier            *)
(* (src/planner/plan-verifier.ts), the bridge to a plan of tool calls      *)
(* (src/agent-run/llm-live-planner-bridge.ts) and the two formats of       *)
(* llmPlanText (planner-llm-live.ts).                                      *)
(*                                                                         *)
(* A text is what it decodes to, in a field shape what is wrong with it    *)
(* before any of its fields is looked at.  A tool's schema is checked to   *)
(* the depth of a parameter's own fields.                                  *)
(***************************************************************************)
EXTENDS AgentPlan

OK == "ok"

(* A step of the planner's output, and the output itself.                  *)
PlannerStep(n, tool, parameters, dependsOn) ==
    [shape |-> OK, step |-> n, tool |-> tool, parameters |-> parameters,
     explanation |-> "why", dependsOn |-> dependsOn]

PlannerOutput(steps) ==
    [shape |-> OK, decisionSummary |-> "summary", requiresClarification |-> FALSE,
     clarificationQuestion |-> "null", steps |-> steps]

Clarification(question) ==
    [shape |-> OK, decisionSummary |-> "summary", requiresClarification |-> TRUE,
     clarificationQuestion |-> question, steps |-> << >>]

(* Tool names are trimmed where tools are declared, not where a step names *)
(* one.                                                                    *)
PaddedName == " echo "
Trimmed(name) == IF name = PaddedName THEN "echo" ELSE name

AnyTool == {"any"}
DEFAULT_MAX_STEPS == 8

-----------------------------------------------------------------------------
(* The contract of the prompt.                                             *)

PriorSteps(step) == \A i \in DOMAIN step.dependsOn : step.dependsOn[i] \in 1..(step.step - 1)

ValidPromptStep(step, index, allowedToolNames) ==
    /\ step.shape = OK
    /\ step.step = index
    /\ isNonEmptyString(step.tool)
    /\ allowedToolNames # AnyTool => Trimmed(step.tool) \in allowedToolNames
    /\ IsObject(step.parameters)
    /\ isNonEmptyString(step.explanation)
    /\ PriorSteps(step)

validatePlannerPromptOutput(output, allowedToolNames, maxSteps) ==
    /\ output.shape = OK
    /\ isNonEmptyString(output.decisionSummary)
    /\ IF output.requiresClarification
       THEN output.clarificationQuestion \notin {"", "null"} /\ output.steps = << >>
       ELSE output.clarificationQuestion = "null" /\ output.steps # << >>
    /\ isArray(output.steps) /\ Len(output.steps) <= maxSteps
    /\ \A i \in DOMAIN output.steps : ValidPromptStep(output.steps[i], i, allowedToolNames)

-----------------------------------------------------------------------------
(* The verifier.  enum is the set of allowed values; without one, NoEnum.  *)

AnyType == "any"
NoEnum == {}
NoSchema == [type |-> "none"]

Schema(type, required, properties, additionalProperties) ==
    [type |-> type, enum |-> NoEnum, required |-> required, properties |-> properties,
     additionalProperties |-> additionalProperties]

OfType(type) == Schema(type, {}, << >>, TRUE)

isPlainRecord(v) == IsObject(v) \/ IsRef(v)
FieldsOf(v) == IF IsRef(v) THEN "$ref" :> Text(v.key) ELSE v.fields

validatePrimitiveType(v, expectedType) ==
    CASE expectedType = "string" -> IsText(v)
      [] expectedType \in {"number", "integer"} -> v = Number
      [] expectedType = "boolean" -> v = Flag
      [] expectedType = "object" -> isPlainRecord(v)
      [] expectedType = "array" -> v.is = "names"
      [] expectedType = "null" -> v = Null
      [] OTHER -> TRUE

validateEnum(v, schema) == schema.enum # NoEnum => v \in schema.enum

Conforms(v, schema) ==
    /\ validatePrimitiveType(v, schema.type)
    /\ validateEnum(v, schema)
    /\ isPlainRecord(v) =>
           /\ schema.required \subseteq DOMAIN FieldsOf(v)
           /\ ~ schema.additionalProperties =>
                  DOMAIN FieldsOf(v) \subseteq DOMAIN schema.properties

DeclaredFields(v, schema) ==
    IF isPlainRecord(v) THEN DOMAIN schema.properties \cap DOMAIN FieldsOf(v) ELSE {}

validateParameterSchema(v, schema) ==
    /\ Conforms(v, schema)
    /\ \A name \in DeclaredFields(v, schema) :
           Conforms(FieldsOf(v)[name], schema.properties[name])

(* tools is a sequence of [name, schema]; the last of a name counts.       *)
buildToolMap(tools) ==
    LET named == {i \in DOMAIN tools : isNonEmptyString(tools[i].name)}
        last(name) == CHOOSE i \in named : /\ Trimmed(tools[i].name) = name
                                           /\ \A j \in named : Trimmed(tools[j].name) = name => j <= i
    IN  [name \in {Trimmed(tools[i].name) : i \in named} |-> tools[last(name)].schema]

NoDuplicateDependency(step) ==
    \A i, j \in DOMAIN step.dependsOn : step.dependsOn[i] = step.dependsOn[j] => i = j

verifyStepDependencies(step) == PriorSteps(step) /\ NoDuplicateDependency(step)

VerifiedStep(step, toolMap) ==
    /\ step.tool \in DOMAIN toolMap
    /\ verifyStepDependencies(step)
    /\ validateParameterSchema(step.parameters, toolMap[step.tool])

(* A declared tool without a schema makes the verifier throw when a step   *)
(* uses it.                                                                *)
verifyDeterministicPlan(output, tools, maxSteps, requireExecutablePlan) ==
    LET toolMap == buildToolMap(tools)
        throws == \E i \in DOMAIN output.steps :
                      /\ output.steps[i].tool \in DOMAIN toolMap
                      /\ toolMap[output.steps[i].tool] = NoSchema
    IN  IF ~ validatePlannerPromptOutput(output, DOMAIN toolMap, maxSteps)
        THEN Fails("issues")
        ELSE IF throws THEN Fails("TypeError")
        ELSE IF /\ requireExecutablePlan => ~ output.requiresClarification
                /\ \A i \in DOMAIN output.steps : VerifiedStep(output.steps[i], toolMap)
             THEN Gives(output)
             ELSE Fails("issues")

(* Mutant of verifyLlmLivePlannerPromptText: the bound on steps is not     *)
(* handed on.                                                              *)
verifyWithoutMaxSteps(text, tools, maxSteps) ==
    IF validatePlannerPromptOutput(text, AnyTool, DEFAULT_MAX_STEPS)
    THEN verifyDeterministicPlan(text, tools, DEFAULT_MAX_STEPS, TRUE)
    ELSE Fails("issues")

verifyLlmLivePlannerPromptText(text, tools, maxSteps) ==
    IF validatePlannerPromptOutput(text, AnyTool, DEFAULT_MAX_STEPS)
    THEN verifyDeterministicPlan(text, tools, maxSteps, TRUE)
    ELSE Fails("issues")

Asserted(verified) ==
    IF verified.ok \/ verified.error = "TypeError" THEN verified
    ELSE Fails("LLM_LIVE_PLANNER_CONTRACT_INVALID")

assertVerifiedLlmLivePlannerPromptText(text, tools, maxSteps) ==
    Asserted(verifyLlmLivePlannerPromptText(text, tools, maxSteps))

-----------------------------------------------------------------------------
(* The bridge.                                                             *)

(* A verified output has at most DEFAULT_MAX_STEPS steps.                  *)
StepKeys == << "llm_step_1", "llm_step_2", "llm_step_3", "llm_step_4",
               "llm_step_5", "llm_step_6", "llm_step_7", "llm_step_8" >>

bridgeVerifiedPlannerOutputToAgentPlan(output, planId) ==
    IF output.requiresClarification THEN Fails("requires_executable_plan")
    ELSE IF output.steps = << >> THEN Fails("empty_steps")
    ELSE canonicalizePlan(
             [planId |-> planId,
              version |-> 1,
              steps |-> [i \in DOMAIN output.steps |->
                            ToolCall(output.steps[i].step, output.steps[i].tool,
                                     output.steps[i].parameters.fields,
                                     StepKeys[output.steps[i].step])]])

Bridged(verified, planId) ==
    IF verified.ok THEN bridgeVerifiedPlannerOutputToAgentPlan(verified.value, planId)
    ELSE verified

bridgeVerifiedLlmLivePlannerPromptTextToAgentPlan(text, tools, maxSteps, planId) ==
    Bridged(assertVerifiedLlmLivePlannerPromptText(text, tools, maxSteps), planId)

-----------------------------------------------------------------------------
(* A text that is a plan already: any plan, whatever the policy says of it *)
(* later.                                                                  *)

PlanText(plan) == [shape |-> OK, plan |-> plan]

Parsed(plan) == IF plan.ok THEN plan ELSE Fails("llm_live_invalid_plan_text")

parseDeterministicPlanFromModelText(text) ==
    IF text.shape = OK THEN Parsed(canonicalizePlan(text.plan))
    ELSE Fails("llm_live_invalid_plan_text")

(* The events emitted on the way and the plan, or the error thrown.        *)
Materialized(events, result) == [events |-> events, result |-> result]

MaterializedFrom(plan) ==
    CASE plan.ok -> Materialized(<< "received", "verified", "created_plan" >>, plan)
      [] ~ plan.ok /\ plan.error = "LLM_LIVE_PLANNER_CONTRACT_INVALID" ->
             Materialized(<< "received", "rejected" >>, Fails("llm_live_invalid_plan_text"))
      [] OTHER -> Materialized(<< "received", "rejected" >>, plan)

(* A request may name its plan.                                            *)
PlanIdOf(verifiedPlanId) == IF verifiedPlanId = "" THEN "plan" ELSE verifiedPlanId

materializePlanFromLlmPlanText(format, text, tools, maxSteps, verifiedPlanId) ==
    CASE format # "planner-prompt-output" ->
             Materialized(<< >>, parseDeterministicPlanFromModelText(text))
      [] format = "planner-prompt-output" /\ tools = << >> ->
             Materialized(<< "received", "rejected" >>,
                          Fails("llm_live_verified_planner_prompt_tools_required"))
      [] OTHER ->
             MaterializedFrom(bridgeVerifiedLlmLivePlannerPromptTextToAgentPlan(
                                  text, tools, maxSteps, PlanIdOf(verifiedPlanId)))
=============================================================================
