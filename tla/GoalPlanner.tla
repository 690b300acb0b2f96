---------------------------- MODULE GoalPlanner -----------------------------
(***************************************************************************)
(* Plans made from a goal: the intent of a goal (src/agent-run/spec.ts),   *)
(* the deterministic planners, the mock model (planner-llm-mock.ts and the *)
(* mock provider of planner-llm-live.ts) and the pipeline of capabilities  *)
(* a goal asks for (capability-*.ts).                                      *)
(*                                                                         *)
(* The planners only look for words, so a goal is the set of words it      *)
(* mentions, one member for each list of synonyms.  The last three say     *)
(* that it names a product or an order the data files do not have, and     *)
(* that it is longer than a value of a canonical plan may be.  (A goal is  *)
(* taken to be as long in lower case as it is as written.)                 *)
(***************************************************************************)
EXTENDS AgentExecution, FiniteSets

Mention == {"browser", "math", "extract chain", "normalize", "extract", "select", "merge",
            "extract and merge", "product", "price", "availability", "order", "about",
            "summary", "loop", "missingtool", "name", "role", "unknown product",
            "unknown order", "long"}

(* A phrase is found with the words in it; "summary" contains "sum".       *)
Brings ==
    "extract chain" :> {"extract"} @@
    "extract and merge" :> {"extract", "merge"} @@
    "summary" :> {"math"}

mentionsKnowledge(goal) == goal \cap {"about", "summary"} # {}

DomainWords == {"product", "price", "availability", "order", "about", "summary"}
JsonWords == {"normalize", "extract", "select", "merge"}

isSpecialExtractMerge(goal) ==
    "extract and merge" \in goal /\ goal \cap {"normalize", "select"} = {}

deriveIntent(goal) ==
    CASE "browser" \in goal -> "sandbox"
      [] "browser" \notin goal /\ "math" \in goal -> "compute"
      [] OTHER ->
             IF "extract chain" \in goal THEN "extract-chain"
             ELSE IF isSpecialExtractMerge(goal) THEN "extract-merge"
             ELSE IF goal \cap DomainWords # {} THEN "cap-synth"
             ELSE IF Cardinality(goal \cap JsonWords) >= 2 \/ goal \cap {"select", "merge"} # {}
             THEN "cap-synth"
             ELSE IF "extract" \in goal THEN "extract"
             ELSE IF "normalize" \in goal THEN "normalize"
             ELSE "core"

-----------------------------------------------------------------------------
(* Steps get the ids a, b, c, ... in the order they are pushed.            *)

Lettered(steps) == [i \in DOMAIN steps |-> [steps[i] EXCEPT !.id = i]]
idZ == 26

GoalText(goal) == Text(IF "long" \in goal THEN TooLong ELSE "goal")

SetGoal(goal) == Set(0, "goal", GoalText(goal))
AboutGoal(goal, intent) == << SetGoal(goal), Set(0, "intent", Text(intent)) >>
Call(toolId, input, outputKey) == << ToolCall(0, toolId, input, outputKey) >>
Log(word) == << AppendLog(0, word) >>

SandboxPlan ==
    Plan(Lettered(<< Sandbox(0, "sandbox.open", "s1", ""),
                     Sandbox(0, "sandbox.extract", "s1", "title") >> \o Log("done")))

(* DeterministicPlanner: for the sandbox demo its steps replace the ones   *)
(* buildPlanFromGoal made.                                                 *)
buildPlanFromGoal(goal) ==
    Plan(Lettered(AboutGoal(goal, deriveIntent(goal)) \o << Increment(0, "n", 1) >>
                  \o Log("planned")))

DeterministicPlanner(goal, demo) ==
    IF demo = "sandbox" THEN SandboxPlan ELSE buildPlanFromGoal(goal)

MockPlanner(goal, demo) ==
    IF demo = "sandbox" THEN SandboxPlan
    ELSE Plan(Lettered(<< SetGoal(goal), Increment(0, "n", 1) >> \o Log("done")))

-----------------------------------------------------------------------------
(* The capabilities a goal asks for, in the order they are pushed.         *)

When(condition, item) == IF condition THEN << item >> ELSE << >>

synthesizeCapabilitiesFromGoal(goal) ==
    LET productAlone == "product" \in goal /\ goal \cap {"price", "availability"} = {}
        asked == When("normalize" \in goal, "text.normalize")
                 \o When("extract" \in goal, "json.extract")
                 \o When("select" \in goal, "json.select")
                 \o When("merge" \in goal, "json.merge")
                 \o When("order" \in goal, "orders.find-by-id")
                 \o When("availability" \in goal, "catalog.availability-find")
                 \o When("price" \in goal, "catalog.price-find")
                 \o When(productAlone, "catalog.product-find")
                 \o When(mentionsKnowledge(goal) \/ productAlone, "kb.find-by-product-name")
    IN  IF asked # << >> THEN asked
        ELSE IF "math" \in goal THEN << "math.add" >>
        ELSE << "echo" >>

(* Mutant of insertRequiredCapabilities: nothing is inserted.              *)
insertNothing(caps) == [capabilities |-> caps, inserted |-> {}]

(* The order of the pipeline; json.select and json.merge need what comes   *)
(* before them, so that is inserted.                                       *)
insertRequiredCapabilities(caps) ==
    LET has == ToSet(caps)
        kept(c) == When(c \in has, c)
        extract == When(has \cap {"json.extract", "json.select", "json.merge"} # {}, "json.extract")
        select == When(has \cap {"json.select", "json.merge"} # {}, "json.select")
        out == kept("catalog.product-find") \o kept("catalog.price-find")
               \o kept("catalog.availability-find") \o kept("orders.find-by-id")
               \o kept("kb.find-by-product-name") \o kept("text.normalize")
               \o extract \o select \o kept("json.merge")
    IN  IF has \cap {"math.add", "echo"} # {}
        THEN [capabilities |-> caps, inserted |-> {}]
        ELSE [capabilities |-> out, inserted |-> ToSet(extract \o select) \ has]

normalizeCapabilityPipelineDetailed(capabilities) ==
    IF "math.add" \in ToSet(capabilities)
    THEN [capabilities |-> << "math.add" >>, inserted |-> {}]
    ELSE insertRequiredCapabilities(capabilities)

validateCapabilityPipeline(caps) ==
    LET has == ToSet(caps)
    IN  /\ has # {}
        /\ has \cap {"math.add", "echo"} # {} => Len(caps) = 1
        /\ has \cap {"json.select", "json.merge"} # {} => "json.extract" \in has
        /\ "json.merge" \in has => "json.select" \in has

-----------------------------------------------------------------------------
(* The plan of a pipeline.                                                 *)

User == Object([name |-> Text("Oscar"), role |-> Text("inventor")])
rawJson == JsonText(Object([user |-> User, meta |-> Object([ok |-> Flag])]))
extraJson == JsonText(Object([source |-> Text("planner"), workflow |-> Text("intent")]))

extractGoalEntities(goal) ==
    [productName |-> Text(IF "unknown product" \in goal THEN "other" ELSE "known"),
     orderId |-> Text(IF "unknown order" \in goal THEN "other" ELSE "known")]

NormalizeInput(text) ==
    [text |-> text, trim |-> Flag, lowercase |-> Flag, collapseWhitespace |-> Flag]

ExtractInput(text, path) == [text |-> text, path |-> Names(path)]

AddInput == [a |-> Number, b |-> Number]

OutputKey(c) ==
    CASE c = "catalog.product-find" -> "productLookup"
      [] c = "catalog.price-find" -> "priceLookup"
      [] c = "catalog.availability-find" -> "availabilityLookup"
      [] c = "orders.find-by-id" -> "orderLookup"
      [] c = "kb.find-by-product-name" -> "knowledgeLookup"
      [] c = "text.normalize" -> "normalizedJson"
      [] c = "json.extract" -> "extractedUser"
      [] c = "json.select" -> "selected"
      [] c = "json.merge" -> "merged"
      [] c = "math.add" -> "sum"
      [] c = "echo" -> "output"

(* The input of a capability's step, bound to what the steps before it     *)
(* produce.                                                                *)
CapabilityInput(c, steps, goal) ==
    LET entities == extractGoalEntities(goal)
        text == bindStepInputRef(steps, "normalizedJson", << "text" >>, rawJson)
        user == bindStepInputRef(steps, "extractedUser", << "value" >>, Undefined)
        selected == bindStepInputRef(steps, "selected", << "value" >>, user)
    IN  CASE c = "math.add" -> AddInput
          [] c = "echo" -> [value |-> Text("intent")]
          [] c = "orders.find-by-id" -> [orderId |-> entities.orderId]
          [] c = "text.normalize" -> NormalizeInput(rawJson)
          [] c = "json.extract" -> ExtractInput(text, << "user" >>)
          [] c = "json.select" -> [text |-> user, keys |-> Names(<< "name", "role" >>)]
          [] c = "json.merge" -> [left |-> selected, right |-> extraJson]
          [] OTHER -> [productName |-> entities.productName]

WithStepOf(c, steps, goal) ==
    steps \o Call(resolveToolIdForCapability(c), CapabilityInput(c, steps, goal), OutputKey(c))

CapabilitySteps(caps, goal, base) ==
    LET steps[n \in 0..Len(caps)] ==
            IF n = 0 THEN base ELSE WithStepOf(caps[n], steps[n - 1], goal)
    IN  steps[Len(caps)]

appendInsertedCapabilityLog(inserted) == When(inserted # {}, AppendLog(idZ, "inserted"))

CanonicalDerivedInputs ==
    {Rule("json/extract", "text", "normalizedJson", << "text" >>),
     Rule("json/select-keys", "text", "extractedUser", << "value" >>),
     Rule("json/merge", "left", "selected", << "value" >>)}

(* The log of what was inserted is pushed before "done" and has an id of   *)
(* its own.                                                                *)
PushedSteps(steps, inserted) ==
    LET lettered == Lettered(steps \o Log("done"))
    IN  SubSeq(lettered, 1, Len(steps)) \o appendInsertedCapabilityLog(inserted)
            \o << lettered[Len(lettered)] >>

PlanOfPipeline(pipeline, goal) ==
    Plan(PushedSteps(CapabilitySteps(pipeline.capabilities, goal,
                                     AboutGoal(goal, "cap-synth") \o Log("planned")),
                     pipeline.inserted))

Validated(plan) ==
    IF validateRequiredDerivedInputs(plan.steps, CanonicalDerivedInputs)
    THEN Gives(plan) ELSE Fails("cap_synth")

BuildPipeline(pipeline, goal) ==
    IF validateCapabilityPipeline(pipeline.capabilities)
    THEN Validated(PlanOfPipeline(pipeline, goal)) ELSE Fails("cap_synth")

(* The builder throws what its validations find.                           *)
buildCapabilitySynthPlan(goal) ==
    BuildPipeline(normalizeCapabilityPipelineDetailed(synthesizeCapabilitiesFromGoal(goal)), goal)

-----------------------------------------------------------------------------
(* DetToolsPlanner.                                                        *)

MissingTool == Call("nope/tool", [x |-> Number], "out")

DetToolsPlanner(goal) ==
    LET intent == deriveIntent(goal)
        loop == << ToolLoop(0, "math/add", AddInput, "sum", 10) >>
    IN  CASE "missingtool" \in goal ->
                 Gives(Plan(Lettered(<< SetGoal(goal) >> \o MissingTool)))
          [] "missingtool" \notin goal /\ "loop" \in goal ->
                 Gives(Plan(Lettered(AboutGoal(goal, intent) \o loop \o Log("planned"))))
          [] OTHER ->
                 IF intent = "cap-synth" THEN buildCapabilitySynthPlan(goal)
                 ELSE Gives(Plan(Lettered(AboutGoal(goal, intent)
                                          \o Call("math/add", AddInput, "sum") \o Log("planned"))))

-----------------------------------------------------------------------------
(* The mock models: the same plans, except that only LlmMockPlanner knows  *)
(* a missing tool and replans after a tool's error.                        *)

Planned(goal, intent, calls) ==
    Plan(Lettered(AboutGoal(goal, intent) \o Log("planned") \o calls \o Log("done")))

ExtractPath(goal) ==
    CASE "name" \in goal -> << "user", "name" >>
      [] "name" \notin goal /\ "role" \in goal -> << "user", "role" >>
      [] OTHER -> << "items", "0", "id" >>

UserAndItems ==
    JsonText(Object([user |-> User,
                     items |-> Object([index \in {"0"} |-> Object([id |-> Text("a1")])])]))

Normalized(text) == Call("text/normalize", NormalizeInput(text), "normalizedJson")
FromNormalized == Ref("normalizedJson", << "text" >>)

CallsOfIntent(goal, intent) ==
    CASE intent = "compute" -> Call("math/add", AddInput, "sum")
      [] intent = "normalize" -> Call("text/normalize", NormalizeInput(GoalText(goal)), "normalized")
      [] intent = "extract" -> Call("json/extract", ExtractInput(UserAndItems, ExtractPath(goal)), "extracted")
      [] intent = "extract-merge" ->
             Normalized(rawJson)
             \o Call("json/extract", ExtractInput(FromNormalized, << "user" >>), "extractedUser")
             \o Call("json/merge", [left |-> Ref("extractedUser", << "value" >>),
                                    right |-> extraJson], "merged")
      [] intent = "extract-chain" ->
             Normalized(UserAndItems)
             \o Call("json/extract",
                     ExtractInput(FromNormalized,
                                  << "user", IF "role" \in goal THEN "role" ELSE "name" >>),
                     "extracted")
      [] intent \in {"sandbox", "core"} -> Call("echo", [value |-> Text("intent")], "output")

buildPlanViaMockProvider(goal) ==
    LET intent == deriveIntent(goal)
    IN  IF intent = "cap-synth" THEN buildCapabilitySynthPlan(goal)
        ELSE Gives(Planned(goal, intent, CallsOfIntent(goal, intent)))

(* The code is part of the plan id, which has less room than a value.      *)
Replanned(goal, intent, code) ==
    [planId |-> IF code = LongToolError THEN TooLong ELSE "plan",
     version |-> 1,
     steps |-> Lettered(AboutGoal(goal, intent) \o << Set(0, "lastErrorCode", Text("error")) >>
                        \o Log("replan2") \o Call("echo", [value |-> Text("error")], "sum")
                        \o Log("done"))]

LlmMockPlanner(goal, lastErrorCode) ==
    LET intent == deriveIntent(goal)
    IN  CASE IsToolError(lastErrorCode) -> Gives(Replanned(goal, intent, lastErrorCode))
          [] ~ IsToolError(lastErrorCode) /\ "missingtool" \in goal ->
                 Gives(Planned(goal, intent, MissingTool))
          [] OTHER -> buildPlanViaMockProvider(goal)
=============================================================================
