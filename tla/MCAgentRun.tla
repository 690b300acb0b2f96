----------------------------- MODULE MCAgentRun -----------------------------
(***************************************************************************)
(* Two servers in one working directory, three requests; r1 and r3 go to   *)
(* the same server.  What the requests ask is one of these demands:        *)
(*   - Goals: one request, any goal of up to three words or about JSON,    *)
(*     with every planner that makes its own plan, long ones among them;   *)
(*   - Texts: two requests with the texts a model may produce;             *)
(*   - Caching: three live requests that may share a cache key;            *)
(*   - Journals: requests with and without a journal around one that waits *)
(*     for the model.                                                      *)
(***************************************************************************)
EXTENDS AgentRun

CONSTANTS r1, r2, r3, s1, s2

MCServerOf == (r1 :> s1) @@ (r2 :> s2) @@ (r3 :> s1)

Input(planner, goal) ==
    [fault |-> "none", planner |-> planner, goal |-> goal, demo |-> "core", maxSteps |-> 12,
     executionMode |-> "direct", lastErrorCode |-> "", llmProvider |-> "mock",
     llmPlanText |-> NoText, llmPlanTextFormat |-> "deterministic-agent-plan",
     llmPlannerAvailableTools |-> << >>, llmVerifiedPlanId |-> "", traceId |-> "",
     journal |-> FALSE]

By(one, two, three) == (r1 :> one) @@ (r2 :> two) @@ (r3 :> three)

-----------------------------------------------------------------------------
(* Goals.                                                                  *)

Closed(words) == words \cup UNION {Brings[m] : m \in words \cap DOMAIN Brings}

UpTo3 == {{a, b, c} : a, b, c \in Mention}
AboutJson == {words \cup more : words \in SUBSET JsonWords,
                                more \in {{}, {"product"}, {"product", "price", "availability"},
                                          {"order", "summary", "unknown order"}}}
Goals == {Closed(words) : words \in UpTo3 \cup AboutJson} \cup {{}}

GoalInputs ==
    {Input(planner, goal) : planner \in {"det-tools", "llm-mock"}, goal \in Goals}
    \cup {[Input(planner, goal) EXCEPT !.demo = demo, !.maxSteps = maxSteps] :
              planner \in {"mock", "deterministic", "det-replan", "det-replan2"},
              goal \in {{}, {"math"}, {"missingtool"}, {"price", "unknown product"}, {"long"}},
              demo \in {"core", "sandbox"}, maxSteps \in {3, 12}}
    \cup {[Input(planner, goal) EXCEPT !.lastErrorCode = code] :
              planner \in {"llm-mock", "det-replan2"}, goal \in {{}, {"missingtool"}},
              code \in {"TOOL_NOT_FOUND", LongToolError}}
    \cup {Input("llm-live", goal) : goal \in {{"long"}, {"long", "merge"}}}
    \cup {[Input("det-tools", {}) EXCEPT !.fault = fault] :
              fault \in {"body", "mode", "identity", "scope"}}

-----------------------------------------------------------------------------
(* Texts.                                                                  *)

Echo == ToolCall(1, "echo", "value" :> Text("hi"), "out")
Later(id) == ToolCall(id, "json/select-keys",
                      "text" :> Ref("out", << "value" >>) @@ "keys" :> Names(<< "name" >>), "then")
EchoUser == ToolCall(1, "echo", "value" :> User, "out")
Merge(id) == ToolCall(id, "json/merge", "left" :> Ref("out", << "value" >>) @@ "right" :> extraJson,
                      "then")

PlanTexts ==
    {PlanText(Plan(<< EchoUser, Merge(2) >>)), PlanText(Plan(<< Merge(2), EchoUser >>)),
     PlanText(Plan(<< Merge(Padded + 2), EchoUser >>)),
     PlanText(Plan(<< Merge(Padded + 1), EchoUser >>)), PlanText(Plan(<< >>)),
     PlanText(Plan(<< ToolLoop(1, "echo", "value" :> Number, "out", 0) >>)),
     PlanText(Plan(<< Set(1, "goal", Text("")) >>)),
     PlanText([Plan(<< Echo >>) EXCEPT !.version = 2]),
     [shape |-> "not JSON"]}

EchoStep(n, dependsOn) == PlannerStep(n, "echo", Object("value" :> Text("hi")), dependsOn)
AddStep(a) == PlannerStep(2, "math/add", Object("a" :> a @@ "b" :> Number), << 1 >>)

PromptTexts ==
    {PlannerOutput(<< EchoStep(1, << >>), AddStep(Number) >>),
     PlannerOutput(<< EchoStep(1, << >>), AddStep(Text("one")) >>),
     PlannerOutput(<< EchoStep(1, << >>),
                      PlannerStep(2, "echo", Object("value" :> Ref("llm_step_1", << >>)), << 1 >>) >>),
     PlannerOutput(<< PlannerStep(1, "echo", Object("value" :> Ref("", << >>)), << >>) >>),
     PlannerOutput(<< EchoStep(1, << 1 >>) >>), PlannerOutput(<< EchoStep(2, << >>) >>),
     PlannerOutput(<< EchoStep(1, << >>), EchoStep(2, << 1, 1 >>) >>),
     PlannerOutput(<< PlannerStep(1, "echo", Object("value" :> Infinite), << >>) >>),
     PlannerOutput(<< PlannerStep(1, TooLong, Object("value" :> Flag), << >>) >>),
     PlannerOutput(<< PlannerStep(1, PaddedName, Object("value" :> Flag), << >>) >>),
     PlannerOutput(<< PlannerStep(1, "nope/tool", Object("value" :> Flag), << >>) >>),
     PlannerOutput([i \in 1..3 |-> EchoStep(i, << >>)]),
     PlannerOutput([i \in 1..9 |-> EchoStep(i, << >>)]),
     Clarification("which?"), Clarification(""),
     [PlannerOutput(<< EchoStep(1, << >>) >>) EXCEPT !.shape = "unknown key"]}

Tool(name, schema) == [name |-> name, schema |-> schema]
AddSchema == Schema("object", {"a", "b"},
                    "a" :> OfType("integer") @@ "b" :> OfType("number"), FALSE)
EchoSchema == Schema("object", {"value"}, "value" :> OfType(AnyType), FALSE)

ToolLists == {<< >>, << Tool("math/add", AddSchema), Tool(PaddedName, EchoSchema) >>,
              << Tool("echo", NoSchema) >>,
             << Tool("nope/tool", OfType("object")), Tool(TooLong, OfType("object")) >>}

LiveText(format, text) ==
    [Input("llm-live", {}) EXCEPT !.llmProvider = "openai-compatible",
                                  !.llmPlanTextFormat = format, !.llmPlanText = text]
PlanInput(text) == LiveText("deterministic-agent-plan", text)
PromptInput(text, tools) ==
    [LiveText("planner-prompt-output", text) EXCEPT
         !.llmPlannerAvailableTools = tools, !.traceId = "t", !.journal = TRUE]

TextInputs ==
    {PlanInput(text) : text \in PlanTexts}
    \cup {[PlanInput(text) EXCEPT !.executionMode = "inline-queue"] :
              text \in {PlanText(Plan(<< Echo >>)), [shape |-> "not JSON"]}}
    \cup {[PromptInput(text, tools) EXCEPT !.maxSteps = maxSteps] :
              text \in PromptTexts, tools \in ToolLists, maxSteps \in {2, 12}}
    \cup {[PromptInput(PlannerOutput(<< EchoStep(1, << >>) >>), tools) EXCEPT
              !.traceId = "", !.llmVerifiedPlanId = planId] :
              tools \in ToolLists, planId \in {"mine", TooLong}}

-----------------------------------------------------------------------------
(* Caching and journals.                                                   *)

Asking(goal) == [Input("llm-live", goal) EXCEPT !.llmProvider = "openai-compatible"]

CacheInputs == {Asking({}), Input("llm-live", {"merge"})}

TwoSteps == CHOOSE text \in PromptTexts : text.steps # << >> /\ Len(text.steps) = 2
               /\ text.steps[2].tool = "math/add" /\ text.steps[2].parameters.fields["a"] = Number

JournalInputs ==
    {[PromptInput(TwoSteps, tools) EXCEPT !.journal = journal, !.traceId = "u"] :
         tools \in {<< >>, << Tool("math/add", AddSchema), Tool("echo", EchoSchema) >>},
         journal \in BOOLEAN}
    \cup {[Asking({}) EXCEPT !.journal = TRUE, !.traceId = "u"]}

PlanInputs == {PlanInput(text) : text \in PlanTexts}

MCInputs ==
    "goals" :> By(GoalInputs, {}, {}) @@
    "texts" :> By(TextInputs, {}, {}) @@
    "plans" :> By(PlanInputs, PlanInputs, {}) @@
    "caching" :> By({Asking({}), Input("llm-live", {})}, CacheInputs, CacheInputs) @@
    "journals" :> By({[Asking({}) EXCEPT !.journal = TRUE, !.traceId = "t"]}, {}, JournalInputs) @@
    "unconfigured" :> By({Asking({}), [Asking({}) EXCEPT !.executionMode = "inline-queue"]}, {}, {})

MCDemand == DOMAIN MCInputs

MCModelText == {PlanText(Plan(<< Echo >>)), PlanText(Plan(<< Increment(1, "n", 2) >>)),
                [shape |-> "not JSON"]}

AllInputs == UNION {MCInputs[d][r] : d \in MCDemand, r \in Request}
LiveInputs == {input \in AllInputs : Live(input) /\ input.fault = "none"}

MCKey == {computeKey(input) : input \in LiveInputs}

MCBody == {plan.value : plan \in {p \in {PlanMade(input) : input \in LiveInputs}
                                     \cup {parseDeterministicPlanFromModelText(text) :
                                               text \in MCModelText} : p.ok}}
=============================================================================
