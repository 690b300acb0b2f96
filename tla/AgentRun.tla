------------------------------ MODULE AgentRun ------------------------------
(***************************************************************************)
(* POST /agent/run: src/http/handlers/agent-run.ts over the planners, the  *)
(* live planner with its cache and its model, the inline queue and the     *)
(* execution of the plan.                                                  *)
(*                                                                         *)
(* A handler only lets go of the event loop while it waits for the model:  *)
(* everything else it does, the saving of a plan included, is synchronous. *)
(* Other servers run on, so the system calls of a save are steps.          *)
(* Requests run in mode mock; what a browser adds is BrowserSandbox.       *)
(***************************************************************************)
EXTENDS GoalPlanner, PlannerPrompt, PlanCache, PlannerSink

CONSTANTS ServerOf,     \* ServerOf[r]: the server request r is sent to
          Demand,       \* what clients may ask and the operator configured
          Inputs,       \* Inputs[d][r]: the inputs request r may have under d
          Configured,   \* the demands under which a model is configured
          ModelText,    \* what the model may answer with
          MaxCrashes    \* bound on crashes

VARIABLES demand,       \* the demand of this behaviour
          req,          \* req[r]: where the handler of r stands
          contended,    \* keys two requests planned for at once
          crashes       \* crashes so far

ASSUME ServerAssumption == Server = Process /\ ServerOf \in [Request -> Server]

vars == << demand, req, contended, crashes, cacheVars, sinkVars >>

NoText == [shape |-> "none"]

-----------------------------------------------------------------------------
(* Requests.  fault is the first thing wrong with a body: with a field,    *)
(* with the execution mode, with the identity or with its scopes.          *)

Live(input) == input.planner = "llm-live"

(* Mutant of computeKey: the goal left out.                                *)
computeKeyWithoutGoal(input) ==
    << input.llmProvider, input.demo, input.lastErrorCode, input.llmPlanText >>

computeKey(input) ==
    << input.llmProvider, input.goal, input.demo, input.lastErrorCode, input.llmPlanText >>

ModelGiven(input) == input.llmProvider = "openai-compatible"
TextGiven(input) == ModelGiven(input) /\ input.llmPlanText # NoText

(* What a live request makes a plan of when it does not ask the model.     *)
PlanMade(input) ==
    IF TextGiven(input)
    THEN materializePlanFromLlmPlanText(input.llmPlanTextFormat, input.llmPlanText,
                                        input.llmPlannerAvailableTools, input.maxSteps,
                                        input.llmVerifiedPlanId).result
    ELSE buildPlanViaMockProvider(input.goal)

(* The cache has a key for every live request and room for every plan.     *)
ASSUME KeyAssumption ==
    \A d \in Demand, r \in Request : \A input \in Inputs[d][r] :
        Live(input) /\ input.fault = "none" => computeKey(input) \in Key

ASSUME BodyAssumption ==
    /\ \A d \in Demand, r \in Request : \A input \in Inputs[d][r] :
          Live(input) /\ input.fault = "none" /\ PlanMade(input).ok =>
              PlanMade(input).value \in Body
    /\ \A text \in ModelText :
          LET plan == parseDeterministicPlanFromModelText(text)
          IN  plan.ok => plan.value \in Body

PlanGiven(input) ==
    Live(input) /\ TextGiven(input) /\ input.llmPlanTextFormat # "planner-prompt-output"

(* The bound on steps is a number.                                         *)
ASSUME InputAssumption ==
    \A d \in Demand, r \in Request : \A input \in Inputs[d][r] :
        input.fault = "none" => input.maxSteps \in Nat

(* parseAgentRunInput lets no other planner through.                       *)
Planner == {"mock", "deterministic", "det-tools", "det-replan", "det-replan2", "llm-mock",
            "llm-live"}

ASSUME PlannerAssumption ==
    \A d \in Demand, r \in Request : \A input \in Inputs[d][r] :
        input.fault = "none" => input.planner \in Planner

ASSUME RequestAssumption == Nobody \notin Request

Waiting == [at |-> "waiting"]
Started(at, input, planned) ==
    [at |-> at, input |-> input, planned |-> planned, previous |-> Nobody, after |-> {}]

At(r, step) == req[r].at = step
Planning(r) == req[r].at \in {"asking", "saving"}
Answered(r) == At(r, "answered")

(* Mutant of Awake: a save lets the server go on with other requests.      *)
AwakeWhileSaving(s) == s \in Server

(* A server whose handler is saving does nothing else.                     *)
Awake(s) == \A r \in Request : ServerOf[r] = s => ~ At(r, "saving")

Init ==
    /\ demand \in Demand
    /\ req = [r \in Request |-> Waiting]
    /\ contended = {}
    /\ crashes = 0
    /\ CacheInit
    /\ SinkInit

-----------------------------------------------------------------------------
(* Planners that never wait.                                               *)

PlanOfLlmMock(input, lastErrorCode) == LlmMockPlanner(input.goal, lastErrorCode)

(* det-replan2: a run of the mock model, and another one told of the       *)
(* tool's error.                                                           *)
ToldOf(input, first, code) ==
    IF IsToolError(code) THEN PlanOfLlmMock(input, code) ELSE first

CodeOf(run) == IF run.ok THEN "none" ELSE run.code

Tried(input, first) ==
    IF first.ok THEN ToldOf(input, first, CodeOf(runAgent(first.value, input.maxSteps))) ELSE first

Replanned2(input) == Tried(input, PlanOfLlmMock(input, input.lastErrorCode))

selectPlanner(input) ==
    CASE input.planner = "det-tools" -> DetToolsPlanner(input.goal)
      [] input.planner = "llm-mock" -> PlanOfLlmMock(input, input.lastErrorCode)
      [] input.planner = "mock" -> Gives(MockPlanner(input.goal, input.demo))
      [] input.planner = "det-replan2" -> Replanned2(input)
      [] input.planner \in {"deterministic", "det-replan"} ->
             Gives(DeterministicPlanner(input.goal, input.demo))

-----------------------------------------------------------------------------
(* Answers.                                                                *)

(* normalizeLlmLivePlannerError.  The queue wraps what its task throws, so *)
(* that the handler no longer knows it.                                    *)
LlmLiveCode(input, error) ==
    CASE Live(input) /\ input.executionMode = "direct" /\ error = "llm_live_not_configured" ->
             "LLM_LIVE_NOT_CONFIGURED"
      [] Live(input) /\ input.executionMode = "direct" /\ error = "llm_live_invalid_plan_text" ->
             "LLM_LIVE_INVALID_PLAN_TEXT"
      [] OTHER -> "none"

Reply(status, ok, code) == [status |-> status, ok |-> ok, code |-> code]

(* The reply follows from the plan, or the error, planning ended with.     *)
ReplyOfRun(run) == Reply(200, run.ok, run.code)

sendJson(input, planned) ==
    LET code == LlmLiveCode(input, planned.error)
    IN  IF input.fault # "none"
        THEN Reply(IF input.fault = "scope" THEN 403 ELSE 400, FALSE, input.fault)
        ELSE IF planned.ok THEN ReplyOfRun(runAgent(planned.value, input.maxSteps))
        ELSE IF code # "none" THEN Reply(200, FALSE, code)
        ELSE Reply(500, FALSE, "INTERNAL_ERROR")

AnsweredSoFar == {q \in Request : Answered(q)}

Begin(r, at, input, planned) ==
    req' = [req EXCEPT ![r] = [Started(at, input, planned) EXCEPT
                                   !.previous = sink[ServerOf[r]], !.after = AnsweredSoFar]]

Contending(r, k) ==
    {j \in {k} : \E q \in Request \ {r} : Planning(q) /\ computeKey(req[q].input) = k}

(* A handler that is through in one go leaves the sink as it found it.     *)
AnswerAtOnce(r, input, planned) ==
    /\ Begin(r, "answered", input, planned)
    /\ UNCHANGED << sink, mixed, contended, cacheVars >>

(* A handler that goes on keeps its sink installed.                        *)
GoOn(r, at, input, planned) ==
    /\ Begin(r, at, input, planned)
    /\ IF input.journal THEN Install(ServerOf[r], r) ELSE UNCHANGED << sink, mixed >>
    /\ contended' = contended \cup Contending(r, computeKey(input))
    /\ UNCHANGED cacheVars

SessionOf(input) == SessionId(input.traceId, input.llmVerifiedPlanId)

(* The sink an event of r finds: its own, or the one left installed.       *)
EmitBy(r, input, events) ==
    LET other == sink[ServerOf[r]]
    IN  IF events = << >> THEN UNCHANGED handed
        ELSE IF input.journal
        THEN Emit(r, input.traceId, SessionOf(input), events)
        ELSE IF other = Nobody THEN UNCHANGED handed
        ELSE Emit(r, input.traceId, SessionOf(req[other].input), events)

-----------------------------------------------------------------------------
(* A request arrives.                                                      *)

Accepts(r) == At(r, "waiting") /\ Awake(ServerOf[r])

Refuse(r, input) ==
    /\ Accepts(r) /\ input.fault # "none"
    /\ AnswerAtOnce(r, input, Fails(input.fault))
    /\ UNCHANGED << demand, crashes, handed >>

AnswerOutright(r, input) ==
    /\ Accepts(r) /\ input.fault = "none" /\ ~ Live(input)
    /\ AnswerAtOnce(r, input, selectPlanner(input))
    /\ UNCHANGED << demand, crashes, handed >>

AcceptsLive(r, input) == Accepts(r) /\ input.fault = "none" /\ Live(input)

(* The text of the request is used before the cache is looked at.          *)
PlanFromText(r, input) ==
    /\ AcceptsLive(r, input) /\ TextGiven(input)
    /\ LET made == materializePlanFromLlmPlanText(input.llmPlanTextFormat, input.llmPlanText,
                                                  input.llmPlannerAvailableTools, input.maxSteps,
                                                  input.llmVerifiedPlanId)
       IN  /\ IF made.result.ok THEN GoOn(r, "saving", input, made.result)
                                ELSE AnswerAtOnce(r, input, made.result)
           /\ EmitBy(r, input, made.events)
    /\ UNCHANGED << demand, crashes >>

(* loadCachedPlan: JSON.parse throws on an entry that is not whole.        *)
PlanFromCache(r, input) ==
    LET entry == final[computeKey(input)] IN
    /\ AcceptsLive(r, input) /\ ~ TextGiven(input)
    /\ entry # Absent
    /\ AnswerAtOnce(r, input, IF IsWhole(entry) THEN Gives(entry.body) ELSE Fails("SyntaxError"))
    /\ UNCHANGED << demand, crashes, handed >>

Misses(r, input) ==
    /\ AcceptsLive(r, input) /\ ~ TextGiven(input)
    /\ final[computeKey(input)] = Absent

PlanByMockProvider(r, input) ==
    LET plan == buildPlanViaMockProvider(input.goal) IN
    /\ Misses(r, input) /\ ~ ModelGiven(input)
    /\ IF plan.ok THEN GoOn(r, "saving", input, plan) ELSE AnswerAtOnce(r, input, plan)
    /\ UNCHANGED << demand, crashes, handed >>

AskModel(r, input) ==
    /\ Misses(r, input) /\ ModelGiven(input)
    /\ IF demand \in Configured THEN GoOn(r, "asking", input, Fails("pending"))
                            ELSE AnswerAtOnce(r, input, Fails("llm_live_not_configured"))
    /\ UNCHANGED << demand, crashes, handed >>

Receive(r, input) ==
    \/ Refuse(r, input) \/ AnswerOutright(r, input)
    \/ PlanFromText(r, input) \/ PlanFromCache(r, input)
    \/ PlanByMockProvider(r, input) \/ AskModel(r, input)

-----------------------------------------------------------------------------
(* A request that waited goes on.                                          *)

(* The end of the handler: its sink goes, the reply is sent.               *)
Finish(r, planned) ==
    /\ req' = [req EXCEPT ![r].at = "answered", ![r].planned = planned]
    /\ IF req[r].input.journal THEN Restore(ServerOf[r], req[r].previous) ELSE UNCHANGED sink
    /\ UNCHANGED << handed, mixed >>

Resumes(r) == At(r, "asking") /\ Awake(ServerOf[r])

ModelAnswers(r, text) ==
    LET plan == parseDeterministicPlanFromModelText(text) IN
    /\ Resumes(r)
    /\ IF plan.ok
       THEN /\ req' = [req EXCEPT ![r].at = "saving", ![r].planned = plan]
            /\ UNCHANGED sinkVars
       ELSE Finish(r, plan)
    /\ UNCHANGED << demand, crashes, contended, cacheVars >>

(* The adapter throws: no connection, a status, 30 seconds without answer. *)
ModelFails(r) ==
    /\ Resumes(r)
    /\ Finish(r, Fails("openai_compatible_error"))
    /\ UNCHANGED << demand, crashes, contended, cacheVars >>

(* Mutant of SaveOpens: a save waits for a temporary file that is there.   *)
SaveOpensExclusively(r) ==
    /\ At(r, "saving")
    /\ tmp[computeKey(req[r].input)] = Absent
    /\ CacheOpen(ServerOf[r], computeKey(req[r].input), req[r].planned.value)
    /\ UNCHANGED << demand, req, crashes, contended, sinkVars >>

SaveOpens(r) ==
    /\ At(r, "saving")
    /\ CacheOpen(ServerOf[r], computeKey(req[r].input), req[r].planned.value)
    /\ UNCHANGED << demand, req, crashes, contended, sinkVars >>

SaveWrites(r) ==
    /\ At(r, "saving")
    /\ CacheWrite(ServerOf[r])
    /\ UNCHANGED << demand, req, crashes, contended, sinkVars >>

SaveRenames(r) ==
    /\ At(r, "saving")
    /\ CacheRename(ServerOf[r])
    /\ Finish(r, req[r].planned)
    /\ UNCHANGED << demand, crashes, contended >>

SaveRenameFails(r) ==
    /\ At(r, "saving")
    /\ CacheRenameFails(ServerOf[r])
    /\ Finish(r, Fails("ENOENT"))
    /\ UNCHANGED << demand, crashes, contended >>

(* A server dies and is started again: its requests get no answer, its     *)
(* sink is gone, its files stay.                                           *)
Crash(s) ==
    /\ crashes < MaxCrashes
    /\ \E r \in Request : ServerOf[r] = s /\ Planning(r)
    /\ crashes' = crashes + 1
    /\ req' = [r \in Request |->
                  IF ServerOf[r] = s /\ Planning(r) THEN [req[r] EXCEPT !.at = "lost"] ELSE req[r]]
    /\ sink' = [sink EXCEPT ![s] = Nobody]
    /\ CacheDie(s)
    /\ UNCHANGED << demand, contended, handed, mixed >>

Answers(r) == \/ \E text \in ModelText : ModelAnswers(r, text)
              \/ ModelFails(r)

Saves(r) == SaveOpens(r) \/ SaveWrites(r) \/ SaveRenames(r) \/ SaveRenameFails(r)

Next ==
    \/ \E r \in Request :
          \/ \E input \in Inputs[demand][r] : Receive(r, input)
          \/ Answers(r)
          \/ Saves(r)
    \/ \E s \in Server : Crash(s)

(* The adapter gives up after 30 seconds, and a process that is running    *)
(* gets through its system calls.                                          *)
Fairness == \A r \in Request : WF_vars(Answers(r)) /\ WF_vars(Saves(r))

Spec == Init /\ [][Next]_vars /\ Fairness

-----------------------------------------------------------------------------

States == {"waiting", "asking", "saving", "answered", "lost"}

(* Type invariant, with what ties a handler's place to the save it is in:  *)
(* a server saves for one of its requests at most, and only while that     *)
(* request is at it.                                                       *)
TypeOK ==
    /\ demand \in Demand
    /\ \A r \in Request : /\ req[r].at \in States
                          /\ ~ At(r, "waiting") => req[r].input \in Inputs[demand][r]
    /\ CacheTypeOK
    /\ \A s \in Server :
          /\ sink[s] \in Request \cup {Nobody}
          /\ Cardinality({r \in Request : ServerOf[r] = s /\ At(r, "saving")}) <= 1
          /\ writer[s] # Idle =>
                 \E r \in Request : /\ ServerOf[r] = s /\ At(r, "saving")
                                    /\ writer[s].body = req[r].planned.value
    /\ contended \subseteq Key

Ran(r) == Answered(r) /\ req[r].input.fault = "none"
ReplyTo(r) == sendJson(req[r].input, req[r].planned)
RunOf(r) == runAgent(req[r].planned.value, req[r].input.maxSteps)

(* What an overlap of saves does to a request of its key.                  *)
HitByOverlap(r) ==
    /\ Live(req[r].input) /\ computeKey(req[r].input) \in overlapped
    /\ ~ req[r].planned.ok /\ req[r].planned.error \in {"SyntaxError", "ENOENT"}

(* The plan holds a string over its maximum length: the goal as a value,   *)
(* or a client's error code in the plan id.                                *)
HoldsTooMuch(input) ==
    \/ "long" \in input.goal
    \/ input.planner \in {"llm-mock", "det-replan2"} /\ input.lastErrorCode = LongToolError

RunsToItsEnd(input, reply) ==
    \/ reply.ok
    \/ reply.code = "PLAN_EXCEEDS_MAX_STEPS"
    \/ HoldsTooMuch(input) /\ reply.code = "PLAN_CANONICALIZATION_FAILED"
    \/ /\ "missingtool" \in input.goal
       /\ input.planner \in {"det-tools", "llm-mock"}
       /\ reply.code = "TOOL_NOT_FOUND"

(* Whatever a goal asks for, the plan the planners make of it runs to its  *)
(* end: the inserted capabilities, the references between the steps and    *)
(* the ids that order them fit together.  Left are the bound on the steps, *)
(* a goal or an error code of the client too long for a plan (the set step *)
(* that stores the goal takes 4096 characters), the missing tool a goal    *)
(* can ask for (which det-replan2 gets over) and saves that overlapped.    *)
BuiltPlansRun ==
    \A r \in Request :
        Ran(r) /\ ~ (Live(req[r].input) /\ ModelGiven(req[r].input)) =>
            RunsToItsEnd(req[r].input, ReplyTo(r)) \/ HitByOverlap(r)

PromptGiven(input) ==
    Live(input) /\ TextGiven(input) /\ input.llmPlanTextFormat = "planner-prompt-output"

Verified(input) ==
    verifyLlmLivePlannerPromptText(input.llmPlanText, input.llmPlannerAvailableTools,
                                   input.maxSteps).ok

(* What the verifier lets pass and a canonical plan does not hold: a plan  *)
(* id or a tool's name that is too long, an argument that is no finite     *)
(* JSON and a reference that names nothing.                                *)
BeyondTheBridge(input) ==
    \/ input.llmVerifiedPlanId = TooLong
    \/ \E i \in DOMAIN input.llmPlanText.steps :
          LET step == input.llmPlanText.steps[i]
          IN  \/ step.tool = TooLong
              \/ \E argument \in DOMAIN step.parameters.fields :
                    step.parameters.fields[argument] \in {Undefined, Infinite, Ref("", << >>)}

(* A planner output that passed the verifier becomes a plan: the bridge    *)
(* takes it, and policy, canonicalization and the bound on steps accept    *)
(* it, so that all that can go wrong with it are its tools (and saves that *)
(* overlapped).  The exception is what the verifier does not look for: the *)
(* bridge throws an error of its own on it, which nothing expects and is   *)
(* answered as an internal one.                                            *)
VerifiedPlansAreAccepted ==
    \A r \in Request :
        Ran(r) /\ PromptGiven(req[r].input) /\ Verified(req[r].input) =>
            \/ HitByOverlap(r)
            \/ IF BeyondTheBridge(req[r].input)
               THEN ReplyTo(r) = Reply(500, FALSE, "INTERNAL_ERROR")
               ELSE /\ ReplyTo(r).status = 200
                    /\ ReplyTo(r).code \notin {"PLAN_VALIDATION_FAILED",
                                               "PLAN_CANONICALIZATION_FAILED",
                                               "PLAN_EXCEEDS_MAX_STEPS"}

StepsAsNamed(plan) == {[step EXCEPT !.id = normalizedId(@)] : step \in ToSet(plan.steps)}

(* Two plans that differ in the order of their steps and in the blanks     *)
(* around their ids.                                                       *)
SamePlan(one, two) ==
    /\ one.planId = two.planId /\ one.version = two.version
    /\ isArray(one.steps) /\ isArray(two.steps) /\ Len(one.steps) = Len(two.steps)
    /\ StepsAsNamed(one) = StepsAsNamed(two)

SamePlanGiven(a, b) ==
    /\ PlanGiven(a) /\ PlanGiven(b) /\ a.maxSteps = b.maxSteps
    /\ a.llmPlanText.shape = OK /\ b.llmPlanText.shape = OK
    /\ SamePlan(a.llmPlanText.plan, b.llmPlanText.plan)

HashesOf(run) == IF run.ok THEN resultHashes(run.result) ELSE [code |-> run.code]
Outcome(r) == IF req[r].planned.ok THEN HashesOf(RunOf(r)) ELSE [error |-> req[r].planned.error]

(* The order in which a model lists the steps, and blanks around their     *)
(* ids, make no difference: not to what becomes of the plan, and not to    *)
(* the hashes of its run.                                                  *)
ListingOrderIsIrrelevant ==
    \A q, r \in Request :
        Ran(q) /\ Ran(r) /\ SamePlanGiven(req[q].input, req[r].input) =>
            \/ HitByOverlap(q) \/ HitByOverlap(r)
            \/ Outcome(q) = Outcome(r)

ProjectedKeys == {"domainResult", "canonicalResponse"}

OnlyProjected(answer, hashed) ==
    /\ answer.counters = hashed.counters /\ answer.logs = hashed.logs
    /\ DOMAIN answer.values \ ProjectedKeys = DOMAIN hashed.values \ ProjectedKeys
    /\ \A key \in DOMAIN answer.values \ ProjectedKeys : answer.values[key] = hashed.values[key]

ReplaysUnlessProjected(plan, recorded) ==
    LET answer == recorded.finalState
        hashed == recorded.executionHash.state
    IN  /\ verifyExecutionReplay(plan, recorded) <=> answer = hashed
        /\ DomainKeys(hashed.values) = << >> => answer = hashed
        /\ OnlyProjected(answer, hashed)

ConfirmedByReplay(plan, run) == run.ok => ReplaysUnlessProjected(plan, run.result)

(* verifyExecutionReplay confirms the recording an answer is, except where *)
(* the answer carries a domain result: runAgent adds that to the final     *)
(* state after the hashes were made, when a lookup found something, and    *)
(* changes nothing else.                                                   *)
RecordingReplays ==
    \A r \in Request :
        Ran(r) /\ req[r].planned.ok => ConfirmedByReplay(req[r].planned.value, RunOf(r))

SameQuestion(a, b) ==
    /\ << a.llmProvider, a.goal, a.demo, a.lastErrorCode >>
         = << b.llmProvider, b.goal, b.demo, b.lastErrorCode >>
    /\ ~ TextGiven(a) /\ ~ TextGiven(b)

(* A plan from the cache is the plan of the question asked: for the mock   *)
(* provider the one it would make, for the model the one an earlier        *)
(* request was answered with, unless two of them were asking at once.      *)
CacheAnswersTheQuestion ==
    \A r \in Request :
        Ran(r) /\ Live(req[r].input) /\ ~ TextGiven(req[r].input) /\ req[r].planned.ok =>
            /\ ModelGiven(req[r].input) \/
                   req[r].planned = buildPlanViaMockProvider(req[r].input.goal)
            /\ \A q \in req[r].after :
                   /\ Ran(q) /\ Live(req[q].input) /\ req[q].planned.ok
                   /\ SameQuestion(req[q].input, req[r].input)
                   /\ computeKey(req[r].input) \notin contended
                   => req[q].planned = req[r].planned

Story(types) == << "received" >> \o types

(* The events of r: one after the other from place n on, under the session *)
(* of r.                                                                   *)
Tells(r, n, types) ==
    /\ {i \in DOMAIN handed : handed[i].by = r} = (n + 1)..(n + Len(types))
    /\ \A i \in DOMAIN types :
          /\ handed[n + i].type = types[i]
          /\ handed[n + i].sessionId = SessionOf(req[r].input)

PlannedForStory(r) ==
    At(r, "lost") \/ req[r].planned.ok \/ req[r].planned.error = "ENOENT"

StoryOf(r) ==
    IF PlannedForStory(r) THEN Story(<< "verified", "created_plan" >>) ELSE Story(<< "rejected" >>)

(* A request with a journal leaves the whole story of its planner output   *)
(* under its own session and in one piece, created_plan where it got a     *)
(* plan and rejected where it did not, whatever other requests do          *)
(* meanwhile; and once nobody waits no sink is left to catch the events of *)
(* later requests, unless requests with a sink overlapped.                 *)
PlannerStoryKept ==
    /\ \A r \in Request :
          (/\ ~ At(r, "waiting") /\ req[r].input.fault = "none"
           /\ req[r].input.journal /\ PromptGiven(req[r].input)) =>
              \E n \in 0..Len(handed) : Tells(r, n, StoryOf(r))
    /\ \A s \in Server \ mixed :
          (\A r \in Request : ServerOf[r] = s => ~ Planning(r)) => sink[s] = Nobody

(* Every request that started gets its answer, or its server crashed.      *)
EveryRequestAnswered ==
    \A r \in Request : Planning(r) ~> (Answered(r) \/ At(r, "lost"))

-----------------------------------------------------------------------------
(* What the properties follow from.                                        *)

RequestOK(r) ==
    \/ req[r] = Waiting
    \/ /\ DOMAIN req[r] = {"at", "input", "planned", "previous", "after"}
       /\ req[r].at \in States \ {"waiting"}
       /\ req[r].input \in Inputs[demand][r]
       /\ req[r].previous \in Request \cup {Nobody}
       /\ Planning(r) => Live(req[r].input) /\ req[r].input.fault = "none"
       /\ At(r, "asking") => ModelGiven(req[r].input) /\ ~ TextGiven(req[r].input)
       /\ At(r, "saving") => \E body \in Body : req[r].planned = Gives(body)

OneSaving ==
    \A q, r \in Request :
        At(q, "saving") /\ At(r, "saving") /\ ServerOf[q] = ServerOf[r] => q = r

(* A server in a save has the handler that saves, its key and its plan.    *)
SavesOf(r, s) ==
    /\ ServerOf[r] = s /\ At(r, "saving")
    /\ writer[s].key = computeKey(req[r].input)
    /\ req[r].planned = Gives(writer[s].body)

AgentInv ==
    /\ demand \in Demand
    /\ DOMAIN req = Request
    /\ \A r \in Request : RequestOK(r)
    /\ sink \in [Server -> Request \cup {Nobody}]
    /\ contended \subseteq Key
    /\ OneSaving
    /\ \A s \in Server : writer[s] # Idle => \E r \in Request : SavesOf(r, s)
    /\ CacheInv

(* Whatever is saved under a question to the mock provider is its plan.    *)
PlanOfMock(k, body) ==
    k[1] # "openai-compatible" => Gives(body) = buildPlanViaMockProvider(k[2])

AsksWithoutText(r) ==
    /\ ~ At(r, "waiting") /\ req[r].input.fault = "none"
    /\ Live(req[r].input) /\ ~ TextGiven(req[r].input)

HasPlan(r) == AsksWithoutText(r) /\ Answered(r) /\ req[r].planned.ok

KeyOf(r) == computeKey(req[r].input)

MockPlansAreCached ==
    /\ \A k \in Key : \A body \in Body :
          Whole(body) \in {tmp[k], final[k]} => PlanOfMock(k, body)
    /\ \A r \in Request :
          (AsksWithoutText(r) /\ ~ ModelGiven(req[r].input) /\ req[r].planned.ok) =>
              req[r].planned = buildPlanViaMockProvider(req[r].input.goal)

(* Of a key no two requests planned for at once there is one request that  *)
(* plans, or an answered one whose plan is the entry.                      *)
OnePlans ==
    \A q, r \in Request :
        Planning(q) /\ Planning(r) /\ KeyOf(q) = KeyOf(r) => q = r \/ KeyOf(r) \in contended

EntryIsTheAnswer ==
    \A r \in Request :
        (HasPlan(r) /\ KeyOf(r) \notin contended) =>
            /\ \E body \in Body : req[r].planned = Gives(body) /\ final[KeyOf(r)] = Whole(body)
            /\ \A q \in Request : Planning(q) => KeyOf(q) # KeyOf(r)

EntryIsAwaited ==
    \A r \in Request :
        (Planning(r) /\ AsksWithoutText(r) /\ KeyOf(r) \notin contended) => final[KeyOf(r)] = Absent

AnsweredBefore ==
    \A r \in Request : ~ At(r, "waiting") => \A q \in req[r].after :
        /\ q \in Request /\ Answered(q)
        /\ (Planning(r) /\ HasPlan(q) /\ KeyOf(q) = KeyOf(r)) => KeyOf(r) \in contended

QuestionInv ==
    /\ MockPlansAreCached
    /\ overlapped \subseteq contended
    /\ OnePlans
    /\ EntryIsTheAnswer
    /\ EntryIsAwaited
    /\ AnsweredBefore
    /\ CacheAnswersTheQuestion

(* A request that is not left to the model has the plan its planner makes, *)
(* or lost it to an overlap of saves.                                      *)
NeedsNoModel(input) == Live(input) /\ ModelGiven(input) => TextGiven(input)
PlannedFor(input) == IF Live(input) THEN PlanMade(input) ELSE selectPlanner(input)

PlansAreMade ==
    \A r \in Request :
        (/\ ~ At(r, "waiting") /\ req[r].input.fault = "none"
         /\ NeedsNoModel(req[r].input)) =>
            req[r].planned = PlannedFor(req[r].input) \/ HitByOverlap(r)

(* A sink that is installed is that of a request that waits, and the only  *)
(* one with a sink where none overlapped.                                  *)
SinkIsOwned ==
    /\ \A s \in Server : sink[s] # Nobody /\ s \notin mixed =>
          Planning(sink[s]) /\ ServerOf[sink[s]] = s /\ req[sink[s]].input.journal
    /\ \A r \in Request :
          (Planning(r) /\ req[r].input.journal /\ ServerOf[r] \notin mixed) =>
              sink[ServerOf[r]] = r /\ req[r].previous = Nobody

StoryInv ==
    /\ SinkIsOwned
    /\ handed \in Seq(ToSet(handed))
    /\ \A r \in Request : At(r, "waiting") => \A i \in DOMAIN handed : handed[i].by # r
    /\ PlannerStoryKept
=============================================================================
