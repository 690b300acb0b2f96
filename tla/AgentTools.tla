----------------------------- MODULE AgentTools -----------------------------
(***************************************************************************)
(* What a step of a plan does to the state of an execution: the tools of   *)
(* src/agent/tools, the references in a tool's input and applyMockStep     *)
(* (src/agent/mock-adapter.ts).                                            *)
(*                                                                         *)
(* A value is its JSON shape.  A string is text; it carries the value it   *)
(* decodes to when it is the JSON of one, and the words a lookup is about  *)
(* when it names a product or an order.  Scalars other than strings are    *)
(* numbers, flags or null without their amount: no step branches on it.    *)
(* The input of a tool is a function from argument names to values or      *)
(* references; references deeper inside an argument, and an input that is  *)
(* one reference as a whole, are left out.                                 *)
(***************************************************************************)
EXTENDS Naturals, Sequences, SequencesExt, TLC

NotJson == [is |-> "nothing"]
Text(word) == [is |-> "text", word |-> word, json |-> NotJson]
JsonText(v) == [is |-> "text", word |-> "json", json |-> v]
Number == [is |-> "number"]
Flag == [is |-> "boolean"]
Null == [is |-> "null"]
Object(fields) == [is |-> "object", fields |-> fields]
Names(names) == [is |-> "names", names |-> names]     \* a path, or a list of keys

IsText(v) == v.is = "text"
IsObject(v) == v.is = "object"
IsEncodedObject(v) == IsText(v) /\ IsObject(v.json)

Ref(key, path) == [is |-> "ref", key |-> key, path |-> path]
IsRef(v) == v.is = "ref"

Fails(message) == [ok |-> FALSE, error |-> message]
Gives(v) == [ok |-> TRUE, value |-> v]

Put(f, x, v) == [y \in DOMAIN f \cup {x} |-> IF y = x THEN v ELSE f[y]]

-----------------------------------------------------------------------------
(* The catalog.  Every capability has one tool.                            *)

Lookup == {"catalog/availability-find", "catalog/price-find", "catalog/product-find",
           "kb/find-by-product-name", "orders/find-by-id"}

ToolId == Lookup \cup {"echo", "json/extract", "json/merge", "json/select-keys",
                       "math/add", "text/normalize"}

resolveToolIdForCapability(capability) ==
    CASE capability = "catalog.availability-find" -> "catalog/availability-find"
      [] capability = "catalog.price-find" -> "catalog/price-find"
      [] capability = "catalog.product-find" -> "catalog/product-find"
      [] capability = "echo" -> "echo"
      [] capability = "json.extract" -> "json/extract"
      [] capability = "json.merge" -> "json/merge"
      [] capability = "json.select" -> "json/select-keys"
      [] capability = "kb.find-by-product-name" -> "kb/find-by-product-name"
      [] capability = "math.add" -> "math/add"
      [] capability = "orders.find-by-id" -> "orders/find-by-id"
      [] capability = "text.normalize" -> "text/normalize"

(* The data files hold the words "known"; a lookup of any other finds      *)
(* nothing.  What is found carries the name under the field "found".       *)
Found(input, argument, fields) ==
    IF input[argument].word = "known"
    THEN Object([found |-> Text("true"), record |-> fields])
    ELSE Object([found |-> Text("false"), record |-> Null])

LookupArgument(toolId) == IF toolId = "orders/find-by-id" THEN "orderId" ELSE "productName"

(* json_extract.ts: the value a path of field names leads to.              *)
FieldOf(found, field, notFound) ==
    IF found.ok /\ IsObject(found.value) /\ field \in DOMAIN found.value.fields
    THEN Gives(found.value.fields[field])
    ELSE Fails(notFound)

extractPath(v, path, notFound) ==
    LET found[n \in 0..Len(path)] ==
            IF n = 0 THEN Gives(v) ELSE FieldOf(found[n - 1], path[n], notFound)
    IN  found[Len(path)]

validateInput(toolId, input) ==
    LET given(argument) == argument \in DOMAIN input
        text(argument) == given(argument) /\ IsText(input[argument])
        names(argument) == given(argument) /\ input[argument].is = "names"
        flag(argument) == given(argument) => input[argument] = Flag
        textOrObject(argument) ==
            given(argument) /\ (IsText(input[argument]) \/ IsObject(input[argument]))
    IN  CASE toolId \in Lookup -> text(LookupArgument(toolId))
          [] toolId = "echo" -> given("value")
          [] toolId = "json/extract" -> text("text") /\ names("path")
          [] toolId = "json/merge" -> textOrObject("left") /\ textOrObject("right")
          [] toolId = "json/select-keys" -> textOrObject("text") /\ names("keys")
          [] toolId = "math/add" ->
                 \A argument \in {"a", "b"} : given(argument) /\ input[argument] = Number
          [] toolId = "text/normalize" ->
                 text("text") /\ \A argument \in {"trim", "lowercase", "collapseWhitespace"} :
                                    flag(argument)

(* The object an argument is or encodes.                                   *)
Decoded(v) == IF IsText(v) THEN v.json ELSE v
DecodesToObject(v) == IsObject(Decoded(v))

Merged(left, right) == Object(right.fields @@ left.fields)
Selected(v, keys) ==
    Object([key \in DOMAIN v.fields \cap keys |-> v.fields[key]])

toolRun(toolId, input) ==
    CASE toolId \in Lookup ->
             Gives(Found(input, LookupArgument(toolId), Object([name |-> Text("known")])))
      [] toolId = "echo" -> Gives(Object([value |-> input["value"]]))
      [] toolId = "json/extract" ->
             IF input["text"].json = NotJson THEN Fails("json_extract_invalid_json")
             ELSE LET r == extractPath(input["text"].json, input["path"].names,
                                       "json_extract_path_not_found")
                  IN  IF r.ok THEN Gives(Object([value |-> r.value])) ELSE r
      [] toolId = "json/merge" ->
             IF DecodesToObject(input["left"]) /\ DecodesToObject(input["right"])
             THEN Gives(Object([value |-> Merged(Decoded(input["left"]), Decoded(input["right"]))]))
             ELSE Fails("json_merge_must_be_object")
      [] toolId = "json/select-keys" ->
             IF DecodesToObject(input["text"])
             THEN Gives(Object([value |-> Selected(Decoded(input["text"]),
                                                   ToSet(input["keys"].names))]))
             ELSE Fails("json_select_keys_root_must_be_object")
      [] toolId = "math/add" -> Gives(Object([sum |-> Number]))
      [] toolId = "text/normalize" -> Gives(Object([text |-> input["text"]]))

(* ToolRegistry.run.                                                       *)
registryRun(toolId, input) ==
    CASE toolId \notin ToolId -> Fails("tool_not_found")
      [] toolId \in ToolId /\ ~ validateInput(toolId, input) -> Fails("tool_invalid_input")
      [] OTHER -> toolRun(toolId, input)

-----------------------------------------------------------------------------
(* References into the values stored by earlier steps.                     *)

resolveRef(ref, values) ==
    CASE ref.key \notin DOMAIN values -> Fails("tool_input_ref_not_found")
      [] ref.key \in DOMAIN values /\ ref.path = << >> -> Gives(values[ref.key])
      [] OTHER ->
             IF values[ref.key].json = NotJson THEN Fails("tool_input_ref_invalid_json")
             ELSE extractPath(values[ref.key].json, ref.path, "tool_input_ref_not_found")

resolveArgument(v, values) == IF IsRef(v) THEN resolveRef(v, values) ELSE Gives(v)

resolveInputRefs(input, values) ==
    LET resolved == [argument \in DOMAIN input |-> resolveArgument(input[argument], values)]
        failed == {argument \in DOMAIN input : ~ resolved[argument].ok}
    IN  IF failed = {}
        THEN [ok |-> TRUE, value |-> [argument \in DOMAIN input |-> resolved[argument].value]]
        ELSE resolved[CHOOSE argument \in failed : TRUE]

-----------------------------------------------------------------------------
(* The state of an execution and its steps.                                *)

createInitialAgentState == [counters |-> << >>, values |-> << >>, logs |-> << >>]

Logged(state, entry) == [state EXCEPT !.logs = Append(@, entry)]
Stored(state, key, v) == [state EXCEPT !.values = Put(@, key, v)]

SandboxKind == {"sandbox.open", "sandbox.click", "sandbox.type", "sandbox.extract"}

Entry(kind, what) == [log |-> kind, of |-> what]

(* A loop stops at its first turn that leaves counters and values as they  *)
(* were, or after maxIterations turns.  Its input is resolved once, so the *)
(* second turn stores what the first did.                                  *)
LoopTurns(state, key, v, maxIterations) ==
    IF key \in DOMAIN state.values /\ state.values[key] = v THEN 1
    ELSE IF maxIterations = 1 THEN 1 ELSE 2

(* A call logs one entry, a loop one for each of its turns.                *)
ToolStored(state, step, stored) ==
    LET turns == IF step.kind = "tool.call" THEN 1
                 ELSE LoopTurns(state, step.outputKey, stored, step.maxIterations)
    IN  [Stored(state, step.outputKey, stored) EXCEPT
             !.logs = @ \o [i \in 1..turns |-> Entry(step.kind, step.toolId)]]

ToolRan(state, step, output) ==
    IF output.ok THEN Gives(ToolStored(state, step, JsonText(output.value))) ELSE output

ToolResolved(state, step, input) ==
    IF input.ok THEN ToolRan(state, step, registryRun(step.toolId, input.value)) ELSE input

applyTool(state, step) == ToolResolved(state, step, resolveInputRefs(step.input, state.values))

applyMockStep(state, step) ==
    CASE step.kind = "set" -> Gives(Stored(state, step.key, step.value))
      [] step.kind = "increment" ->
             Gives([state EXCEPT !.counters =
                 Put(@, step.key, step.value + (IF step.key \in DOMAIN @ THEN @[step.key] ELSE 0))])
      [] step.kind = "append_log" -> Gives(Logged(state, Entry(step.kind, step.value.word)))
      [] step.kind \in {"sandbox.open", "sandbox.click", "sandbox.type"} ->
             Gives(Logged(state, Entry(step.kind, step.sessionId)))
      [] step.kind = "sandbox.extract" ->
             Gives(Logged(Stored(state, step.outputKey, Text("mock")),
                          Entry(step.kind, step.sessionId)))
      [] step.kind \in {"tool.call", "tool.loop"} -> applyTool(state, step)
=============================================================================
