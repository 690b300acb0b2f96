----------------------- MODULE MCConversationSession -----------------------
(***************************************************************************)
(* The two business contexts of config/business-context, and texts of the  *)
(* repository's tests and documentation as the resolver and the extractor  *)
(* read them there.                                                        *)
(***************************************************************************)
EXTENDS ConversationSession

Intents(rows) == [i \in {r[1] : r \in rows} |->
    LET row == CHOOSE r \in rows : r[1] = i
    IN [requiredEntities |-> row[2], workflowId |-> row[3]]]

Workflow(middle) == [stages |-> <<"start">> \o middle \o <<"done">>,
                     initialStage |-> "start", terminalStages |-> <<"done">>]

CorePack ==
  [intents |-> Intents({
     <<"consult-product", {"productName"}, "product-consultation-flow">>,
     <<"consult-price", {"productName"}, "price-consultation-flow">>,
     <<"consult-availability", {"productName"}, "availability-flow">>,
     <<"consult-coverage", {}, "coverage-consultation-flow">>,
     <<"request-quote", {}, "quote-intake-flow">>,
     <<"consult-renewal-status", {}, "renewal-status-flow">>,
     <<"consult-policy", {"policyTopic"}, "policy-consultation-flow">>,
     <<"consult-order-status", {"orderId"}, "order-status-flow">>,
     <<"request-human-handoff", {}, "handoff-flow">>,
     <<"close-conversation", {}, "closure-flow">>}),
   workflowRules |-> [
     w \in {"product-consultation-flow", "price-consultation-flow", "availability-flow",
            "coverage-consultation-flow", "quote-intake-flow", "renewal-status-flow",
            "order-status-flow", "policy-consultation-flow", "handoff-flow",
            "closure-flow"} |-> Workflow(
       CASE w = "product-consultation-flow" -> <<"collect-product-name", "resolve-product">>
         [] w = "price-consultation-flow" -> <<"collect-product-name", "resolve-price">>
         [] w = "availability-flow" -> <<"collect-product-name", "resolve-availability">>
         [] w = "coverage-consultation-flow" -> <<"collect-coverage-context", "resolve-coverage">>
         [] w = "renewal-status-flow" -> <<"collect-renewal-context", "resolve-renewal-status">>
         [] w = "policy-consultation-flow" -> <<"collect-policy-topic", "resolve-policy">>
         [] w = "quote-intake-flow" -> <<"collect-quote-context", "resolve-quote-intake">>
         [] w = "order-status-flow" -> <<"collect-order-id", "resolve-order-status">>
         [] w = "handoff-flow" -> <<"handoff-requested">>
         [] OTHER -> <<>>)],
   canonicalResponses |-> {
     <<"consult-product", "collect-product-name", "missing-entity">>,
     <<"consult-product", "resolve-product", "resolved">>,
     <<"consult-price", "collect-product-name", "missing-entity">>,
     <<"consult-price", "resolve-price", "resolved">>,
     <<"consult-availability", "collect-product-name", "missing-entity">>,
     <<"consult-availability", "resolve-availability", "resolved">>,
     <<"consult-coverage", "resolve-coverage", "resolved">>,
     <<"request-quote", "resolve-quote-intake", "resolved">>,
     <<"consult-renewal-status", "resolve-renewal-status", "resolved">>,
     <<"consult-policy", "collect-policy-topic", "missing-entity">>,
     <<"consult-policy", "resolve-policy", "resolved">>,
     <<"consult-order-status", "collect-order-id", "missing-entity">>,
     <<"consult-order-status", "resolve-order-status", "resolved">>,
     <<"request-human-handoff", "handoff-requested", "handoff">>,
     <<"close-conversation", "done", "closed">>},
   handoffQueue |-> "licensed-broker"]

PaymentPack ==
  [intents |-> Intents({
     <<"consult-payment-status", {"paymentId"}, "payment-status-flow">>,
     <<"consult-payment-history", {}, "payment-history-flow">>,
     <<"explain-payment-discrepancy", {}, "payment-discrepancy-flow">>,
     <<"consult-policy-status", {"policyId"}, "policy-status-flow">>,
     <<"consult-policy-servicing", {"billingTopic"}, "policy-servicing-flow">>,
     <<"request-human-handoff", {}, "handoff-flow">>,
     <<"close-conversation", {}, "closure-flow">>}),
   workflowRules |-> [
     w \in {"payment-status-flow", "payment-history-flow", "payment-discrepancy-flow",
            "policy-status-flow", "policy-servicing-flow", "handoff-flow", "closure-flow"} |-> Workflow(
       CASE w = "payment-status-flow" -> <<"collect-payment-id", "resolve-payment-status">>
         [] w = "payment-history-flow" -> <<"collect-history-scope", "resolve-payment-history">>
         [] w = "payment-discrepancy-flow" ->
                <<"collect-discrepancy-context", "resolve-payment-discrepancy">>
         [] w = "policy-status-flow" -> <<"collect-policy-id", "resolve-policy-status">>
         [] w = "policy-servicing-flow" -> <<"collect-billing-topic", "resolve-policy-servicing">>
         [] w = "handoff-flow" -> <<"handoff-requested">>
         [] OTHER -> <<>>)],
   canonicalResponses |-> {
     <<"consult-payment-status", "collect-payment-id", "missing-entity">>,
     <<"consult-payment-status", "resolve-payment-status", "resolved">>,
     <<"consult-payment-history", "resolve-payment-history", "resolved">>,
     <<"explain-payment-discrepancy", "resolve-payment-discrepancy", "resolved">>,
     <<"consult-policy-status", "collect-policy-id", "missing-entity">>,
     <<"consult-policy-status", "resolve-policy-status", "resolved">>,
     <<"consult-policy-servicing", "collect-billing-topic", "missing-entity">>,
     <<"consult-policy-servicing", "resolve-policy-servicing", "resolved">>,
     <<"request-human-handoff", "handoff-requested", "handoff">>,
     <<"close-conversation", "done", "closed">>},
   handoffQueue |-> "billing-specialist"]

MCPack == [core |-> CorePack, payment |-> PaymentPack]

Text(resolved, explicit, gives) ==
    [resolved |-> resolved, explicit |-> explicit,
     gives |-> [e \in {g[1] : g \in gives} |-> (CHOOSE g \in gives : g[1] = e)[2]]]

CoreMessages == {
  Text("consult-price", TRUE, {}),                                \* What is the price?
  Text("consult-product", TRUE, {<<"productName", "auto">>}),     \* Personal Auto Standard
  Text("consult-order-status", TRUE, {}),                         \* What is the status of my order?
  Text("consult-product", FALSE, {<<"orderId", "ORDER-12345">>}), \* ORDER-12345
  Text("request-human-handoff", FALSE, {<<"productName", "other">>}), \* I want to speak with a broker
  Text("close-conversation", TRUE, {<<"productName", "other">>}), \* Goodbye
  Text("request-quote", FALSE, {}),                               \* I need a quote
  Text("request-quote", FALSE, {<<"productName", "auto">>}),      \* I need a quote for Personal Auto Standard
  Text("consult-product", FALSE, {<<"stateCode", "TX">>}),        \* Texas
  Text("consult-product", FALSE, {<<"vehicleUse", "commute">>}),  \* commuting
  \* I need a quote for Personal Auto Standard in CA for commuting, currently insured, call me
  Text("request-quote", FALSE,
       {<<"productName", "auto">>, <<"stateCode", "CA">>, <<"vehicleUse", "commute">>,
        <<"priorInsuranceStatus", "insured">>, <<"contactPreference", "call">>}),
  Text("consult-product", FALSE, {<<"driverCount", "2">>})}       \* 2 drivers

PaymentMessages == {
  Text("consult-policy-status", TRUE, {<<"productName", "other">>}),  \* Is my policy active?
  Text("consult-policy-servicing", FALSE,
       {<<"policyId", "POL-900">>, <<"productName", "other">>}),      \* POL-900
  Text("consult-policy-status", TRUE,
       {<<"customerId", "CUS-202">>, <<"productName", "other">>}),    \* Is the policy of CUS-202 active?
  Text("consult-payment-history", TRUE,
       {<<"customerId", "CUS-101">>, <<"productName", "other">>}),    \* Show me the payment history for customer CUS-101
  Text("consult-payment-status", TRUE, {}),                           \* What is the status of my payment?
  Text("consult-policy-servicing", FALSE,
       {<<"paymentId", "PMT-1001">>, <<"productName", "other">>}),    \* PMT-1001
  Text("request-human-handoff", TRUE,
       {<<"billingTopic", "billing-review">>, <<"productName", "other">>}), \* I need a billing specialist
  Text("consult-policy-servicing", FALSE, {<<"productName", "other">>})}    \* I need help

MCMessages == [core |-> CoreMessages, payment |-> PaymentMessages]

MCValue == {"auto", "other", "ORDER-12345", "TX", "CA", "commute", "insured", "call", "2",
            "POL-900", "PMT-1001", "billing-review", "CUS-101", "CUS-202"}

MCOwnSession == [c \in {"CUS-101", "CUS-202"} |->
                    IF c = "CUS-101" THEN "customer-session:CUS-101"
                    ELSE "customer-session:CUS-202"]
=============================================================================
