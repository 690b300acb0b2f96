------------------------ MODULE ConversationSession ------------------------
(***************************************************************************)
(* The rule-based customer conversation: the session a customer's messages *)
(* build up, the intent each message is taken to mean, what the session    *)
(* still misses, the hand-over to a person, and the two in-memory maps     *)
(* behind the customer-service API: sessions by id, and the session a      *)
(* customer id was last seen in.                                           *)
(*                                                                         *)
(* A message is what the resolver and the extractor make of its text: the  *)
(* intent it resolves to, whether it names that intent explicitly, and the *)
(* sanitised entity values it gives.  Both functions are pure, so a text   *)
(* is such a record.  Every handler runs to completion without an await:   *)
(* one action is one call.  Both maps are keyed by the business context    *)
(* too, so one context is modelled at a time, chosen by the initial state. *)
(***************************************************************************)
EXTENDS Naturals, FiniteSets, Sequences

CONSTANTS
    Context,    \* the business contexts
    Pack,       \* [Context -> its configuration: intents, workflows, answers]
    Messages,   \* [Context -> the messages a customer may write there]
    Session,    \* the session ids
    Customer,   \* the customer ids, as requests and messages name them
    Value,      \* the values of entities, the customer ids among them
    OwnSession, \* [Customer -> Session]: "customer-session:" and the id
    MaxTurns    \* bound on the distinct (session, message) pairs of a run

VARIABLES
    businessContext, \* the context of this run, never changed
    sessions,        \* [Session -> state]; one never stored reads as initial
    customerIndex    \* [Customer -> Session or NoSession]

vars == <<businessContext, sessions, customerIndex>>

\* What stands for an absent value, session and queue.
NoValue == "no value"
NoSession == "no session"
NoQueue == "no queue"
NoIntent == "no intent"

Entity == {"orderId", "paymentId", "policyId", "customerId", "policyTopic",
           "policyAspect", "billingTopic", "discrepancyType", "stateCode",
           "contactPreference", "vehicleUse", "priorInsuranceStatus",
           "driverCount", "productName"}

pack == Pack[businessContext]
messages == Messages[businessContext]

\* A configuration knows the two intents the code names, and asks only for
\* entities the extractor can find.
ASSUME PackAssumption ==
    \A ctx \in Context :
        /\ {"request-human-handoff", "close-conversation"} \subseteq DOMAIN Pack[ctx].intents
        /\ NoIntent \notin DOMAIN Pack[ctx].intents
        /\ \A i \in DOMAIN Pack[ctx].intents :
               Pack[ctx].intents[i].requiredEntities \subseteq Entity
        /\ Pack[ctx].handoffQueue # NoQueue

\* The resolver answers an intent of the context; sanitised values are never
\* empty.
ASSUME MessageAssumption ==
    \A ctx \in Context : \A m \in Messages[ctx] :
        /\ m.resolved \in DOMAIN Pack[ctx].intents
        /\ m.explicit \in BOOLEAN
        /\ DOMAIN m.gives \subseteq Entity
        /\ \A e \in DOMAIN m.gives : m.gives[e] \in Value

ASSUME IdAssumption ==
    /\ OwnSession \in [Customer -> Session]
    /\ NoSession \notin Session
    /\ Customer \subseteq Value
    /\ NoValue \notin Value

-----------------------------------------------------------------------------
(* The session and its changes.                                            *)

\* The session before its first message.
InitialSession ==
    [conversationStatus |-> "active", currentIntentId |-> NoIntent,
     collectedEntities |-> [e \in Entity |-> NoValue],
     missingEntityIds |-> {}, handoffRequested |-> FALSE,
     handoffQueue |-> NoQueue, turns |-> {}]

\* Who said what: only which messages were recorded matters here.
AppendSessionTurn(s, m) == [s EXCEPT !.turns = @ \cup {m}]

\* The last value given for an entity replaces the earlier one.
UpsertSessionEntities(s, values) ==
    [s EXCEPT !.collectedEntities =
                  [e \in Entity |-> IF e \in DOMAIN values THEN values[e] ELSE @[e]],
              !.missingEntityIds = @ \ DOMAIN values]

\* Mutant of SetSessionIntent: a new intent also forgets the hand-over.
SetSessionIntentForgets(s, intentId, missing) ==
    [s EXCEPT !.currentIntentId = intentId,
              !.missingEntityIds = missing,
              !.conversationStatus = IF missing = {} THEN "active" ELSE "waiting-user",
              !.handoffRequested = FALSE,
              !.handoffQueue = NoQueue]

\* Moving to an intent forgets the queue of an earlier hand-over, not that
\* there was one.
SetSessionIntent(s, intentId, missing) ==
    [s EXCEPT !.currentIntentId = intentId,
              !.missingEntityIds = missing,
              !.conversationStatus = IF missing = {} THEN "active" ELSE "waiting-user",
              !.handoffQueue = NoQueue]

RequestHumanHandoff(s, queue) ==
    [s EXCEPT !.handoffRequested = TRUE,
              !.conversationStatus = "handoff-requested",
              !.handoffQueue = queue]

CloseSessionState(s) == [s EXCEPT !.conversationStatus = "closed"]

Has(s, e) == s.collectedEntities[e] # NoValue

-----------------------------------------------------------------------------
(* What a message is taken to mean.                                        *)

\* The fields of a quote that are asked for after its product, in order.
QuoteFields == <<"productName", "stateCode", "vehicleUse",
                 "priorInsuranceStatus", "driverCount">>

QuoteReplies == {"stateCode", "vehicleUse", "priorInsuranceStatus",
                 "driverCount", "contactPreference"}

\* A quote whose product is known and another field is not.
QuoteUnderWay(s) ==
    /\ s.currentIntentId = "request-quote"
    /\ Has(s, "productName")
    /\ \E i \in 2..5 : ~Has(s, QuoteFields[i])

\* Mutant of StaysOnIntent: only a waiting session stays on its intent.
StaysOnlyWhileWaiting(s, m) == ~m.explicit /\ s.conversationStatus = "waiting-user"

\* A message that does not name another intent continues the current one
\* when the session waits for an entity, or when it gives a field to a quote.
StaysOnIntent(s, m) ==
    /\ ~m.explicit
    /\ \/ s.conversationStatus = "waiting-user"
       \/ QuoteUnderWay(s) /\ QuoteReplies \cap DOMAIN m.gives # {}

EffectiveIntent(s, m) ==
    IF StaysOnIntent(s, m) THEN s.currentIntentId ELSE m.resolved

AllowedEntityIds(intentId) ==
    CASE intentId \in {"consult-price", "consult-availability", "consult-product"} ->
             {"productName"}
      [] intentId = "consult-order-status" -> {"orderId"}
      [] intentId = "consult-policy" -> {"policyTopic", "policyAspect"}
      [] intentId = "consult-coverage" -> {"productName", "policyId", "customerId"}
      [] intentId = "consult-payment-status" -> {"paymentId", "policyId", "customerId"}
      [] intentId = "consult-payment-history" -> {"policyId", "customerId"}
      [] intentId = "explain-payment-discrepancy" ->
             {"paymentId", "policyId", "customerId", "discrepancyType"}
      [] intentId = "consult-policy-status" -> {"policyId", "customerId"}
      [] intentId = "consult-policy-servicing" -> {"billingTopic", "policyId", "customerId"}
      [] intentId = "request-quote" -> {"productName"} \cup QuoteReplies
      [] OTHER -> {}

\* A session that was waiting and changes intent drops what it collected for
\* the one it leaves.
RetainCompatible(s, intentId) ==
    IF s.conversationStatus = "waiting-user" /\ s.currentIntentId # intentId
    THEN [s EXCEPT !.collectedEntities =
              [e \in Entity |-> IF e \in AllowedEntityIds(intentId) THEN @[e] ELSE NoValue]]
    ELSE s

-----------------------------------------------------------------------------
(* One turn.                                                               *)

MissingEntities(s, intentId) ==
    {e \in pack.intents[intentId].requiredEntities : ~Has(s, e)}

Orchestrate(s, intentId) ==
    CASE intentId = "request-human-handoff" ->
             RequestHumanHandoff(SetSessionIntent(s, intentId, {}), pack.handoffQueue)
      [] intentId = "close-conversation" ->
             CloseSessionState(SetSessionIntent(s, intentId, {}))
      [] OTHER -> SetSessionIntent(s, intentId, MissingEntities(s, intentId))

\* The stages of the intent's workflow between its first and its last ones.
MiddleStages(intentId) ==
    LET rule == pack.workflowRules[pack.intents[intentId].workflowId]
        IsMiddle(stage) ==
            /\ stage # rule.initialStage
            /\ \A k \in DOMAIN rule.terminalStages : stage # rule.terminalStages[k]
    IN SelectSeq(rule.stages, IsMiddle)

\* Mutant of MissingStage: the last middle stage, as for a resolved intent.
MissingStageLast(intentId) ==
    IF MiddleStages(intentId) = <<>> THEN "collect-missing-data"
    ELSE MiddleStages(intentId)[Len(MiddleStages(intentId))]

MissingStage(intentId) ==
    IF MiddleStages(intentId) = <<>> THEN "collect-missing-data"
    ELSE Head(MiddleStages(intentId))

ResolvedStage(intentId) ==
    LET middle == MiddleStages(intentId)
        terminal == pack.workflowRules[pack.intents[intentId].workflowId].terminalStages
    IN CASE middle # <<>> -> middle[Len(middle)]
         [] middle = <<>> /\ terminal # <<>> -> Head(terminal)
         [] OTHER -> "done"

\* The key under which the answer to a turn is looked up.  A key without an
\* answer makes the turn throw.
AnswerKey(s) ==
    LET i == s.currentIntentId
    IN CASE i = "request-human-handoff" -> <<i, "handoff-requested", "handoff">>
         [] i = "close-conversation" -> <<i, "done", "closed">>
         [] OTHER -> IF s.missingEntityIds # {} THEN <<i, MissingStage(i), "missing-entity">>
                     ELSE <<i, ResolvedStage(i), "resolved">>

\* Mutant of AgentTurn: the intent is evaluated before the message's values
\* are put in the session.
AgentTurnTooEarly(s, m) ==
    LET intentId == EffectiveIntent(s, m)
    IN UpsertSessionEntities(Orchestrate(RetainCompatible(s, intentId), intentId), m.gives)

\* The session after the agent handled a message recorded in it.
AgentTurn(s, m) ==
    LET intentId == EffectiveIntent(s, m)
    IN Orchestrate(UpsertSessionEntities(RetainCompatible(s, intentId), m.gives),
                   intentId)

\* What the answer to a resolved quote asks for next, or nothing.
QuoteAsksFor(s) ==
    {QuoteFields[i] : i \in {j \in 1..5 :
        /\ ~Has(s, QuoteFields[j])
        /\ \A k \in 1..5 : k < j => Has(s, QuoteFields[k])}}

\* What the latest answer asked the customer for.
AsksFor(s) ==
    IF s.currentIntentId = "request-quote" THEN QuoteAsksFor(s)
    ELSE s.missingEntityIds

-----------------------------------------------------------------------------
(* The API over the two maps.                                              *)

\* Storing a session also makes it the one of the customer it names.
IndexedBy(index, s, sid) ==
    [c \in Customer |-> IF s.collectedEntities["customerId"] = c THEN sid ELSE index[c]]

\* Mutant of SessionFor: a new session's id is made without the customer's.
SessionForAnyone(c) ==
    IF customerIndex[c] # NoSession THEN customerIndex[c] ELSE CHOOSE sid \in Session : TRUE

SessionFor(c) ==
    IF customerIndex[c] # NoSession THEN customerIndex[c] ELSE OwnSession[c]

TurnsWith(sid, m) ==
    {<<sid, m>>} \cup UNION {{sid2} \X sessions[sid2].turns : sid2 \in Session}

\* The call both entry points end in, on a session and an index.
RunApi(s, index, sid, m) ==
    LET answered == AgentTurn(AppendSessionTurn(s, m), m)
    IN /\ Cardinality(TurnsWith(sid, m)) <= MaxTurns
       /\ sessions' = [sessions EXCEPT ![sid] = answered]
       /\ customerIndex' = IndexedBy(index, answered, sid)

\* A message sent to a session by its id.
CustomerServiceApi(sid, m) ==
    /\ RunApi(sessions[sid], customerIndex, sid, m)
    /\ UNCHANGED businessContext

\* A message sent for a customer: the customer's id is put in the session,
\* which is stored once before the turn and once after it.
CustomerServiceApiForCustomer(c, m) ==
    LET sid == SessionFor(c)
        s == UpsertSessionEntities(sessions[sid], [e \in {"customerId"} |-> c])
    IN /\ RunApi(s, IndexedBy(customerIndex, s, sid), sid, m)
       /\ UNCHANGED businessContext

Init ==
    /\ businessContext \in Context
    /\ sessions = [sid \in Session |-> InitialSession]
    /\ customerIndex = [c \in Customer |-> NoSession]

Next ==
    \/ \E sid \in Session, m \in messages : CustomerServiceApi(sid, m)
    \/ \E c \in Customer, m \in messages : CustomerServiceApiForCustomer(c, m)

Spec == Init /\ [][Next]_vars

-----------------------------------------------------------------------------
(* What makes it correct.                                                  *)

SessionState ==
    [conversationStatus : {"active", "waiting-user", "handoff-requested", "closed"},
     currentIntentId : DOMAIN pack.intents \cup {NoIntent},
     collectedEntities : [Entity -> Value \cup {NoValue}],
     missingEntityIds : SUBSET Entity,
     handoffRequested : BOOLEAN,
     handoffQueue : {NoQueue, pack.handoffQueue},
     turns : SUBSET messages]

\* The maps hold what their types say: an indexed session is a session id.
TypeOK ==
    /\ businessContext \in Context
    /\ sessions \in [Session -> SessionState]
    /\ customerIndex \in [Customer -> Session \cup {NoSession}]

\* A session waits for its user exactly while it has something to ask for,
\* and what it asks for is what its intent needs and no turn has given,
\* whatever intents it went through and whatever it dropped on the way
\* (orchestrateConversationTurn on what runCustomerServiceAgent collected).
WaitingMeansMissing ==
    \A sid \in Session :
        LET s == sessions[sid]
        IN /\ s.conversationStatus = "waiting-user" <=> s.missingEntityIds # {}
           /\ s.conversationStatus = "waiting-user" \/ s.conversationStatus = "active" =>
                  \/ s.currentIntentId = NoIntent /\ s.missingEntityIds = {}
                  \/ s.missingEntityIds = MissingEntities(s, s.currentIntentId)

AsksForPerson(m) == m.resolved = "request-human-handoff"

\* A conversation whose customer explicitly asked for a person is marked so
\* for good, whatever follows; one whose customer never did is not; and it
\* is in the queue of a person exactly until its next turn on another intent
\* (setSessionIntent clears the queue and keeps the flag).
HandoffIffAsked ==
    \A sid \in Session :
        LET s == sessions[sid]
        IN /\ (\E m \in s.turns : AsksForPerson(m) /\ m.explicit) => s.handoffRequested
           /\ s.handoffRequested => \E m \in s.turns : AsksForPerson(m)
           /\ s.handoffQueue # NoQueue <=> s.conversationStatus = "handoff-requested"

NamedIn(c, sid) ==
    \E m \in sessions[sid].turns : "customerId" \in DOMAIN m.gives /\ m.gives["customerId"] = c

\* A request made for a customer is answered in the customer's own session,
\* unless a message of another session named that customer: only then does
\* saveStoredSession point the customer at a conversation that is not theirs.
SharedOnlyByMention ==
    \A c \in Customer :
        customerIndex[c] # NoSession =>
            customerIndex[c] = OwnSession[c] \/ NamedIn(c, customerIndex[c])

\* Whatever a session holds, moving to any intent of the configuration finds
\* the stage's canonical answer: no turn throws RESPONSE_ID_NOT_FOUND after
\* its message was taken in.
NoTurnThrows ==
    \A sid \in Session : \A i \in DOMAIN pack.intents :
        AnswerKey(Orchestrate(sessions[sid], i)) \in pack.canonicalResponses

AwaitsReply(s) == s.conversationStatus = "waiting-user" \/ QuoteUnderWay(s)

\* A reply that gives what the last answer asked for, and names no other
\* intent, is taken as that reply: the conversation keeps its intent and
\* does not ask again, though the reply alone resolves to another intent
\* (resolveEffectiveIntentId).
ReplyKeepsTheTopic ==
    [][\A sid \in Session, m \in messages :
          LET s == sessions[sid]
              s2 == sessions'[sid]
          IN /\ ~m.explicit
             /\ AwaitsReply(s)
             /\ AsksFor(s) \cap DOMAIN m.gives # {}
             /\ CustomerServiceApi(sid, m)
             => /\ s2.currentIntentId = s.currentIntentId
                /\ AsksFor(s2) \cap DOMAIN m.gives = {}]_vars

\* README.md:623 and 634: "deterministic handoff to a licensed broker
\* specialist", with the example "I want to speak with a broker."  A customer
\* who asks so is handed off.  Refuted: see README.
RequestIsHandedOff ==
    \A sid \in Session :
        (\E m \in sessions[sid].turns : AsksForPerson(m)) => sessions[sid].handoffRequested
=============================================================================
