---------------------- MODULE ConversationSession_proofs ----------------------
(***************************************************************************)
(* Proofs about the customer conversation, for any configurations, messages*)
(* customers and sessions.  Each operator on a session has a lemma that    *)
(* says what it does to every field; a turn is their composition.          *)
(***************************************************************************)
EXTENDS ConversationSession, TLAPS

\* What a turn relies on: a session that waits is on an intent that can be
\* continued.  A session keeps this even when a request for a customer has
\* put the customer's id in it, which WaitingMeansMissing need not survive.
Ready(s) ==
    s.conversationStatus = "waiting-user" =>
        /\ s.currentIntentId \in DOMAIN pack.intents
        /\ s.currentIntentId \notin {"request-human-handoff", "close-conversation"}

\* The parts of WaitingMeansMissing and HandoffIffAsked about one session.
Waits(s) ==
    /\ s.conversationStatus = "waiting-user" <=> s.missingEntityIds # {}
    /\ s.conversationStatus = "waiting-user" \/ s.conversationStatus = "active" =>
           \/ s.currentIntentId = NoIntent /\ s.missingEntityIds = {}
           \/ s.missingEntityIds = MissingEntities(s, s.currentIntentId)

Asked(s) ==
    /\ (\E m \in s.turns : AsksForPerson(m) /\ m.explicit) => s.handoffRequested
    /\ s.handoffRequested => \E m \in s.turns : AsksForPerson(m)

Queued(s) == s.handoffQueue # NoQueue <=> s.conversationStatus = "handoff-requested"

\* A session that holds a customer's id is that customer's own or was told it.
Holds(sid) ==
    \A c \in Customer : sessions[sid].collectedEntities["customerId"] = c =>
        sid = OwnSession[c] \/ NamedIn(c, sid)

\* The inductive invariant.
ConversationInv ==
    /\ TypeOK
    /\ \A sid \in Session : /\ Ready(sessions[sid])
                            /\ Waits(sessions[sid])
                            /\ Asked(sessions[sid])
                            /\ Queued(sessions[sid])
                            /\ Holds(sid)
    /\ SharedOnlyByMention

-----------------------------------------------------------------------------
(* What each step of a turn does to a session.                             *)

\* A message's values replace the session's and nothing else moves
\* (upsertSessionEntity over the extracted entities).
LEMMA UpsertFields ==
    ASSUME NEW s \in SessionState, NEW values,
           DOMAIN values \subseteq Entity,
           \A e \in DOMAIN values : values[e] \in Value
    PROVE  LET u == UpsertSessionEntities(s, values)
           IN /\ u \in SessionState
              /\ u.conversationStatus = s.conversationStatus
              /\ u.currentIntentId = s.currentIntentId
              /\ u.handoffRequested = s.handoffRequested
              /\ u.handoffQueue = s.handoffQueue
              /\ u.turns = s.turns
              /\ \A e \in Entity : u.collectedEntities[e] =
                     IF e \in DOMAIN values THEN values[e] ELSE s.collectedEntities[e]
BY DEF UpsertSessionEntities, SessionState

\* Dropping entities drops nothing else (retainEntitiesCompatibleWithIntent).
LEMMA RetainFields ==
    ASSUME NEW s \in SessionState, NEW i
    PROVE  LET r == RetainCompatible(s, i)
           IN /\ r \in SessionState
              /\ r.conversationStatus = s.conversationStatus
              /\ r.currentIntentId = s.currentIntentId
              /\ r.handoffRequested = s.handoffRequested
              /\ r.handoffQueue = s.handoffQueue
              /\ r.turns = s.turns
              /\ \A e \in Entity : r.collectedEntities[e] \in {s.collectedEntities[e], NoValue}
<1>1. CASE s.conversationStatus = "waiting-user" /\ s.currentIntentId # i
  <2>. DEFINE kept == [e \in Entity |-> IF e \in AllowedEntityIds(i)
                                        THEN s.collectedEntities[e] ELSE NoValue]
  <2>1. RetainCompatible(s, i) = [s EXCEPT !.collectedEntities = kept]
    BY <1>1 DEF RetainCompatible, SessionState
  <2>2. kept \in [Entity -> Value \cup {NoValue}]
    BY DEF SessionState
  <2>. HIDE DEF kept
  <2>3. \A e \in Entity : kept[e] \in {s.collectedEntities[e], NoValue}
    BY DEF kept
  <2>. QED BY <2>1, <2>2, <2>3 DEF SessionState
<1>2. CASE ~(s.conversationStatus = "waiting-user" /\ s.currentIntentId # i)
  BY <1>2 DEF RetainCompatible, SessionState
<1>. QED BY <1>1, <1>2

\* The orchestrator sets the intent, what is missing for it, and the status
\* that goes with both (orchestrateConversationTurn).
LEMMA OrchestrateFields ==
    ASSUME businessContext \in Context,
           NEW s \in SessionState, NEW i \in DOMAIN pack.intents
    PROVE  LET t == Orchestrate(s, i)
           IN /\ t \in SessionState
              /\ t.currentIntentId = i
              /\ t.turns = s.turns
              /\ t.collectedEntities = s.collectedEntities
              /\ t.handoffRequested <=> s.handoffRequested \/ i = "request-human-handoff"
              /\ Ready(t) /\ Waits(t) /\ Queued(t)
<1>. DEFINE missing == MissingEntities(s, i)
<1>1. missing \in SUBSET Entity
  BY PackAssumption DEF MissingEntities, pack
<1>2. pack.handoffQueue # NoQueue /\ i # NoIntent
  BY PackAssumption DEF pack
<1>3. CASE i = "request-human-handoff"
  <2>1. Orchestrate(s, i) =
            [s EXCEPT !.currentIntentId = i, !.missingEntityIds = {},
                      !.conversationStatus = "handoff-requested",
                      !.handoffRequested = TRUE, !.handoffQueue = pack.handoffQueue]
    BY <1>3 DEF Orchestrate, RequestHumanHandoff, SetSessionIntent, SessionState
  <2>. QED BY <2>1, <1>2, <1>3 DEF SessionState, Ready, Waits, Queued
<1>4. CASE i = "close-conversation"
  <2>1. Orchestrate(s, i) =
            [s EXCEPT !.currentIntentId = i, !.missingEntityIds = {},
                      !.conversationStatus = "closed", !.handoffQueue = NoQueue]
    BY <1>4 DEF Orchestrate, CloseSessionState, SetSessionIntent, SessionState
  <2>. QED BY <2>1, <1>2, <1>4 DEF SessionState, Ready, Waits, Queued
<1>5. CASE i \notin {"request-human-handoff", "close-conversation"}
  <2>1. Orchestrate(s, i) =
            [s EXCEPT !.currentIntentId = i, !.missingEntityIds = missing,
                      !.conversationStatus = IF missing = {} THEN "active" ELSE "waiting-user",
                      !.handoffQueue = NoQueue]
    BY <1>5 DEF Orchestrate, SetSessionIntent, SessionState
  <2>2. Orchestrate(s, i).collectedEntities = s.collectedEntities
    BY <2>1 DEF SessionState
  <2>3. MissingEntities(Orchestrate(s, i), i) = missing
    BY <2>2 DEF MissingEntities, Has
  <2>. HIDE DEF missing
  <2>. DEFINE status == IF missing = {} THEN "active" ELSE "waiting-user"
              t == Orchestrate(s, i)
  <2>4. /\ t \in SessionState
        /\ t.currentIntentId = i /\ t.missingEntityIds = missing
        /\ t.conversationStatus = status /\ t.handoffQueue = NoQueue
        /\ t.turns = s.turns /\ t.collectedEntities = s.collectedEntities
        /\ t.handoffRequested = s.handoffRequested
    BY <2>1, <1>1 DEF SessionState
  <2>. HIDE DEF t
  <2>5. Ready(t) /\ Waits(t) /\ Queued(t)
    BY <2>3, <2>4, <1>2, <1>5 DEF Ready, Waits, Queued, t
  <2>. QED BY <2>4, <2>5, <1>5 DEF t
<1>. QED BY <1>3, <1>4, <1>5

\* A message is taken to mean an intent of the configuration, and a hand-over
\* only by naming it: no session stays on it (resolveEffectiveIntentId).
LEMMA EffectiveIntentIsKnown ==
    ASSUME businessContext \in Context,
           NEW s \in SessionState, Ready(s), NEW m \in messages
    PROVE  /\ EffectiveIntent(s, m) \in DOMAIN pack.intents
           /\ m.explicit => EffectiveIntent(s, m) = m.resolved
           /\ EffectiveIntent(s, m) = "request-human-handoff" => AsksForPerson(m)
<1>1. CASE StaysOnIntent(s, m)
  <2>1. /\ ~m.explicit
        /\ EffectiveIntent(s, m) = s.currentIntentId
    BY <1>1 DEF StaysOnIntent, EffectiveIntent
  <2>2. CASE s.conversationStatus = "waiting-user"
    BY <2>1, <2>2 DEF Ready
  <2>3. CASE QuoteUnderWay(s)
    <3>1. s.currentIntentId = "request-quote"
      BY <2>3 DEF QuoteUnderWay
    <3>2. s.currentIntentId \in DOMAIN pack.intents
      BY <3>1 DEF SessionState, NoIntent
    <3>. QED BY <2>1, <3>1, <3>2
  <2>. QED BY <1>1, <2>2, <2>3 DEF StaysOnIntent
<1>2. CASE ~StaysOnIntent(s, m)
  BY <1>2, MessageAssumption DEF EffectiveIntent, messages, pack, AsksForPerson
<1>. QED BY <1>1, <1>2

\* Whatever a ready session holds, a turn leaves it waiting exactly for what
\* it misses, marked exactly as it was asked to be, holding what the message
\* gave, and naming no customer that it did not name and was not told
\* (runCustomerServiceAgent).
LEMMA TurnFields ==
    ASSUME businessContext \in Context,
           NEW s \in SessionState, Ready(s), Asked(s), NEW m \in messages
    PROVE  LET t == AgentTurn(AppendSessionTurn(s, m), m)
           IN /\ t \in SessionState
              /\ t.turns = s.turns \cup {m}
              /\ Ready(t) /\ Waits(t) /\ Asked(t) /\ Queued(t)
              /\ t.currentIntentId = EffectiveIntent(s, m)
              /\ \A e \in DOMAIN m.gives : t.collectedEntities[e] = m.gives[e]
              /\ t.collectedEntities["customerId"] \in
                     {s.collectedEntities["customerId"], NoValue}
                     \cup {m.gives[e] : e \in {"customerId"} \cap DOMAIN m.gives}
<1>. DEFINE a == AppendSessionTurn(s, m)
            i == EffectiveIntent(a, m)
            r == RetainCompatible(a, i)
            u == UpsertSessionEntities(r, m.gives)
            t == Orchestrate(u, i)
<1>1. /\ a = [s EXCEPT !.turns = s.turns \cup {m}]
      /\ a \in SessionState
  BY DEF AppendSessionTurn, SessionState
<1>2. Ready(a)
  BY <1>1 DEF Ready, SessionState
<1>3. /\ a.turns = s.turns \cup {m}
      /\ a.handoffRequested = s.handoffRequested
      /\ a.collectedEntities = s.collectedEntities
  BY <1>1 DEF SessionState
<1>4. t = AgentTurn(AppendSessionTurn(s, m), m)
  BY DEF AgentTurn
<1>. HIDE DEF a
<1>14. i = EffectiveIntent(s, m)
  <2>1. a.currentIntentId = s.currentIntentId
        /\ a.conversationStatus = s.conversationStatus
    BY <1>1 DEF SessionState
  <2>. QED BY <1>3, <2>1 DEF EffectiveIntent, StaysOnIntent, QuoteUnderWay, Has
<1>5. /\ i \in DOMAIN pack.intents
      /\ m.explicit => i = m.resolved
      /\ i = "request-human-handoff" => AsksForPerson(m)
  BY <1>1, <1>2, EffectiveIntentIsKnown
<1>. HIDE DEF i
<1>6. /\ r \in SessionState
      /\ r.turns = a.turns
      /\ r.handoffRequested = a.handoffRequested
      /\ \A e \in Entity : r.collectedEntities[e] \in {a.collectedEntities[e], NoValue}
  BY <1>1, RetainFields
<1>. HIDE DEF r
<1>7. /\ DOMAIN m.gives \subseteq Entity
      /\ \A e \in DOMAIN m.gives : m.gives[e] \in Value
  BY MessageAssumption DEF messages
<1>8. /\ u \in SessionState
      /\ u.turns = r.turns
      /\ u.handoffRequested = r.handoffRequested
      /\ \A e \in Entity : u.collectedEntities[e] =
             IF e \in DOMAIN m.gives THEN m.gives[e] ELSE r.collectedEntities[e]
  BY <1>6, <1>7, UpsertFields
<1>. HIDE DEF u
<1>9. /\ t \in SessionState
      /\ t.currentIntentId = i
      /\ t.turns = u.turns
      /\ t.collectedEntities = u.collectedEntities
      /\ t.handoffRequested <=> u.handoffRequested \/ i = "request-human-handoff"
      /\ Ready(t) /\ Waits(t) /\ Queued(t)
  BY <1>5, <1>8, OrchestrateFields
<1>. HIDE DEF t
<1>10. t.turns = s.turns \cup {m}
  BY <1>3, <1>6, <1>8, <1>9
<1>11. t.handoffRequested <=> s.handoffRequested \/ i = "request-human-handoff"
  BY <1>3, <1>6, <1>8, <1>9
<1>12. Asked(t)
  BY <1>5, <1>10, <1>11 DEF Asked, AsksForPerson
<1>13. t.collectedEntities["customerId"] \in
           {s.collectedEntities["customerId"], NoValue}
           \cup {m.gives[e] : e \in {"customerId"} \cap DOMAIN m.gives}
  <2>1. "customerId" \in Entity
    BY DEF Entity
  <2>. QED BY <2>1, <1>3, <1>6, <1>8, <1>9
<1>15. \A e \in DOMAIN m.gives : t.collectedEntities[e] = m.gives[e]
  BY <1>7, <1>8, <1>9
<1>. QED BY <1>4, <1>9, <1>10, <1>12, <1>13, <1>14, <1>15

\* A reply to what the last answer asked for stays on its intent and leaves
\* nothing of what it gave to be asked again (resolveEffectiveIntentId).
LEMMA ReplyIsTaken ==
    ASSUME businessContext \in Context,
           NEW s \in SessionState, Ready(s), Asked(s), NEW m \in messages,
           ~m.explicit, AwaitsReply(s), AsksFor(s) \cap DOMAIN m.gives # {}
    PROVE  LET t == AgentTurn(AppendSessionTurn(s, m), m)
           IN /\ t.currentIntentId = s.currentIntentId
              /\ AsksFor(t) \cap DOMAIN m.gives = {}
<1>. DEFINE t == AgentTurn(AppendSessionTurn(s, m), m)
<1>1. StaysOnIntent(s, m)
  <2>1. CASE s.conversationStatus = "waiting-user"
    BY <2>1 DEF StaysOnIntent
  <2>2. CASE QuoteUnderWay(s)
    <3>1. PICK e \in QuoteAsksFor(s) : e \in DOMAIN m.gives
      BY <2>2 DEF AsksFor, QuoteUnderWay
    <3>2. PICK j \in 1..5 : e = QuoteFields[j] /\ ~Has(s, QuoteFields[j])
      BY <3>1 DEF QuoteAsksFor
    <3>3. j # 1
      BY <2>2, <3>2 DEF QuoteUnderWay, QuoteFields
    <3>4. e \in QuoteReplies
      BY <3>2, <3>3 DEF QuoteFields, QuoteReplies
    <3>. QED BY <2>2, <3>1, <3>4 DEF StaysOnIntent
  <2>. QED BY <2>1, <2>2 DEF AwaitsReply
<1>2. /\ Waits(t)
      /\ t.currentIntentId = s.currentIntentId
      /\ \A e \in DOMAIN m.gives : t.collectedEntities[e] = m.gives[e]
  BY <1>1, TurnFields DEF EffectiveIntent
<1>. HIDE DEF t
<1>3. \A e \in DOMAIN m.gives : Has(t, e)
  BY <1>2, MessageAssumption, IdAssumption DEF messages, Has
<1>4. \A e \in AsksFor(t) : ~Has(t, e)
  <2>1. \A e \in t.missingEntityIds : ~Has(t, e)
    BY <1>2 DEF Waits, MissingEntities
  <2>2. \A e \in QuoteAsksFor(t) : ~Has(t, e)
    BY DEF QuoteAsksFor
  <2>. QED BY <2>1, <2>2 DEF AsksFor
<1>. QED BY <1>2, <1>3, <1>4 DEF t

-----------------------------------------------------------------------------
(* The API keeps the invariant.                                            *)

\* A process starts with empty maps (sessionStore, customerSessionIndex), and
\* a session before its first message names nobody.
LEMMA InitConversationInv == Init => ConversationInv
<1>. SUFFICES ASSUME Init PROVE ConversationInv
  OBVIOUS
<1>1. InitialSession \in SessionState
  BY DEF InitialSession, SessionState
<1>2. TypeOK
  BY <1>1, IdAssumption DEF Init, TypeOK
<1>3. /\ Ready(InitialSession) /\ Waits(InitialSession)
      /\ Asked(InitialSession) /\ Queued(InitialSession)
  BY DEF InitialSession, Ready, Waits, Asked, Queued
<1>4. \A sid \in Session : Holds(sid)
  <2>1. "customerId" \in Entity
    BY DEF Entity
  <2>2. InitialSession.collectedEntities["customerId"] = NoValue
    BY <2>1 DEF InitialSession
  <2>. QED BY <2>2, IdAssumption DEF Init, Holds
<1>5. SharedOnlyByMention
  BY DEF Init, SharedOnlyByMention
<1>. QED BY <1>2, <1>3, <1>4, <1>5 DEF ConversationInv, Init

\* A turn and the storing of its outcome, on any session and index a call may
\* pass them (runCustomerServiceApi, saveStoredSession).
LEMMA RunApiKeepsConversationInv ==
    ASSUME ConversationInv,
           NEW sid \in Session, NEW m \in messages, NEW s \in SessionState,
           NEW index \in [Customer -> Session \cup {NoSession}],
           Ready(s), Asked(s), s.turns = sessions[sid].turns,
           \A c \in Customer : s.collectedEntities["customerId"] = c =>
               sid = OwnSession[c] \/ NamedIn(c, sid),
           \A c \in Customer : index[c] # NoSession =>
               index[c] = OwnSession[c] \/ NamedIn(c, index[c]),
           RunApi(s, index, sid, m),
           businessContext' = businessContext
    PROVE  ConversationInv'
<1>. DEFINE t == AgentTurn(AppendSessionTurn(s, m), m)
<1>1. businessContext \in Context /\ sessions \in [Session -> SessionState]
  BY DEF ConversationInv, TypeOK
<1>2. /\ t \in SessionState
      /\ t.turns = sessions[sid].turns \cup {m}
      /\ Ready(t) /\ Waits(t) /\ Asked(t) /\ Queued(t)
      /\ t.collectedEntities["customerId"] \in
             {s.collectedEntities["customerId"], NoValue}
             \cup {m.gives[e] : e \in {"customerId"} \cap DOMAIN m.gives}
  BY <1>1, TurnFields
<1>3. /\ sessions' = [sessions EXCEPT ![sid] = t]
      /\ customerIndex' = IndexedBy(index, t, sid)
  BY DEF RunApi
<1>. HIDE DEF t
<1>4. /\ sessions'[sid] = t
      /\ \A x \in Session \ {sid} : sessions'[x] = sessions[x]
  BY <1>1, <1>3
<1>5. pack' = pack /\ messages' = messages /\ SessionState' = SessionState
  BY DEF pack, messages, SessionState
<1>6. TypeOK'
  <2>1. sessions' \in [Session -> SessionState]
    BY <1>1, <1>2, <1>3
  <2>2. customerIndex' \in [Customer -> Session \cup {NoSession}]
    BY <1>3 DEF IndexedBy
  <2>. QED BY <1>1, <1>5, <2>1, <2>2 DEF TypeOK
<1>7. \A x \in Session, c \in Customer : NamedIn(c, x) => NamedIn(c, x)'
  BY <1>2, <1>4 DEF NamedIn
<1>8. \A c \in Customer : t.collectedEntities["customerId"] = c =>
          sid = OwnSession[c] \/ NamedIn(c, sid)'
  <2>. SUFFICES ASSUME NEW c \in Customer, t.collectedEntities["customerId"] = c
                PROVE  sid = OwnSession[c] \/ NamedIn(c, sid)'
    OBVIOUS
  <2>1. CASE s.collectedEntities["customerId"] = c
    BY <2>1, <1>7
  <2>2. CASE "customerId" \in DOMAIN m.gives /\ m.gives["customerId"] = c
    BY <2>2, <1>2, <1>4 DEF NamedIn
  <2>3. c # NoValue
    BY IdAssumption
  <2>. QED BY <1>2, <2>1, <2>2, <2>3
<1>9. ASSUME NEW x \in Session
      PROVE  Ready(sessions[x])' /\ Waits(sessions[x])' /\ Asked(sessions[x])'
             /\ Queued(sessions[x])' /\ Holds(x)'
  <2>1. CASE x = sid
    <3>1. Ready(sessions[x])' /\ Asked(sessions[x])' /\ Queued(sessions[x])'
      BY <2>1, <1>2, <1>4, <1>5 DEF Ready, Asked, Queued
    <3>2. Waits(sessions[x])'
      BY <2>1, <1>2, <1>4, <1>5 DEF Waits, MissingEntities
    <3>3. Holds(x)'
      BY <2>1, <1>4, <1>8 DEF Holds
    <3>. QED BY <3>1, <3>2, <3>3
  <2>2. CASE x # sid
    <3>1. sessions'[x] = sessions[x]
      BY <2>2, <1>4
    <3>2. Ready(sessions[x]) /\ Waits(sessions[x]) /\ Asked(sessions[x])
          /\ Queued(sessions[x]) /\ Holds(x)
      BY DEF ConversationInv
    <3>3. Ready(sessions[x])' /\ Asked(sessions[x])' /\ Queued(sessions[x])'
      BY <3>1, <3>2, <1>5 DEF Ready, Asked, Queued
    <3>4. Waits(sessions[x])'
      BY <3>1, <3>2, <1>5 DEF Waits, MissingEntities
    <3>5. Holds(x)'
      BY <3>1, <3>2, <1>7 DEF Holds
    <3>. QED BY <3>3, <3>4, <3>5
  <2>. QED BY <2>1, <2>2
<1>10. SharedOnlyByMention'
  <2>. SUFFICES ASSUME NEW c \in Customer, customerIndex'[c] # NoSession
                PROVE  (customerIndex[c] = OwnSession[c] \/ NamedIn(c, customerIndex[c]))'
    BY DEF SharedOnlyByMention
  <2>1. CASE t.collectedEntities["customerId"] = c
    <3>1. customerIndex'[c] = sid
      BY <2>1, <1>3 DEF IndexedBy
    <3>. QED BY <2>1, <3>1, <1>8 DEF NamedIn
  <2>2. CASE t.collectedEntities["customerId"] # c
    <3>1. customerIndex'[c] = index[c] /\ index[c] \in Session
      BY <2>2, <1>3 DEF IndexedBy
    <3>. QED BY <3>1, <1>7 DEF NamedIn
  <2>. QED BY <2>1, <2>2
<1>. QED BY <1>6, <1>9, <1>10 DEF ConversationInv

\* A request for a customer goes to that customer's own session or to one
\* that was told the customer's id (runCustomerServiceApiForCustomer).
LEMMA SessionForCustomer ==
    ASSUME ConversationInv, NEW c \in Customer
    PROVE  /\ SessionFor(c) \in Session
           /\ SessionFor(c) = OwnSession[c] \/ NamedIn(c, SessionFor(c))
BY IdAssumption DEF ConversationInv, TypeOK, SharedOnlyByMention, SessionFor

\* Both entry points of the API, and doing nothing, keep the invariant.
LEMMA NextKeepsConversationInv == ConversationInv /\ [Next]_vars => ConversationInv'
<1>. SUFFICES ASSUME ConversationInv, [Next]_vars PROVE ConversationInv'
  OBVIOUS
<1>1. /\ sessions \in [Session -> SessionState]
      /\ customerIndex \in [Customer -> Session \cup {NoSession}]
  BY DEF ConversationInv, TypeOK
<1>2. ASSUME NEW sid \in Session, NEW m \in messages, CustomerServiceApi(sid, m)
      PROVE  ConversationInv'
  <2>. DEFINE s == sessions[sid]
  <2>1. s \in SessionState /\ Ready(s) /\ Asked(s)
    BY <1>1 DEF ConversationInv
  <2>2. \A c \in Customer : s.collectedEntities["customerId"] = c =>
            sid = OwnSession[c] \/ NamedIn(c, sid)
    BY DEF ConversationInv, Holds
  <2>3. \A c \in Customer : customerIndex[c] # NoSession =>
            customerIndex[c] = OwnSession[c] \/ NamedIn(c, customerIndex[c])
    BY DEF ConversationInv, SharedOnlyByMention
  <2>4. RunApi(s, customerIndex, sid, m) /\ businessContext' = businessContext
    BY <1>2 DEF CustomerServiceApi
  <2>. QED BY <1>1, <2>1, <2>2, <2>3, <2>4, RunApiKeepsConversationInv
<1>3. ASSUME NEW c \in Customer, NEW m \in messages, CustomerServiceApiForCustomer(c, m)
      PROVE  ConversationInv'
  <2>. DEFINE sid == SessionFor(c)
              s == UpsertSessionEntities(sessions[sid], [e \in {"customerId"} |-> c])
              index == IndexedBy(customerIndex, s, sid)
  <2>1. /\ sid \in Session
        /\ sid = OwnSession[c] \/ NamedIn(c, sid)
    BY SessionForCustomer
  <2>2. RunApi(s, index, sid, m) /\ businessContext' = businessContext
    BY <1>3 DEF CustomerServiceApiForCustomer
  <2>. HIDE DEF sid
  <2>3. sessions[sid] \in SessionState /\ Ready(sessions[sid]) /\ Asked(sessions[sid])
    BY <1>1, <2>1 DEF ConversationInv
  <2>4. /\ s \in SessionState
        /\ s.conversationStatus = sessions[sid].conversationStatus
        /\ s.currentIntentId = sessions[sid].currentIntentId
        /\ s.handoffRequested = sessions[sid].handoffRequested
        /\ s.turns = sessions[sid].turns
        /\ s.collectedEntities["customerId"] = c
    <3>1. "customerId" \in Entity
      BY DEF Entity
    <3>2. c \in Value
      BY IdAssumption
    <3>3. \A values :
              /\ DOMAIN values \subseteq Entity
              /\ \A e \in DOMAIN values : values[e] \in Value
              => LET u == UpsertSessionEntities(sessions[sid], values)
                 IN /\ u \in SessionState
                    /\ u.conversationStatus = sessions[sid].conversationStatus
                    /\ u.currentIntentId = sessions[sid].currentIntentId
                    /\ u.handoffRequested = sessions[sid].handoffRequested
                    /\ u.turns = sessions[sid].turns
                    /\ \A e \in Entity : u.collectedEntities[e] =
                           IF e \in DOMAIN values THEN values[e]
                           ELSE sessions[sid].collectedEntities[e]
      BY <2>3, UpsertFields
    <3>4. DOMAIN [e \in {"customerId"} |-> c] = {"customerId"}
          /\ [e \in {"customerId"} |-> c]["customerId"] = c
      OBVIOUS
    <3>. QED BY <3>1, <3>2, <3>3, <3>4
  <2>. HIDE DEF s
  <2>5. Ready(s) /\ Asked(s)
    BY <2>3, <2>4 DEF Ready, Asked
  <2>6. \A c2 \in Customer : s.collectedEntities["customerId"] = c2 =>
            sid = OwnSession[c2] \/ NamedIn(c2, sid)
    BY <2>1, <2>4
  <2>7. /\ index \in [Customer -> Session \cup {NoSession}]
        /\ \A c2 \in Customer : index[c2] # NoSession =>
               index[c2] = OwnSession[c2] \/ NamedIn(c2, index[c2])
    BY <1>1, <2>1, <2>6 DEF IndexedBy, ConversationInv, SharedOnlyByMention
  <2>. HIDE DEF index
  <2>. QED BY <2>1, <2>2, <2>4, <2>5, <2>6, <2>7, RunApiKeepsConversationInv
<1>4. CASE UNCHANGED vars
  <2>1. pack' = pack /\ messages' = messages /\ SessionState' = SessionState
    BY <1>4 DEF vars, pack, messages, SessionState
  <2>. QED BY <1>4, <2>1 DEF vars, ConversationInv, TypeOK, Ready, Waits, Asked, Queued,
              Holds, NamedIn, SharedOnlyByMention, MissingEntities
<1>. QED BY <1>2, <1>3, <1>4 DEF Next

-----------------------------------------------------------------------------
(* The theorems.                                                           *)

\* The inductive invariant holds in every reachable state, for any packs,
\* messages, customers and sessions and any number of calls.
THEOREM ConversationInvariant == Spec => []ConversationInv
BY InitConversationInv, NextKeepsConversationInv, PTL DEF Spec

\* Sessions and the customer index (sessionStore, customerIndex) hold what
\* their types say.
THEOREM ConversationTypes == Spec => []TypeOK
<1>1. ConversationInv => TypeOK
  BY DEF ConversationInv
<1>. QED BY <1>1, ConversationInvariant, PTL

\* After every call, whichever entry point it came through, a session waits
\* for its user exactly for what its intent needs and no turn has given
\* (orchestrateConversationTurn).
THEOREM WaitingAlwaysMissing == Spec => []WaitingMeansMissing
<1>1. ConversationInv => WaitingMeansMissing
  BY DEF ConversationInv, WaitingMeansMissing, Waits
<1>. QED BY <1>1, ConversationInvariant, PTL

\* The mark of a hand-over stands exactly for customers who asked, and its
\* queue exactly until the next turn on another intent (setSessionIntent,
\* requestHumanHandoff).
THEOREM HandoffAlwaysIffAsked == Spec => []HandoffIffAsked
<1>1. ConversationInv => HandoffIffAsked
  BY DEF ConversationInv, HandoffIffAsked, Asked, Queued
<1>. QED BY <1>1, ConversationInvariant, PTL

\* Two conversations never meet in one session unless a message named the
\* other customer (saveStoredSession's customerIndex).
THEOREM SharedOnlyEverByMention == Spec => []SharedOnlyByMention
<1>1. ConversationInv => SharedOnlyByMention
  BY DEF ConversationInv
<1>. QED BY <1>1, ConversationInvariant, PTL

\* A reply that gives what the last answer asked for, and names no other
\* intent, never moves the conversation to another one and is never asked for
\* again (resolveEffectiveIntentId).
THEOREM ReplyAlwaysKeepsTheTopic == Spec => ReplyKeepsTheTopic
<1>. DEFINE Taken ==
       \A sid \in Session, m \in messages :
          LET s == sessions[sid]
              s2 == sessions'[sid]
          IN /\ ~m.explicit
             /\ AwaitsReply(s)
             /\ AsksFor(s) \cap DOMAIN m.gives # {}
             /\ CustomerServiceApi(sid, m)
             => /\ s2.currentIntentId = s.currentIntentId
                /\ AsksFor(s2) \cap DOMAIN m.gives = {}
<1>1. ConversationInv => Taken
  <2>. SUFFICES ASSUME ConversationInv, NEW sid \in Session, NEW m \in messages,
                       ~m.explicit, AwaitsReply(sessions[sid]),
                       AsksFor(sessions[sid]) \cap DOMAIN m.gives # {},
                       CustomerServiceApi(sid, m)
                PROVE  /\ sessions'[sid].currentIntentId = sessions[sid].currentIntentId
                       /\ AsksFor(sessions'[sid]) \cap DOMAIN m.gives = {}
    OBVIOUS
  <2>1. /\ businessContext \in Context
        /\ sessions \in [Session -> SessionState]
        /\ Ready(sessions[sid]) /\ Asked(sessions[sid])
    BY DEF ConversationInv, TypeOK
  <2>2. sessions'[sid] = AgentTurn(AppendSessionTurn(sessions[sid], m), m)
    BY <2>1 DEF CustomerServiceApi, RunApi
  <2>. QED BY <2>1, <2>2, ReplyIsTaken
<1>2. ConversationInv => [Taken]_vars
  BY <1>1
<1>. QED BY <1>2, ConversationInvariant, PTL DEF ReplyKeepsTheTopic

\* What a configuration must hold and its loader does not check: an
\* answer for every intent that is resolved and for every intent that has
\* something to ask for.
PackIsComplete ==
    /\ <<"request-human-handoff", "handoff-requested", "handoff">> \in pack.canonicalResponses
    /\ <<"close-conversation", "done", "closed">> \in pack.canonicalResponses
    /\ \A i \in DOMAIN pack.intents \ {"request-human-handoff", "close-conversation"} :
          /\ <<i, ResolvedStage(i), "resolved">> \in pack.canonicalResponses
          /\ pack.intents[i].requiredEntities # {} =>
                 <<i, MissingStage(i), "missing-entity">> \in pack.canonicalResponses

\* What a turn looks up depends on the session only in whether something is
\* missing, and something is missing only where the intent has something to ask for
\* (resolveStage, evaluateMissingEntities): with such a configuration no turn
\* throws, whatever the sessions went through.
THEOREM NoTurnEverThrows == Spec /\ []PackIsComplete => []NoTurnThrows
<1>1. ConversationInv /\ PackIsComplete => NoTurnThrows
  <2>. SUFFICES ASSUME ConversationInv, PackIsComplete,
                       NEW sid \in Session, NEW i \in DOMAIN pack.intents
                PROVE  AnswerKey(Orchestrate(sessions[sid], i)) \in pack.canonicalResponses
    BY DEF NoTurnThrows
  <2>. DEFINE s == sessions[sid]
              t == Orchestrate(s, i)
  <2>1. businessContext \in Context /\ s \in SessionState
    BY DEF ConversationInv, TypeOK
  <2>. HIDE DEF s
  <2>2. t.currentIntentId = i
    BY <2>1, OrchestrateFields
  <2>3. CASE i \in {"request-human-handoff", "close-conversation"}
    <3>1. \/ i = "request-human-handoff"
             /\ AnswerKey(t) = <<"request-human-handoff", "handoff-requested", "handoff">>
          \/ i = "close-conversation" /\ AnswerKey(t) = <<"close-conversation", "done", "closed">>
      <4>. HIDE DEF t
      <4>. QED BY <2>2, <2>3 DEF AnswerKey
    <3>. QED BY <3>1 DEF PackIsComplete, s
  <2>4. CASE i \notin {"request-human-handoff", "close-conversation"}
    <3>1. t.missingEntityIds = MissingEntities(s, i)
      BY <2>1, <2>4 DEF Orchestrate, SetSessionIntent, SessionState
    <3>2. t.missingEntityIds # {} => pack.intents[i].requiredEntities # {}
      BY <3>1 DEF MissingEntities
    <3>. HIDE DEF t
    <3>. QED BY <2>2, <2>4, <3>2 DEF AnswerKey, PackIsComplete, s, t
  <2>. QED BY <2>3, <2>4
<1>. QED BY <1>1, ConversationInvariant, PTL
=============================================================================
