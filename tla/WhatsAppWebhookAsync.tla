------------------------ MODULE WhatsAppWebhookAsync ------------------------
(***************************************************************************)
(* POST /webhooks/whatsapp in the async runtime:                           *)
(* handleAsyncWhatsAppWebhook (src/http/handlers/whatsapp-webhook-async.ts)*)
(* over the store and the journal that resolveAsyncWhatsAppRuntime pairs.  *)
(* One action per await of the handler: a failed query or a crash of the   *)
(* server can come between any two of them, another request wherever the   *)
(* await really waits.  The provider delivers a payload as often as it     *)
(* likes, in any order.                                                    *)
(*                                                                         *)
(* The session of a customer is abstracted to the set of messages it has   *)
(* taken in, an event id to the message and the kind of event.             *)
(***************************************************************************)
EXTENDS JournalChain

CONSTANTS Message,          \* channelMessageIds
          Customer,         \* customer ids
          CustomerOf,       \* CustomerOf[m]: who sent m
          HandoffMessage,   \* messages the agent answers with a handoff
          Batch,            \* webhook payloads: sequences of messages
          Request,          \* webhook deliveries, each handled at most once
          Mode,             \* runtime configurations [store, delivery]
          MaxFaults         \* bound on failed queries and crashes

(* A message is from one customer; a payload that reaches the handler's    *)
(* loop has a message.                                                     *)
ASSUME WebhookAssumption ==
    /\ CustomerOf \in [Message -> Customer]
    /\ HandoffMessage \subseteq Message
    /\ \A batch \in Batch : batch \in Seq(Message) /\ batch # << >>
    /\ MaxFaults \in Nat

VARIABLES mode,             \* the configuration the server was started with
          processed,        \* store: messages marked processed
          events,           \* store: << m, kind >> conversation events
          session,          \* store: session[c], the messages taken in
          evidence,         \* store: evidence[c], the last message or none
          handoffs,         \* store: messages with a handoff record
          journal,          \* journal[c]: rows of session "whatsapp:" + c
          sent,             \* << r, i >>: r got its answer to its i-th message out
          req,              \* req[r]: where the handler of r stands
          overlapped,       \* customers two requests worked for at a time
          faults            \* failed queries and crashes so far

store == << processed, events, session, evidence, handoffs >>
history == << sent, overlapped >>
vars == << mode, store, journal, history, req, faults >>

-----------------------------------------------------------------------------
(* The handler's program counter.                                          *)

JournalSteps == {"received", "handedOff", "processed", "duplicate"}
StoreSteps == {"dedupe", "duplicateSession", "load", "inbound", "outbound",
               "session", "evidence", "handoff", "handoffEvent", "mark"}
InFlight == JournalSteps \cup StoreSteps \cup {"deliver", "respond"}

Unused == [at |-> "waiting", batch |-> << >>, i |-> 1, known |-> {},
           session |-> {}, insert |-> << >>, status |-> 0]

At(r, step) == req[r].at = step
Msg(r) == req[r].batch[req[r].i]
Cust(r) == CustomerOf[Msg(r)]
MessagesOf(batch) == {batch[k] : k \in DOMAIN batch}
CustomersOf(batch) == {CustomerOf[m] : m \in MessagesOf(batch)}
Active == {r \in Request : req[r].at \in InFlight}

Goto(r, step) == req' = [req EXCEPT ![r].at = step]

(* Mutant of NextMessage: return where the code continues the loop.        *)
NextMessageNever(state) == [state EXCEPT !.at = "respond", !.insert = << >>]

(* continue, or the end of the loop over the payload's messages.           *)
NextMessage(state) ==
    IF state.i < Len(state.batch)
    THEN [state EXCEPT !.at = "received", !.i = @ + 1, !.insert = << >>]
    ELSE [state EXCEPT !.at = "respond", !.insert = << >>]

Finish(r, status) ==
    req' = [req EXCEPT ![r].at = "done", ![r].insert = << >>,
                       ![r].session = {}, ![r].status = status]

Init ==
    /\ mode \in Mode
    /\ processed = {} /\ events = {} /\ handoffs = {}
    /\ session = [c \in Customer |-> {}]
    /\ evidence = [c \in Customer |-> {}]
    /\ journal = [c \in Customer |-> << >>]
    /\ sent = {} /\ overlapped = {}
    /\ req = [r \in Request |-> Unused]
    /\ faults = 0

(* The provider posts a payload; validation passed.                        *)
Deliver(r, batch) ==
    /\ At(r, "waiting")
    /\ req' = [req EXCEPT ![r].at = "received", ![r].batch = batch,
                          ![r].known = processed \cap MessagesOf(batch)]
    /\ overlapped' = overlapped \cup
         {c \in CustomersOf(batch) :
            \E q \in Active : c \in CustomersOf(req[q].batch)}
    /\ UNCHANGED << mode, store, journal, sent, faults >>

-----------------------------------------------------------------------------
(* Journal appends.                                                        *)

EventKind(step) ==
    CASE step = "received"  -> "received"
      [] step = "handedOff" -> "handoff"
      [] OTHER              -> "processed"

(* The event a journal step of request r appends: its id is made of the    *)
(* customer, the message and the kind alone.                               *)
EventOf(r) ==
    NextStoredEvent(journal[Cust(r)], Cust(r),
                    << Msg(r), EventKind(req[r].at) >>, req[r].at)

(* Mutant of AfterAppend: a handed off message is reported processed       *)
(* without the mark.                                                       *)
AfterAppendUnmarked(state) ==
    CASE state.at = "received"  -> [state EXCEPT !.at = "dedupe", !.insert = << >>]
      [] state.at = "handedOff" -> [state EXCEPT !.at = "processed", !.insert = << >>]
      [] OTHER                  -> NextMessage(state)

(* Where the handler goes once the append resolved.                        *)
AfterAppend(state) ==
    CASE state.at = "received"  -> [state EXCEPT !.at = "dedupe", !.insert = << >>]
      [] state.at = "handedOff" -> [state EXCEPT !.at = "mark", !.insert = << >>]
      [] OTHER                  -> NextMessage(state)

(* The in-memory journal of store modes memory and sqlite: one step, and   *)
(* no look at event ids.                                                   *)
JournalPush(r) ==
    /\ mode.store # "postgres"
    /\ req[r].at \in JournalSteps
    /\ journal' = [journal EXCEPT ![Cust(r)] = WithRow(@, EventOf(r))]
    /\ req' = [req EXCEPT ![r] = AfterAppend(@)]
    /\ UNCHANGED << mode, store, history, faults >>

(* The Postgres journal: the SELECT ...                                    *)
JournalSelect(r) ==
    /\ mode.store = "postgres"
    /\ req[r].at \in JournalSteps
    /\ req[r].insert = << >>
    /\ req' = [req EXCEPT ![r].insert = << EventOf(r) >>]
    /\ UNCHANGED << mode, store, journal, history, faults >>

(* Mutant of JournalAllows: the table without UNIQUE (session_id, event_id). *)
JournalAllowsWithoutUnique(rows, event) == event.sequence \notin DOMAIN rows

JournalAllows(rows, event) ==
    /\ event.sequence \notin DOMAIN rows
    /\ event.eventId \notin EventIds(rows)

(* ... the INSERT that commits ...                                         *)
JournalInsert(r) ==
    /\ req[r].insert # << >>
    /\ LET event == req[r].insert[1] IN
        /\ JournalAllows(journal[Cust(r)], event)
        /\ journal' = [journal EXCEPT ![Cust(r)] = WithRow(@, event)]
    /\ req' = [req EXCEPT ![r] = AfterAppend(@)]
    /\ UNCHANGED << mode, store, history, faults >>

(* Mutants of JournalConflict: the conflict taken for an append made        *)
(* earlier, the provider told 200; the append retried until it succeeds.   *)
JournalConflictAnswered(r) ==
    /\ req[r].insert # << >>
    /\ ~ JournalAllows(journal[Cust(r)], req[r].insert[1])
    /\ Finish(r, 200)
    /\ UNCHANGED << mode, store, journal, history, faults >>

JournalConflictRetried(r) ==
    /\ req[r].insert # << >>
    /\ ~ JournalAllows(journal[Cust(r)], req[r].insert[1])
    /\ req' = [req EXCEPT ![r].insert = << >>]
    /\ UNCHANGED << mode, store, journal, history, faults >>

(* ... or is refused by a constraint: the handler throws, 500.             *)
JournalConflict(r) ==
    /\ req[r].insert # << >>
    /\ ~ JournalAllows(journal[Cust(r)], req[r].insert[1])
    /\ Finish(r, 500)
    /\ UNCHANGED << mode, store, journal, history, faults >>

-----------------------------------------------------------------------------
(* The store and the sender.                                               *)

(* Mutant of CheckDuplicate: the mark set as soon as the message is        *)
(* checked.                                                                *)
CheckDuplicateAndMark(r) ==
    /\ At(r, "dedupe")
    /\ processed' = processed \cup {Msg(r)}
    /\ Goto(r, IF Msg(r) \in processed THEN "duplicateSession" ELSE "load")
    /\ UNCHANGED << mode, events, session, evidence, handoffs, journal,
                    history, faults >>

CheckDuplicate(r) ==
    /\ At(r, "dedupe")
    /\ Goto(r, IF Msg(r) \in processed THEN "duplicateSession" ELSE "load")
    /\ UNCHANGED << mode, store, journal, history, faults >>

LoadDuplicateSession(r) ==
    /\ At(r, "duplicateSession")
    /\ Goto(r, "duplicate")
    /\ UNCHANGED << mode, store, journal, history, faults >>

(* Mutant of LoadSession: the agent starts from a fresh session.           *)
LoadSessionFresh(r) ==
    /\ At(r, "load")
    /\ req' = [req EXCEPT
         ![r].session = {Msg(r)},
         ![r].at = IF mode.delivery = "skipped" THEN "inbound" ELSE "deliver"]
    /\ UNCHANGED << mode, store, journal, history, faults >>

(* Load the session and run the agent on it: bridge.session is kept in the *)
(* handler until it is saved.                                              *)
LoadSession(r) ==
    /\ At(r, "load")
    /\ req' = [req EXCEPT
         ![r].session = session[Cust(r)] \cup {Msg(r)},
         ![r].at = IF mode.delivery = "skipped" THEN "inbound" ELSE "deliver"]
    /\ UNCHANGED << mode, store, journal, history, faults >>

(* The provider accepted the answer or not.  The sender never throws: a    *)
(* refusal, a network error, a timeout (also one after the provider        *)
(* accepted) come back as ok: false, and the handler goes on the same way. *)
SendAnswer(r, accepted) ==
    /\ At(r, "deliver")
    /\ sent' = IF accepted THEN sent \cup {<< r, req[r].i >>} ELSE sent
    /\ Goto(r, "inbound")
    /\ UNCHANGED << mode, store, journal, overlapped, faults >>

SaveEvent(r, step, kind, next) ==
    /\ At(r, step)
    /\ events' = events \cup {<< Msg(r), kind >>}
    /\ Goto(r, next)
    /\ UNCHANGED << mode, processed, session, evidence, handoffs, journal,
                    history, faults >>

SaveInboundEvent(r) == SaveEvent(r, "inbound", "inbound", "outbound")
SaveOutboundEvent(r) == SaveEvent(r, "outbound", "outbound", "session")

SaveSession(r) ==
    /\ At(r, "session")
    /\ session' = [session EXCEPT ![Cust(r)] = req[r].session]
    /\ Goto(r, "evidence")
    /\ UNCHANGED << mode, processed, events, evidence, handoffs, journal,
                    history, faults >>

SaveEvidence(r) ==
    /\ At(r, "evidence")
    /\ evidence' = [evidence EXCEPT ![Cust(r)] = {Msg(r)}]
    /\ Goto(r, IF Msg(r) \in HandoffMessage THEN "handoff" ELSE "mark")
    /\ UNCHANGED << mode, processed, events, session, handoffs, journal,
                    history, faults >>

SaveHandoff(r) ==
    /\ At(r, "handoff")
    /\ handoffs' = handoffs \cup {Msg(r)}
    /\ Goto(r, "handoffEvent")
    /\ UNCHANGED << mode, processed, events, session, evidence, journal,
                    history, faults >>

SaveHandoffEvent(r) == SaveEvent(r, "handoffEvent", "handoff", "handedOff")

MarkProcessed(r) ==
    /\ At(r, "mark")
    /\ processed' = processed \cup {Msg(r)}
    /\ Goto(r, "processed")
    /\ UNCHANGED << mode, events, session, evidence, handoffs, journal,
                    history, faults >>

Respond(r) ==
    /\ At(r, "respond")
    /\ Finish(r, 200)
    /\ UNCHANGED << mode, store, journal, history, faults >>

-----------------------------------------------------------------------------
(* Failures.                                                               *)

(* A query of the sqlite or Postgres store or of the Postgres journal      *)
(* rejects: nothing catches it before the router, which answers 500.  At   *)
(* respond it is the payload's last append: committed, its reply lost.     *)
QueryFails(r) ==
    /\ faults < MaxFaults
    /\ \/ mode.store # "memory" /\ req[r].at \in StoreSteps
       \/ mode.store = "postgres" /\ req[r].at \in JournalSteps \cup {"respond"}
    /\ faults' = faults + 1
    /\ Finish(r, 500)
    /\ UNCHANGED << mode, store, journal, history >>

(* The server process dies and is started again: deliveries in flight get  *)
(* no answer; what was kept in memory is gone.                             *)
Crash ==
    /\ faults < MaxFaults
    /\ Active # {}
    /\ faults' = faults + 1
    /\ req' = [r \in Request |->
                 IF r \in Active
                 THEN [req[r] EXCEPT !.at = "done", !.insert = << >>,
                                     !.session = {}, !.status = 0]
                 ELSE req[r]]
    /\ IF mode.store = "memory"
       THEN /\ processed' = {} /\ events' = {} /\ handoffs' = {}
            /\ session' = [c \in Customer |-> {}]
            /\ evidence' = [c \in Customer |-> {}]
       ELSE UNCHANGED store
    /\ IF mode.store = "postgres"
       THEN UNCHANGED journal
       ELSE journal' = [c \in Customer |-> << >>]
    /\ UNCHANGED << mode, history >>

(* The memory and sqlite stores and the in-memory journal are synchronous  *)
(* behind their promises: a handler awaiting them resumes before the event *)
(* loop turns to another request.  The sender's HTTP call and the queries  *)
(* of Postgres really wait.                                                *)
HasEventLoop(r) ==
    mode.store = "postgres" \/ \A q \in Active \ {r} : At(q, "deliver")

Handle(r) ==
    /\ HasEventLoop(r)
    /\ \/ JournalPush(r) \/ JournalSelect(r) \/ JournalInsert(r) \/ JournalConflict(r)
       \/ CheckDuplicate(r) \/ LoadDuplicateSession(r) \/ LoadSession(r)
       \/ \E accepted \in BOOLEAN : SendAnswer(r, accepted)
       \/ SaveInboundEvent(r) \/ SaveOutboundEvent(r) \/ SaveSession(r)
       \/ SaveEvidence(r) \/ SaveHandoff(r) \/ SaveHandoffEvent(r)
       \/ MarkProcessed(r) \/ Respond(r)

Next ==
    \/ \E r \in Request :
          \/ \E batch \in Batch : HasEventLoop(r) /\ Deliver(r, batch)
          \/ Handle(r)
          \/ QueryFails(r)
    \/ Crash

(* Awaited calls settle and the event loop resumes every handler.          *)
Fairness == \A r \in Request : WF_vars(Handle(r))

Spec == Init /\ [][Next]_vars /\ Fairness

-----------------------------------------------------------------------------

ConversationEvent == Message \X {"inbound", "outbound", "handoff"}

HandlerTypeOK(r) ==
    /\ req[r].at \in InFlight \cup {"waiting", "done"}
    /\ req[r].batch \in Batch \cup {<< >>}
    /\ req[r].known \subseteq Message
    /\ req[r].session \subseteq Message
    /\ req[r].status \in {0, 200, 500}
    /\ req[r].at \in InFlight => req[r].i \in DOMAIN req[r].batch

StoreTypeOK ==
    /\ mode \in Mode
    /\ processed \subseteq Message
    /\ events \subseteq ConversationEvent
    /\ session \in [Customer -> SUBSET Message]
    /\ evidence \in [Customer -> SUBSET Message]
    /\ handoffs \subseteq HandoffMessage
    /\ DOMAIN journal = Customer
    /\ overlapped \subseteq Customer
    /\ faults \in 0..MaxFaults

(* Type invariant.                                                         *)
TypeOK == StoreTypeOK /\ \A r \in Request : HandlerTypeOK(r)

Written(c) == {journal[c][n].eventId : n \in DOMAIN journal[c]}
WrittenAs(c, m, body) ==
    {n \in DOMAIN journal[c] : journal[c][n].eventId[1] = m /\ journal[c][n].body = body}

(* The mark is the last thing the store learns of a message: a message     *)
(* that counts as processed, and so is never worked on again, has its two  *)
(* conversation events, its customer's evidence and, if the agent handed   *)
(* it off, the handoff record and event - whatever failed or crashed.      *)
ProcessedIsRecorded ==
    \A m \in processed :
        /\ {<< m, "inbound" >>, << m, "outbound" >>} \subseteq events
        /\ evidence[CustomerOf[m]] # {}
        /\ m \in HandoffMessage =>
             m \in handoffs /\ << m, "handoff" >> \in events

(* In a customer's chain the outcome of a message comes after its arrival  *)
(* and, for a handoff, after the handoff; and only once the store had it   *)
(* marked.                                                                 *)
JournalTellsTheStory ==
    \A c \in Customer : \A n \in DOMAIN journal[c] :
        LET m == journal[c][n].eventId[1] IN
        /\ journal[c][n].body = "processed" =>
             /\ \E k \in WrittenAs(c, m, "received") : k < n
             /\ m \in HandoffMessage => \E k \in WrittenAs(c, m, "handedOff") : k < n
             /\ m \in processed
        /\ journal[c][n].body = "duplicate" => m \in processed

(* 200 makes the provider stop repeating a payload: by then every message  *)
(* of it is marked and, in the durable journal, has its outcome.           *)
AnsweredMeansProcessed ==
    \A r \in Request : req[r].status = 200 =>
        \A m \in MessagesOf(req[r].batch) :
            /\ mode.store # "memory" => m \in processed
            /\ mode.store = "postgres" =>
                 << m, "processed" >> \in Written(CustomerOf[m])

AnswersTo(m) == {x \in sent : req[x[1]].batch[x[2]] = m}

(* On the Postgres runtime a message is answered at most once, however     *)
(* deliveries, retries, failed queries and crashes interleave.             *)
AtMostOneAnswerOnPostgres ==
    mode.store = "postgres" =>
        \A m \in Message : Cardinality(AnswersTo(m)) <= 1

(* A turn of the conversation can only go missing from the stored session  *)
(* when two deliveries worked for the customer at the same time.           *)
TurnsLostOnlyByOverlap ==
    \A m \in processed :
        CustomerOf[m] \notin overlapped => m \in session[CustomerOf[m]]

-----------------------------------------------------------------------------
(* What makes these properties inductive.                                  *)

HandlerField == {"at", "batch", "i", "known", "session", "insert", "status"}

(* A handler's record; who hands off has a message to hand off.            *)
Handler(r) ==
    /\ DOMAIN req[r] = HandlerField
    /\ req[r].i \in Nat \ {0}
    /\ At(r, "waiting") => req[r] = Unused
    /\ req[r].insert # << >> =>
         /\ req[r].at \in JournalSteps
         /\ req[r].insert[1].eventId = << Msg(r), EventKind(req[r].at) >>
    /\ req[r].at \in {"handoff", "handoffEvent", "handedOff"} =>
         Msg(r) \in HandoffMessage

Handlers == DOMAIN req = Request /\ \A r \in Request : Handler(r)

AfterHandoffEvent == {"handedOff", "mark"}
AfterHandoff == AfterHandoffEvent \cup {"handoffEvent"}
AfterEvidence == AfterHandoff \cup {"handoff"}
AfterOutbound == AfterEvidence \cup {"session", "evidence"}
AfterInbound == AfterOutbound \cup {"outbound"}

(* What a handler has behind it is in the store.                           *)
Work(r) ==
    /\ req[r].at \in AfterInbound => << Msg(r), "inbound" >> \in events
    /\ req[r].at \in AfterOutbound => << Msg(r), "outbound" >> \in events
    /\ req[r].at \in AfterEvidence => evidence[Cust(r)] # {}
    /\ (req[r].at \in AfterHandoff /\ Msg(r) \in HandoffMessage) =>
         Msg(r) \in handoffs
    /\ (req[r].at \in AfterHandoffEvent /\ Msg(r) \in HandoffMessage) =>
         << Msg(r), "handoff" >> \in events

WorkIsRecorded == \A r \in Request : Work(r)

(* Request r has the received event of its i-th message behind it.         *)
Holds(r, i) ==
    /\ i \in DOMAIN req[r].batch
    /\ \/ i < req[r].i
       \/ i = req[r].i /\ req[r].at \in InFlight \ {"received"}
       \/ << r, i >> \in sent

(* On Postgres that event is in the journal and it is r that put it there: *)
(* nobody else gets past it with the same message.                         *)
HeldIsReceived ==
    mode.store = "postgres" =>
        \A r \in Request, i \in Nat : Holds(r, i) =>
            << req[r].batch[i], "received" >> \in Written(CustomerOf[req[r].batch[i]])

HeldByOne ==
    mode.store = "postgres" =>
        \A r \in Request, q \in Request, i \in Nat, j \in Nat :
            (Holds(r, i) /\ Holds(q, j) /\ req[r].batch[i] = req[q].batch[j])
                => r = q /\ i = j

SentPositions ==
    \A x \in sent : /\ x \in Request \X Nat
                    /\ x[2] \in DOMAIN req[x[1]].batch

WebhookInv ==
    /\ TypeOK
    /\ Handlers
    /\ WorkIsRecorded
    /\ ProcessedIsRecorded
    /\ SentPositions
    /\ HeldIsReceived
    /\ HeldByOne

(* Deliveries that work for the same customer show as an overlap; where    *)
(* there is none, the session a handler is about to save takes nothing     *)
(* away, and the one it saved has its message.                             *)
OverlapsSeen ==
    \A r, q \in Active : r # q =>
        CustomersOf(req[r].batch) \cap CustomersOf(req[q].batch) \subseteq overlapped

BeforeSave == {"deliver", "inbound", "outbound", "session"}
AfterSave == AfterEvidence \cup {"evidence"}

TurnKept(r) ==
    Cust(r) \notin overlapped =>
        /\ req[r].at \in BeforeSave =>
             session[Cust(r)] \cup {Msg(r)} \subseteq req[r].session
        /\ req[r].at \in AfterSave => Msg(r) \in session[Cust(r)]

TurnInv ==
    /\ OverlapsSeen
    /\ \A r \in Active : TurnKept(r)
    /\ TurnsLostOnlyByOverlap

(* The rows of a customer are a chain, and an event between its two        *)
(* queries follows the rows it was built from.                             *)
ChainsLinked ==
    \A c \in Customer :
        /\ Gapless(journal[c]) /\ Linked(journal[c])
        /\ \A n \in DOMAIN journal[c] : HasFields(journal[c][n])

Pending(r) ==
    req[r].insert # << >> =>
        /\ mode.store = "postgres"
        /\ HasFields(req[r].insert[1])
        /\ req[r].insert[1].sequence \in Nat \ {0}
        /\ req[r].insert[1].body = req[r].at
        /\ PendingFollowsSelect(journal[Cust(r)], req[r].insert[1])

(* What a handler has behind it is in the chain too, and in the store when *)
(* it reports the outcome.                                                 *)
Told(r) ==
    /\ req[r].at \notin {"received", "respond"} =>
         WrittenAs(Cust(r), Msg(r), "received") # {}
    /\ (req[r].at \in {"mark", "processed"} /\ Msg(r) \in HandoffMessage) =>
         WrittenAs(Cust(r), Msg(r), "handedOff") # {}
    /\ req[r].at \in {"duplicateSession", "duplicate", "processed"} =>
         Msg(r) \in processed

(* Request r is through with the k-th message of its payload.              *)
Finished(r, k) ==
    \/ req[r].status = 200 \/ At(r, "respond")
    \/ req[r].at \in InFlight /\ k < req[r].i

OutcomeStored(m) ==
    /\ mode.store # "memory" => m \in processed
    /\ mode.store = "postgres" => << m, "processed" >> \in Written(CustomerOf[m])

FinishedIsStored ==
    \A r \in Request : \A k \in DOMAIN req[r].batch :
        Finished(r, k) => OutcomeStored(req[r].batch[k])

StoryInv ==
    /\ ChainsLinked
    /\ \A r \in Request : Pending(r)
    /\ \A r \in Active : Told(r)
    /\ JournalTellsTheStory
    /\ FinishedIsStored

-----------------------------------------------------------------------------
(* Liveness.                                                               *)

(* Without the Postgres journal's constraints and without faults, every    *)
(* message of a payload the server took is processed in the end, whatever  *)
(* other deliveries do at the same time.                                   *)
DeliveredIsProcessed ==
    \A r \in Request :
        (mode.store # "postgres" /\ req[r].at = "received") ~>
            (MessagesOf(req[r].batch) \subseteq processed \/ faults > 0)

(* A handler always comes to an end: answered, or cut off by a crash.      *)
EveryDeliveryFinishes ==
    \A r \in Request : req[r].at = "received" ~> req[r].at = "done"

-----------------------------------------------------------------------------
(* What the repository's documents say of the webhook.                     *)

(* docs/whatsapp-runtime.md: re-sending a processed message is answered as *)
(* a duplicate.  Without faults, a delivery whose messages were all marked *)
(* when it arrived does not end in 500.                                    *)
ReplayIsAnsweredAsDuplicate ==
    \A r \in Request :
        (faults = 0 /\ MessagesOf(req[r].batch) \subseteq req[r].known)
            => req[r].status # 500

(* docs/whatsapp-runtime.md: idempotency by channelMessageId.  Without     *)
(* faults, a message is answered once.                                     *)
IdempotentByMessageId ==
    faults = 0 => \A m \in Message : Cardinality(AnswersTo(m)) <= 1
=============================================================================
