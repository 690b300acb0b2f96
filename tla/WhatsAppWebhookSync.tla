------------------------- MODULE WhatsAppWebhookSync -------------------------
(***************************************************************************)
(* The default runtime's webhook, handleWhatsAppWebhook                    *)
(* (src/http/handlers/whatsapp-webhook.ts), over a synchronous store, with *)
(* the operators' endpoints on the same store.                             *)
(*                                                                         *)
(* The messages of a payload are worked on concurrently: Promise.all over  *)
(* one async callback each.  A callback runs without interruption from its *)
(* start to the await of the send, and from there to its end; "loop" holds *)
(* the callbacks of the current turn of the event loop, first the one that *)
(* is running.  Nothing else happens before the turn is over, except that  *)
(* a store call fails or the process dies.                                 *)
(*                                                                         *)
(* The session of a customer is abstracted to the set of messages it has   *)
(* taken in; ids made of a message's id and a kind to the pair.  A         *)
(* request's messages are those normalizeWhatsAppWebhook kept.  The 500    *)
(* for http delivery without a sender is left out: the runtime never makes *)
(* such a configuration (channels/whatsapp/runtime.ts).                    *)
(***************************************************************************)
EXTENDS Integers, Sequences, FiniteSetsExt

CONSTANTS Message,          \* channelMessageIds
          Customer,         \* customer ids
          CustomerOf,       \* CustomerOf[m]: who sent m
          TimeOf,           \* TimeOf[m]: the second the provider received m
          HandoffMessage,   \* messages the agent answers with a handoff
          Arrival,          \* HTTP requests to /webhooks/whatsapp
          Delivery,         \* requests handled, each at most once
          Mode,             \* runtime configurations
          MaxFaults         \* bound on failed store calls and crashes

ConversationEvent == Message \X {"inbound", "outbound", "handoff"}

StoreMode == {"none", "memory", "sqlite"}
DeliveryMode == {"skipped", "mock", "http"}

ASSUME WebhookAssumption ==
    /\ CustomerOf \in [Message -> Customer]
    /\ TimeOf \in [Message -> Nat]
    /\ HandoffMessage \subseteq Message
    /\ MaxFaults \in Nat
    /\ \A a \in Arrival : a.messages \in Seq(Message)
    /\ \A c \in Mode : c.store \in StoreMode /\ c.delivery \in DeliveryMode

VARIABLES mode,             \* the configuration the server was started with
          processed,        \* store: messages marked processed
          events,           \* store: rowid of each << m, kind >> kept
          session,          \* store: session[c], the messages taken in
          evidence,         \* store: evidence[c], the last message or none
          handoffs,         \* store: status by the message that asked
          del,              \* del[d]: where the request d stands
          loop,             \* << d, k >> callbacks of this turn, in order
          answered,         \* answered[m]: answers the provider took for m
          overlapped,       \* customers two callbacks worked for at a time
          interrupted,      \* messages whose work was cut off or forgotten
          faults            \* failed store calls and crashes so far

store == << processed, events, session, evidence, handoffs >>
vars == << mode, store, del, loop, answered, overlapped, interrupted, faults >>

-----------------------------------------------------------------------------
(* The request, up to Promise.all.                                         *)

(* The GET handshake: the provider proves it knows the verify token.       *)
HandshakeStatus(arrival) ==
    IF arrival.hubMode # "subscribe" \/ arrival.token = "none" THEN 400
    ELSE IF mode.store = "none" \/ arrival.token # "verify" THEN 403
    ELSE IF ~ arrival.challenge THEN 400
    ELSE 200

(* With an app secret configured only payloads the provider signed pass.   *)
SignatureStatus(arrival) ==
    IF ~ mode.secret THEN 0
    ELSE IF arrival.signature = "none" THEN 400
    ELSE IF arrival.signature # "valid" THEN 403
    ELSE 0

(* The status a request is answered with at once; 0 when it gets through.  *)
ImmediateStatus(arrival) ==
    IF arrival.method = "GET" THEN HandshakeStatus(arrival)
    ELSE IF arrival.method # "POST" THEN 405
    ELSE IF SignatureStatus(arrival) # 0 THEN SignatureStatus(arrival)
    ELSE IF arrival.body # "whatsapp" THEN 400
    ELSE 0

-----------------------------------------------------------------------------
(* Callbacks.                                                              *)

StoreSteps == {"dedupe", "duplicateSession", "load", "inbound", "outbound",
               "session", "evidence", "handoff", "handoffEvent", "mark"}
WriteSteps == StoreSteps \ {"dedupe", "duplicateSession", "load"}

Unused == [at |-> "waiting", messages |-> << >>, task |-> << >>, status |-> 0]

Open == {d \in Delivery : del[d].at = "open"}
Tasks == UNION {{<< d, k >> : k \in DOMAIN del[d].task} : d \in Open}

TaskAt(w) == del[w[1]].task[w[2]].at
MsgOf(w) == del[w[1]].messages[w[2]]
CustOf(w) == CustomerOf[MsgOf(w)]

(* Callbacks that hold a session they will save.                           *)
Working == {w \in Tasks : TaskAt(w) \in WriteSteps \cup {"sending"}}

Running(w, step) == loop # << >> /\ w = Head(loop) /\ TaskAt(w) = step

Goto(w, step) == del' = [del EXCEPT ![w[1]].task[w[2]].at = step]

(* The callback goes on with its next statement.                           *)
Proceed(w, step) == Goto(w, step) /\ UNCHANGED loop

(* The callback ends; the next one of the turn runs.                       *)
Settle(w, how) == Goto(w, how) /\ loop' = Tail(loop)

Settled(d) == \A k \in DOMAIN del[d].task : del[d].task[k].at = "settled"
Rejected(d) == \E k \in DOMAIN del[d].task : del[d].task[k].at = "rejected"

(* Mutant of Answerable: Promise.allSettled without a look at rejections.  *)
AnswerableWhenAllSettled(d) == d \in Open /\ del[d].status = 0 /\ Settled(d)

(* Promise.all has settled and the request is not answered yet.            *)
Answerable(d) ==
    d \in Open /\ del[d].status = 0 /\ (Settled(d) \/ Rejected(d))

Idle == loop = << >> /\ \A d \in Delivery : ~ Answerable(d)

Init ==
    /\ mode \in Mode
    /\ processed = {}
    /\ events = << >>
    /\ session = [c \in Customer |-> {}]
    /\ evidence = [c \in Customer |-> {}]
    /\ handoffs = << >>
    /\ del = [d \in Delivery |-> Unused]
    /\ loop = << >>
    /\ answered = [m \in Message |-> 0]
    /\ overlapped = {} /\ interrupted = {}
    /\ faults = 0

(* A request arrives.  A refused one is answered and changes nothing; a    *)
(* payload of the provider has every callback started, in order.           *)
Receive(d, arrival) ==
    /\ Idle
    /\ del[d].at = "waiting"
    /\ IF ImmediateStatus(arrival) # 0
       THEN /\ del' = [del EXCEPT ![d].at = "done",
                                  ![d].status = ImmediateStatus(arrival)]
            /\ UNCHANGED loop
       ELSE /\ del' = [del EXCEPT
                 ![d].at = "open", ![d].messages = arrival.messages,
                 ![d].task = [k \in DOMAIN arrival.messages |->
                                [at |-> "dedupe", session |-> {}]]]
            /\ loop' = [k \in DOMAIN arrival.messages |-> << d, k >>]
    /\ UNCHANGED << mode, store, answered, overlapped, interrupted, faults >>

(* Mutants of CheckDuplicate: hasProcessedMessage ignored; the mark set as  *)
(* soon as the message is checked.                                         *)
CheckDuplicateIgnored(w) ==
    /\ Running(w, "dedupe")
    /\ Proceed(w, "load")
    /\ UNCHANGED << mode, store, answered, overlapped, interrupted, faults >>

CheckDuplicateAndMark(w) ==
    /\ Running(w, "dedupe")
    /\ processed' = processed \cup {MsgOf(w)}
    /\ Proceed(w, IF MsgOf(w) \in processed THEN "duplicateSession" ELSE "load")
    /\ UNCHANGED << mode, events, session, evidence, handoffs, answered,
                    overlapped, interrupted, faults >>

CheckDuplicate(w) ==
    /\ Running(w, "dedupe")
    /\ Proceed(w, IF MsgOf(w) \in processed THEN "duplicateSession" ELSE "load")
    /\ UNCHANGED << mode, store, answered, overlapped, interrupted, faults >>

LoadDuplicateSession(w) ==
    /\ Running(w, "duplicateSession")
    /\ Settle(w, "settled")
    /\ UNCHANGED << mode, store, answered, overlapped, interrupted, faults >>

(* Where the callback goes once the agent has answered: on, out of the     *)
(* turn until the provider replies, or behind the callbacks of the turn    *)
(* that have not reached their send yet (the mock resolves at once).       *)
AfterAgent(w, to) ==
    CASE mode.delivery = "skipped" /\ mode.store # "none" -> to = "inbound" /\ UNCHANGED loop
      [] mode.delivery = "skipped" /\ mode.store = "none" -> to = "settled" /\ loop' = Tail(loop)
      [] mode.delivery = "mock" -> to = "inbound" /\ loop' = Append(Tail(loop), w)
      [] mode.delivery = "http" -> to = "sending" /\ loop' = Tail(loop)

(* Mutant of LoadSession: the agent starts from a fresh session.           *)
LoadSessionFresh(w) ==
    /\ Running(w, "load")
    /\ \E to \in {"inbound", "sending", "settled"} :
          /\ AfterAgent(w, to)
          /\ del' = [del EXCEPT ![w[1]].task[w[2]] =
                       [at |-> to, session |-> {MsgOf(w)}]]
    /\ overlapped' = overlapped \cup
         {c \in {CustOf(w)} : \E v \in Working : CustOf(v) = c}
    /\ UNCHANGED << mode, store, answered, interrupted, faults >>

(* Load the session, run the agent on it and hand its answer to the send.  *)
LoadSession(w) ==
    /\ Running(w, "load")
    /\ \E to \in {"inbound", "sending", "settled"} :
          /\ AfterAgent(w, to)
          /\ del' = [del EXCEPT ![w[1]].task[w[2]] =
                       [at |-> to, session |-> session[CustOf(w)] \cup {MsgOf(w)}]]
    /\ overlapped' = overlapped \cup
         {c \in {CustOf(w)} : \E v \in Working : CustOf(v) = c}
    /\ UNCHANGED << mode, store, answered, interrupted, faults >>

(* The provider took the answer, or refused it, or the call failed or      *)
(* timed out: send resolves all the same, and the callback goes on.        *)
SendResolves(w, accepted) ==
    /\ Idle
    /\ w \in Tasks /\ TaskAt(w) = "sending"
    /\ answered' = IF accepted THEN [answered EXCEPT ![MsgOf(w)] = @ + 1] ELSE answered
    /\ Goto(w, "inbound")
    /\ loop' = << w >>
    /\ UNCHANGED << mode, store, overlapped, interrupted, faults >>

-----------------------------------------------------------------------------
(* The writes of a callback: one synchronous burst, no transaction.        *)

(* Mutant of Stored: INSERT OR REPLACE, which gives the row a new rowid.   *)
StoredAnew(event) ==
    [e \in DOMAIN events \cup {event} |->
        IF e = event THEN 1 + Max({0} \cup {events[x] : x \in DOMAIN events})
        ELSE events[e]]

(* saveConversationEvent: sqlite updates a row in place, the memory store  *)
(* takes the earlier event out and adds the new one at the end.            *)
Stored(event) ==
    [e \in DOMAIN events \cup {event} |->
        IF e = event /\ (mode.store = "memory" \/ e \notin DOMAIN events)
        THEN 1 + Max({0} \cup {events[x] : x \in DOMAIN events})
        ELSE events[e]]

SaveEvent(w, step, kind, next) ==
    /\ Running(w, step)
    /\ events' = Stored(<< MsgOf(w), kind >>)
    /\ Proceed(w, next)
    /\ UNCHANGED << mode, processed, session, evidence, handoffs, answered,
                    overlapped, interrupted, faults >>

SaveInboundEvent(w) == SaveEvent(w, "inbound", "inbound", "outbound")
SaveOutboundEvent(w) == SaveEvent(w, "outbound", "outbound", "session")

SaveSession(w) ==
    /\ Running(w, "session")
    /\ session' = [session EXCEPT ![CustOf(w)] = del[w[1]].task[w[2]].session]
    /\ Proceed(w, "evidence")
    /\ UNCHANGED << mode, processed, events, evidence, handoffs, answered,
                    overlapped, interrupted, faults >>

SaveEvidence(w) ==
    /\ Running(w, "evidence")
    /\ evidence' = [evidence EXCEPT ![CustOf(w)] = {MsgOf(w)}]
    /\ Proceed(w, IF MsgOf(w) \in HandoffMessage THEN "handoff" ELSE "mark")
    /\ UNCHANGED << mode, processed, events, session, handoffs, answered,
                    overlapped, interrupted, faults >>

(* The record's id is made of the customer and the message: saving it      *)
(* again puts the record back to open, whatever became of it.              *)
SaveHandoff(w) ==
    /\ Running(w, "handoff")
    /\ handoffs' = [m \in DOMAIN handoffs \cup {MsgOf(w)} |->
                      IF m = MsgOf(w) THEN "open" ELSE handoffs[m]]
    /\ Proceed(w, "handoffEvent")
    /\ UNCHANGED << mode, processed, events, session, evidence, answered,
                    overlapped, interrupted, faults >>

SaveHandoffEvent(w) == SaveEvent(w, "handoffEvent", "handoff", "mark")

(* Mutant of MarkProcessed: the mark in the branch without a handoff.      *)
MarkUnlessHandoff(w) ==
    /\ Running(w, "mark")
    /\ processed' = processed \cup ({MsgOf(w)} \ HandoffMessage)
    /\ Settle(w, "settled")
    /\ UNCHANGED << mode, events, session, evidence, handoffs, answered,
                    overlapped, interrupted, faults >>

MarkProcessed(w) ==
    /\ Running(w, "mark")
    /\ processed' = processed \cup {MsgOf(w)}
    /\ Settle(w, "settled")
    /\ UNCHANGED << mode, events, session, evidence, handoffs, answered,
                    overlapped, interrupted, faults >>

(* All settled: 200.  A callback rejected: the router answers 500, and the *)
(* callbacks still waiting for the provider go on.                         *)
Respond(d) ==
    /\ loop = << >>
    /\ Answerable(d)
    /\ del' = [del EXCEPT ![d].status = IF Rejected(d) THEN 500 ELSE 200]
    /\ UNCHANGED << mode, store, loop, answered, overlapped, interrupted, faults >>

-----------------------------------------------------------------------------
(* The operators' endpoints on the same store.                             *)

(* GET /whatsapp/handoffs: what operators still have to attend to.         *)
handleListWhatsAppHandoffs == {m \in DOMAIN handoffs : handoffs[m] = "open"}

(* GET .../events: by time of arrival, events of one second as stored.     *)
Before(e, f) ==
    \/ TimeOf[e[1]] < TimeOf[f[1]]
    \/ TimeOf[e[1]] = TimeOf[f[1]] /\ events[e] < events[f]

(* POST /whatsapp/handoffs/:id/close; 404 for an id the store lacks.       *)
handleCloseWhatsAppHandoff(m) ==
    /\ Idle
    /\ m \in DOMAIN handoffs
    /\ handoffs' = [handoffs EXCEPT ![m] = "closed"]
    /\ UNCHANGED << mode, processed, events, session, evidence, del, loop,
                    answered, overlapped, interrupted, faults >>

-----------------------------------------------------------------------------
(* Failures.                                                               *)

(* A statement of sqlite throws: the callback rejects there, the turn goes *)
(* on with the next one.                                                   *)
StoreThrows ==
    /\ mode.store = "sqlite"
    /\ faults < MaxFaults
    /\ loop # << >>
    /\ Settle(Head(loop), "rejected")
    /\ interrupted' = interrupted \cup {MsgOf(Head(loop))}
    /\ faults' = faults + 1
    /\ UNCHANGED << mode, store, answered, overlapped >>

(* The process dies and is started again, on an empty store if it was in   *)
(* memory.  Requests in flight get no answer.                              *)
Crash ==
    /\ faults < MaxFaults
    /\ Open # {}
    /\ faults' = faults + 1
    /\ del' = [d \in Delivery |->
                 IF d \in Open THEN [del[d] EXCEPT !.at = "done"] ELSE del[d]]
    /\ loop' = << >>
    /\ interrupted' = interrupted \cup {MsgOf(w) : w \in Tasks}
         \cup (IF mode.store = "memory" THEN processed ELSE {})
    /\ IF mode.store = "memory"
       THEN /\ processed' = {} /\ events' = << >> /\ handoffs' = << >>
            /\ session' = [c \in Customer |-> {}]
            /\ evidence' = [c \in Customer |-> {}]
       ELSE UNCHANGED store
    /\ UNCHANGED << mode, answered, overlapped >>

(* The turn of the event loop goes on.                                     *)
Work(w) ==
    \/ CheckDuplicate(w) \/ LoadDuplicateSession(w) \/ LoadSession(w)
    \/ SaveInboundEvent(w) \/ SaveOutboundEvent(w) \/ SaveSession(w)
    \/ SaveEvidence(w) \/ SaveHandoff(w) \/ SaveHandoffEvent(w)
    \/ MarkProcessed(w)

Turn == loop # << >> /\ Work(Head(loop))

Next ==
    \/ \E d \in Delivery, arrival \in Arrival : Receive(d, arrival)
    \/ Turn
    \/ \E w \in Tasks, accepted \in BOOLEAN : SendResolves(w, accepted)
    \/ \E d \in Delivery : Respond(d)
    \/ \E m \in Message : handleCloseWhatsAppHandoff(m)
    \/ StoreThrows
    \/ Crash

Sent(d) == \E w \in Tasks, accepted \in BOOLEAN : w[1] = d /\ SendResolves(w, accepted)

(* A turn runs to its end, an answer is written, and a send resolves: the  *)
(* provider replies or the sender's timer aborts the call.                 *)
Fairness ==
    /\ WF_vars(Turn)
    /\ \A d \in Delivery : WF_vars(Respond(d)) /\ WF_vars(Sent(d))

Spec == Init /\ [][Next]_vars /\ Fairness

-----------------------------------------------------------------------------

TaskStep == StoreSteps \cup {"sending", "settled", "rejected"}

RequestOK(d) ==
    /\ DOMAIN del[d] = {"at", "messages", "task", "status"}
    /\ del[d].at \in {"waiting", "open", "done"}
    /\ del[d].messages \in Seq(Message)
    /\ DOMAIN del[d].task = DOMAIN del[d].messages
    /\ del[d].status \in {0, 200, 400, 403, 405, 500}
    /\ \A k \in DOMAIN del[d].task :
          /\ DOMAIN del[d].task[k] = {"at", "session"}
          /\ del[d].task[k].at \in TaskStep
          /\ del[d].task[k].session \subseteq Message

StoreTypeOK ==
    /\ mode \in Mode
    /\ processed \subseteq Message
    /\ events \in [DOMAIN events -> Nat] /\ DOMAIN events \subseteq ConversationEvent
    /\ session \in [Customer -> SUBSET Message]
    /\ evidence \in [Customer -> SUBSET Message]
    /\ handoffs \in [DOMAIN handoffs -> {"open", "closed"}]
    /\ DOMAIN handoffs \subseteq HandoffMessage
    /\ answered \in [Message -> Nat]
    /\ overlapped \subseteq Customer /\ interrupted \subseteq Message
    /\ faults \in 0..MaxFaults

(* Type invariant.                                                         *)
TypeOK ==
    /\ StoreTypeOK
    /\ DOMAIN del = Delivery
    /\ \A d \in Delivery : RequestOK(d)
    /\ loop \in Seq(Tasks)

(* The mark is the last write of the burst: a message that counts as       *)
(* processed, and is never worked on again, has its two events, evidence   *)
(* for its customer and, when the agent handed it off, the record and the  *)
(* handoff event - wherever the burst was cut off.                         *)
ProcessedIsRecorded ==
    \A m \in processed :
        /\ {<< m, "inbound" >>, << m, "outbound" >>} \subseteq DOMAIN events
        /\ evidence[CustomerOf[m]] # {}
        /\ m \in HandoffMessage =>
             m \in DOMAIN handoffs /\ << m, "handoff" >> \in DOMAIN events

(* A processed turn is missing from the stored session only when two       *)
(* callbacks, of one payload or of two, worked for the customer at a time. *)
TurnsLostOnlyByOverlap ==
    \A m \in processed :
        CustomerOf[m] \notin overlapped => m \in session[CustomerOf[m]]

(* The customer reads two answers to one message only after an overlap, a  *)
(* burst that was cut off, or a store lost with its process.               *)
AnsweredAgainOnlyByRework ==
    \A m \in Message :
        answered[m] > 1 => CustomerOf[m] \in overlapped \/ m \in interrupted

(* A handoff an operator closed is open again only when its message was    *)
(* worked on a second time, for one of the same reasons.                   *)
ReopenedOnlyByRework ==
    [][\A m \in DOMAIN handoffs :
          (m \in handleListWhatsAppHandoffs' /\ handoffs[m] = "closed")
              => CustomerOf[m] \in overlapped \/ m \in interrupted]_vars

(* The transcript operators and replays read: an answer comes after the    *)
(* message it answers, a handoff after the answer; and unless the burst    *)
(* was cut off no other event of the customer stands between them.         *)
TranscriptInTurns ==
    loop = << >> =>
        \A e \in DOMAIN events : e[2] # "inbound" =>
            \E f \in DOMAIN events :
                /\ f = << e[1], IF e[2] = "handoff" THEN "outbound" ELSE "inbound" >>
                /\ Before(f, e)
                /\ e[1] \notin interrupted =>
                     ~ \E g \in DOMAIN events :
                          /\ CustomerOf[g[1]] = CustomerOf[e[1]]
                          /\ Before(f, g) /\ Before(g, e)

-----------------------------------------------------------------------------
(* What makes these properties inductive.                                  *)

(* A callback stands in the turn once, from its start to its send or end;  *)
(* only the first one is in the middle of its work.                        *)
LoopInv ==
    /\ \A j, k \in DOMAIN loop : loop[j] = loop[k] => j = k
    /\ \A k \in DOMAIN loop :
          TaskAt(loop[k]) \in IF k = 1 THEN StoreSteps ELSE {"dedupe", "inbound"}
    /\ \A w \in Tasks :
          TaskAt(w) \in StoreSteps => \E k \in DOMAIN loop : w = loop[k]

AfterHandoff == {"handoffEvent", "mark"}
AfterEvidence == AfterHandoff \cup {"handoff"}
AfterSave == AfterEvidence \cup {"evidence"}
AfterOutbound == AfterSave \cup {"session"}
AfterInbound == AfterOutbound \cup {"outbound"}
BeforeSave == {"sending", "inbound", "outbound", "session"}

(* What a callback has behind it is in the store.                          *)
WorkStored(w) ==
    /\ TaskAt(w) \in AfterInbound => << MsgOf(w), "inbound" >> \in DOMAIN events
    /\ TaskAt(w) \in AfterOutbound => << MsgOf(w), "outbound" >> \in DOMAIN events
    /\ TaskAt(w) \in AfterEvidence => evidence[CustOf(w)] # {}
    /\ TaskAt(w) \in {"handoff", "handoffEvent"} => MsgOf(w) \in HandoffMessage
    /\ (TaskAt(w) \in AfterHandoff /\ MsgOf(w) \in HandoffMessage) =>
         MsgOf(w) \in DOMAIN handoffs
    /\ (TaskAt(w) = "mark" /\ MsgOf(w) \in HandoffMessage) =>
         << MsgOf(w), "handoff" >> \in DOMAIN events

(* The row stored last has the highest rowid: the next one is above all.   *)
IsLast(e) == \A x \in DOMAIN events : events[x] <= events[e]

HasLast == DOMAIN events # {} => \E e \in DOMAIN events : IsLast(e)

WebhookInv ==
    /\ TypeOK
    /\ LoopInv
    /\ HasLast
    /\ \A w \in Tasks : WorkStored(w)
    /\ ProcessedIsRecorded

(* Callbacks that work for the same customer show as an overlap; where     *)
(* there is none, the session a callback is about to save takes nothing    *)
(* away, and the one it saved has its message.                             *)
OverlapsSeen ==
    \A v, w \in Working : (v # w /\ CustOf(v) = CustOf(w)) => CustOf(v) \in overlapped

SessionOf(w) == del[w[1]].task[w[2]].session

TurnKept(w) ==
    CustOf(w) \notin overlapped =>
        /\ TaskAt(w) \in BeforeSave =>
             session[CustOf(w)] \cup {MsgOf(w)} \subseteq SessionOf(w)
        /\ TaskAt(w) \in AfterSave => MsgOf(w) \in session[CustOf(w)]

(* The excuses for working on a message again; without one, a message is   *)
(* worked on by one callback, before it is marked, and what was done for   *)
(* it was done by that callback or by the one that marked it.              *)
Reworked(m) == CustomerOf[m] \in overlapped \/ m \in interrupted

WorkIsFresh ==
    \A w \in Tasks :
        TaskAt(w) \in WriteSteps \cup {"sending", "load"} =>
            MsgOf(w) \notin processed \/ Reworked(MsgOf(w))

DoneBy(m, steps) ==
    m \in processed \/ \E w \in Tasks : MsgOf(w) = m /\ TaskAt(w) \in steps

AnswersAccountedFor ==
    \A m \in Message :
        /\ answered[m] > 0 => DoneBy(m, WriteSteps) \/ Reworked(m)
        /\ \A w \in Tasks : (TaskAt(w) = "sending" /\ MsgOf(w) = m) =>
              answered[m] = 0 \/ Reworked(m)

HandoffsAccountedFor ==
    \A m \in DOMAIN handoffs : DoneBy(m, AfterHandoff) \/ Reworked(m)

ReworkInv ==
    /\ OverlapsSeen
    /\ \A w \in Working : TurnKept(w)
    /\ TurnsLostOnlyByOverlap
    /\ WorkIsFresh
    /\ AnswersAccountedFor
    /\ AnsweredAgainOnlyByRework
    /\ HandoffsAccountedFor

(* In a burst each event is stored next to the one before it; in the       *)
(* memory store, which moves events to the end, an event of an earlier     *)
(* burst is out of place until the burst has come to it.                   *)
InBurst(m, steps) ==
    loop # << >> /\ MsgOf(Head(loop)) = m /\ TaskAt(Head(loop)) \in steps

Adjacent(e, f) ==
    f \in DOMAIN events =>
        /\ e \in DOMAIN events /\ events[e] < events[f]
        /\ e[1] \notin interrupted =>
             ~ \E g \in DOMAIN events : events[e] < events[g] /\ events[g] < events[f]

(* e is stored and the next event to store of its message, f, will come    *)
(* right after it, unless it has its place already.                        *)
Leads(e, f) ==
    /\ e \in DOMAIN events
    /\ IsLast(e) \/ (mode.store # "memory" /\ (f \in DOMAIN events \/ e[1] \in interrupted))

UntilOutbound == {"outbound"}
UntilHandoff == {"session", "evidence", "handoff", "handoffEvent"}

Transcribed(m) ==
    LET inbound == << m, "inbound" >>
        outbound == << m, "outbound" >>
        handoff == << m, "handoff" >>
    IN  /\ \/ Adjacent(inbound, outbound)
           \/ mode.store = "memory" /\ InBurst(m, UntilOutbound)
        /\ \/ Adjacent(outbound, handoff)
           \/ mode.store = "memory" /\ InBurst(m, UntilOutbound \cup UntilHandoff)
        /\ InBurst(m, UntilOutbound) => Leads(inbound, outbound)
        /\ (InBurst(m, UntilHandoff) /\ m \in HandoffMessage) => Leads(outbound, handoff)
        /\ inbound \in DOMAIN events =>
             \/ outbound \in DOMAIN events \/ m \in interrupted
             \/ InBurst(m, UntilOutbound)
        /\ (outbound \in DOMAIN events /\ m \in HandoffMessage) =>
             \/ handoff \in DOMAIN events \/ m \in interrupted
             \/ InBurst(m, UntilHandoff)
        /\ handoff \in DOMAIN events => m \in HandoffMessage

TranscriptInv == \A m \in Message : Transcribed(m)

-----------------------------------------------------------------------------
(* Liveness.                                                               *)

(* Every payload the server took is answered, unless the process died.     *)
EveryPayloadAnswered ==
    \A d \in Delivery :
        del[d].at = "open" ~> (del[d].status # 0 \/ del[d].at = "done")
=============================================================================
