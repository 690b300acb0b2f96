--------------------- MODULE WhatsAppWebhookAsync_proofs ---------------------
(***************************************************************************)
(* For any payloads, deliveries, customers and faults: what is marked      *)
(* processed is fully recorded, on the Postgres runtime no message is      *)
(* answered twice, a turn goes missing only where deliveries overlapped,   *)
(* 200 means processed, the journal tells each message's story in order,   *)
(* and a replay of it up to an event never changes.                        *)
(***************************************************************************)
EXTENDS WhatsAppConversationReplay, JournalChain_proofs

(* A step of request r changes no record but that of r.                    *)
Moves(r) ==
    /\ DOMAIN req' = Request
    /\ \A q \in Request \ {r} : req'[q] = req[q]

-----------------------------------------------------------------------------
(* What the ways to update a handler do to its fields.                     *)

(* Goto changes the program counter alone.                                 *)
LEMMA GotoMoves ==
    ASSUME Handlers, NEW r \in Request, NEW step, Goto(r, step)
    PROVE  /\ Moves(r)
           /\ DOMAIN req'[r] = HandlerField
           /\ req'[r].at = step
           /\ req'[r].batch = req[r].batch /\ req'[r].i = req[r].i
           /\ req'[r].known = req[r].known /\ req'[r].session = req[r].session
           /\ req'[r].insert = req[r].insert /\ req'[r].status = req[r].status
BY DEF Handlers, Handler, Goto, Moves, HandlerField

(* Finish answers with a status and forgets the session and the insert.    *)
LEMMA FinishMoves ==
    ASSUME Handlers, NEW r \in Request, NEW status, Finish(r, status)
    PROVE  /\ Moves(r)
           /\ DOMAIN req'[r] = HandlerField
           /\ req'[r].at = "done"
           /\ req'[r].batch = req[r].batch /\ req'[r].i = req[r].i
           /\ req'[r].known = req[r].known /\ req'[r].session = {}
           /\ req'[r].insert = << >> /\ req'[r].status = status
BY DEF Handlers, Handler, Finish, Moves, HandlerField

(* Once an append resolved the handler goes on with the message, or with   *)
(* the next one from its beginning, or to the answer after the last.       *)
LEMMA AfterAppendMoves ==
    ASSUME Handlers, NEW r \in Request, req[r].at \in JournalSteps,
           req' = [req EXCEPT ![r] = AfterAppend(@)]
    PROVE  /\ Moves(r)
           /\ DOMAIN req'[r] = HandlerField
           /\ req'[r].batch = req[r].batch /\ req'[r].known = req[r].known
           /\ req'[r].session = req[r].session /\ req'[r].status = req[r].status
           /\ req'[r].insert = << >>
           /\ \/ At(r, "received") /\ req'[r].at = "dedupe" /\ req'[r].i = req[r].i
              \/ At(r, "handedOff") /\ req'[r].at = "mark" /\ req'[r].i = req[r].i
              \/ /\ req[r].at \in {"processed", "duplicate"}
                 /\ req[r].i < Len(req[r].batch)
                 /\ req'[r].at = "received" /\ req'[r].i = req[r].i + 1
              \/ /\ req[r].at \in {"processed", "duplicate"}
                 /\ ~ (req[r].i < Len(req[r].batch))
                 /\ req'[r].at = "respond" /\ req'[r].i = req[r].i
<1>1. req'[r] = AfterAppend(req[r]) /\ Moves(r)
    BY DEF Handlers, Handler, Moves
<1>2. CASE At(r, "received")
    BY <1>1, <1>2 DEF Handlers, Handler, HandlerField, AfterAppend, At
<1>3. CASE At(r, "handedOff")
    BY <1>1, <1>3 DEF Handlers, Handler, HandlerField, AfterAppend, At
<1>4. CASE req[r].at \in {"processed", "duplicate"}
    <2>1. req'[r] = NextMessage(req[r])
        BY <1>1, <1>4 DEF AfterAppend
    <2>2. CASE req[r].i < Len(req[r].batch)
        BY <1>1, <1>4, <2>1, <2>2 DEF Handlers, Handler, HandlerField, NextMessage
    <2>3. CASE ~ (req[r].i < Len(req[r].batch))
        BY <1>1, <1>4, <2>1, <2>3 DEF Handlers, Handler, HandlerField, NextMessage
    <2> QED
        BY <2>2, <2>3
<1> QED
    BY <1>2, <1>3, <1>4 DEF JournalSteps, At

(* A payload arrives: the handler starts at its first message.             *)
LEMMA DeliverMoves ==
    ASSUME Handlers, NEW r \in Request, NEW batch, Deliver(r, batch)
    PROVE  /\ Moves(r)
           /\ DOMAIN req'[r] = HandlerField
           /\ req'[r].at = "received" /\ req'[r].batch = batch /\ req'[r].i = 1
           /\ req'[r].known = processed \cap MessagesOf(batch)
           /\ req'[r].session = {} /\ req'[r].insert = << >> /\ req'[r].status = 0
BY DEF Deliver, Moves, Handlers, Handler, HandlerField, Unused

(* The SELECT of an append: the handler holds the event to insert.         *)
LEMMA JournalSelectMoves ==
    ASSUME Handlers, NEW r \in Request, JournalSelect(r)
    PROVE  /\ Moves(r)
           /\ DOMAIN req'[r] = HandlerField
           /\ req'[r].at = req[r].at /\ req'[r].batch = req[r].batch
           /\ req'[r].i = req[r].i /\ req'[r].known = req[r].known
           /\ req'[r].session = req[r].session /\ req'[r].status = req[r].status
           /\ req'[r].insert = << EventOf(r) >>
BY DEF JournalSelect, Moves, Handlers, Handler, HandlerField

(* The session is loaded, the agent has run on it.                         *)
LEMMA LoadSessionMoves ==
    ASSUME Handlers, NEW r \in Request, LoadSession(r)
    PROVE  /\ Moves(r)
           /\ DOMAIN req'[r] = HandlerField
           /\ req'[r].at \in {"inbound", "deliver"}
           /\ req'[r].batch = req[r].batch /\ req'[r].i = req[r].i
           /\ req'[r].known = req[r].known /\ req'[r].insert = req[r].insert
           /\ req'[r].status = req[r].status
           /\ req'[r].session = session[Cust(r)] \cup {Msg(r)}
BY DEF LoadSession, Moves, Handlers, Handler, HandlerField

-----------------------------------------------------------------------------
(* What a step of r leaves intact for everybody else.                      *)

(* A step that is not a crash only adds to the records of the store and,   *)
(* on Postgres, to what the chains name.                                   *)
Grows ==
    /\ mode' = mode
    /\ events \subseteq events'
    /\ handoffs \subseteq handoffs'
    /\ \A c \in Customer : evidence[c] # {} => evidence'[c] # {}
    /\ mode.store = "postgres" =>
         \A c \in Customer : Written(c) \subseteq Written(c)'

(* Whoever did not move keeps its types, its shape and its work.           *)
LEMMA OthersKeep ==
    ASSUME WebhookInv, NEW r \in Request, Moves(r), Grows,
           NEW q \in Request \ {r}
    PROVE  HandlerTypeOK(q)' /\ Handler(q)' /\ Work(q)'
<1>1. req'[q] = req[q]
    BY DEF Moves
<1>2. HandlerTypeOK(q) /\ Handler(q) /\ Work(q)
    BY DEF WebhookInv, TypeOK, Handlers, WorkIsRecorded
<1>3. HandlerTypeOK(q)' /\ Handler(q)'
    BY <1>1, <1>2 DEF HandlerTypeOK, Handler, At, Msg
<1>4. req[q].at \in AfterInbound => Cust(q) \in Customer
    BY <1>2, WebhookAssumption
       DEF HandlerTypeOK, Cust, Msg, AfterInbound, AfterOutbound, AfterEvidence,
           AfterHandoff, AfterHandoffEvent, InFlight, StoreSteps, JournalSteps
<1>5. Work(q)'
    BY <1>1, <1>2, <1>4
       DEF Grows, Work, Msg, Cust, AfterInbound, AfterOutbound, AfterEvidence,
           AfterHandoff, AfterHandoffEvent
<1> QED
    BY <1>3, <1>5

(* What was marked stays recorded while nothing new is marked.             *)
LEMMA RecordsStay ==
    ASSUME WebhookInv, Grows, processed' = processed
    PROVE  ProcessedIsRecorded'
BY WebhookAssumption DEF WebhookInv, TypeOK, StoreTypeOK, ProcessedIsRecorded, Grows

(* A message in work is a message, and it is from a customer.              *)
LEMMA MessageInWork ==
    ASSUME WebhookInv, NEW r \in Request, req[r].at \in InFlight
    PROVE  /\ Msg(r) \in Message /\ Cust(r) \in Customer
           /\ req[r].i \in DOMAIN req[r].batch /\ req[r].batch \in Batch
           /\ req[r].batch \in Seq(Message)
<1>1. HandlerTypeOK(r)
    BY DEF WebhookInv, TypeOK
<1>2. req[r].i \in DOMAIN req[r].batch
    BY <1>1 DEF HandlerTypeOK
<1>3. req[r].batch # << >>
    BY <1>2
<1>4. req[r].batch \in Batch
    BY <1>1, <1>3 DEF HandlerTypeOK
<1> QED
    BY <1>2, <1>4, WebhookAssumption DEF Msg, Cust

(* If r holds no message it did not hold before, received events stay with *)
(* who holds them.                                                         *)
LEMMA HeldStays ==
    ASSUME WebhookInv, NEW r \in Request, Moves(r), Grows,
           req'[r].batch = req[r].batch \/ At(r, "waiting"),
           mode.store = "postgres" =>
               \A i \in Nat : Holds(r, i)' => Holds(r, i) /\ req'[r].batch = req[r].batch,
           \A q \in Request \ {r}, i \in Nat : Holds(q, i)' => Holds(q, i)
    PROVE  HeldIsReceived' /\ HeldByOne'
<1>1. SUFFICES ASSUME mode.store = "postgres"
               PROVE  HeldIsReceived' /\ HeldByOne'
    BY DEF Grows, HeldIsReceived, HeldByOne
<1>2. \A q \in Request, i \in Nat :
        Holds(q, i)' => Holds(q, i) /\ req'[q].batch = req[q].batch
    BY <1>1 DEF Moves
<1>3. ASSUME NEW q \in Request, NEW i \in Nat, Holds(q, i)
      PROVE  CustomerOf[req[q].batch[i]] \in Customer
    <2>1. i \in DOMAIN req[q].batch /\ req[q].batch \in Batch \cup {<< >>}
        BY <1>3 DEF Holds, WebhookInv, TypeOK, HandlerTypeOK
    <2>2. req[q].batch \in Seq(Message)
        BY <2>1, WebhookAssumption
    <2> QED
        BY <2>1, <2>2, WebhookAssumption
<1>4. HeldIsReceived'
    BY <1>1, <1>2, <1>3 DEF WebhookInv, HeldIsReceived, Grows
<1>5. HeldByOne'
    BY <1>1, <1>2 DEF WebhookInv, HeldByOne, Grows
<1> QED
    BY <1>4, <1>5

-----------------------------------------------------------------------------
(* Steps of a handler.                                                     *)

(* An await of the store or of the sender that settled: the handler goes   *)
(* on with its message.                                                    *)
LEMMA GotoKeeps ==
    ASSUME WebhookInv, NEW r \in Request, NEW step,
           req[r].at \in StoreSteps \cup {"deliver"}, Goto(r, step),
           step \in InFlight \ {"received"},
           step \in {"handoff", "handoffEvent", "handedOff"} => Msg(r) \in HandoffMessage,
           Grows, StoreTypeOK', ProcessedIsRecorded', Work(r)',
           sent' \subseteq sent \cup {<< r, req[r].i >>}
    PROVE  WebhookInv'
<1>1. Handlers /\ Handler(r) /\ HandlerTypeOK(r)
    BY DEF WebhookInv, TypeOK, Handlers
<1>2. /\ Moves(r) /\ DOMAIN req'[r] = HandlerField /\ req'[r].at = step
      /\ req'[r].batch = req[r].batch /\ req'[r].i = req[r].i
      /\ req'[r].known = req[r].known /\ req'[r].session = req[r].session
      /\ req'[r].insert = req[r].insert /\ req'[r].status = req[r].status
    BY <1>1, GotoMoves
<1>3. /\ req[r].at \in InFlight \ {"received"} /\ req[r].at \notin JournalSteps
      /\ step # "waiting"
    BY DEF InFlight, StoreSteps, JournalSteps
<1>4. HandlerTypeOK(r)'
    BY <1>1, <1>2, <1>3 DEF HandlerTypeOK
<1>5. Handler(r)'
    BY <1>1, <1>2, <1>3 DEF Handler, At, Msg
<1>6. TypeOK'
    BY <1>2, <1>4, OthersKeep DEF TypeOK
<1>7. Handlers'
    BY <1>2, <1>5, OthersKeep DEF Handlers, Moves
<1>8. WorkIsRecorded'
    BY <1>2, OthersKeep DEF WorkIsRecorded
<1>9. \A i \in Nat : Holds(r, i)' => Holds(r, i)
    BY <1>2, <1>3 DEF Holds
<1>10. \A q \in Request \ {r}, i \in Nat : Holds(q, i)' => Holds(q, i)
    BY <1>2 DEF Holds, Moves
<1>11. HeldIsReceived' /\ HeldByOne'
    BY <1>2, <1>9, <1>10, HeldStays
<1>12. SentPositions'
    <2>1. << r, req[r].i >> \in Request \X Nat /\ req[r].i \in DOMAIN req[r].batch
        BY <1>1, <1>3 DEF Handler, HandlerTypeOK
    <2>2. \A q \in Request : req'[q].batch = req[q].batch
        BY <1>2 DEF Moves
    <2> QED
        BY <2>1, <2>2 DEF SentPositions, WebhookInv
<1> QED
    BY <1>6, <1>7, <1>8, <1>11, <1>12 DEF WebhookInv

(* An answer to the provider ends a handler, whatever it was about to do.  *)
LEMMA FinishKeeps ==
    ASSUME WebhookInv, NEW r \in Request, NEW status \in {200, 500},
           req[r].at \in InFlight, Finish(r, status),
           faults' \in 0..MaxFaults,
           UNCHANGED << mode, store, journal, history >>
    PROVE  WebhookInv'
<1>1. Handlers /\ Handler(r) /\ HandlerTypeOK(r)
    BY DEF WebhookInv, TypeOK, Handlers
<1>2. /\ Moves(r) /\ DOMAIN req'[r] = HandlerField /\ req'[r].at = "done"
      /\ req'[r].batch = req[r].batch /\ req'[r].i = req[r].i
      /\ req'[r].known = req[r].known /\ req'[r].session = {}
      /\ req'[r].insert = << >> /\ req'[r].status = status
    BY <1>1, FinishMoves
<1>3. Grows /\ StoreTypeOK' /\ processed' = processed
    BY DEF Grows, store, history, Written, StoreTypeOK, WebhookInv, TypeOK, ConversationEvent
<1>4. "done" \notin InFlight
    BY DEF InFlight, StoreSteps, JournalSteps
<1>5. HandlerTypeOK(r)'
    BY <1>1, <1>2, <1>4 DEF HandlerTypeOK
<1>6. Handler(r)' /\ Work(r)'
    BY <1>1, <1>2 DEF Handler, At, Work, AfterInbound, AfterOutbound,
       AfterEvidence, AfterHandoff, AfterHandoffEvent
<1>7. TypeOK' /\ Handlers' /\ WorkIsRecorded'
    BY <1>2, <1>3, <1>5, <1>6, OthersKeep DEF TypeOK, Handlers, Moves, WorkIsRecorded
<1>8. \A q \in Request, i \in Nat : Holds(q, i)' => Holds(q, i)
    BY <1>2, <1>4 DEF Holds, Moves, history
<1>9. HeldIsReceived' /\ HeldByOne'
    BY <1>2, <1>3, <1>8, HeldStays
<1>10. SentPositions'
    BY <1>2 DEF SentPositions, WebhookInv, Moves, history
<1> QED
    BY <1>3, <1>7, <1>9, <1>10, RecordsStay DEF WebhookInv

(* A row the table allows adds its event id to those of its session.       *)
LEMMA RowIsWritten ==
    ASSUME NEW c \in Customer, DOMAIN journal = Customer, NEW event,
           JournalAllows(journal[c], event),
           journal' = [journal EXCEPT ![c] = WithRow(@, event)]
    PROVE  /\ Written(c)' = Written(c) \cup {event.eventId}
           /\ \A d \in Customer \ {c} : Written(d)' = Written(d)
           /\ event.eventId \notin Written(c)
<1>1. journal'[c] = WithRow(journal[c], event)
    OBVIOUS
<1>2. /\ DOMAIN journal'[c] = DOMAIN journal[c] \cup {event.sequence}
      /\ journal'[c][event.sequence] = event
      /\ \A n \in DOMAIN journal[c] : journal'[c][n] = journal[c][n]
    BY <1>1 DEF WithRow, JournalAllows
<1>3. Written(c)' = Written(c) \cup {event.eventId}
    BY <1>2 DEF Written
<1>4. \A d \in Customer \ {c} : journal'[d] = journal[d]
    OBVIOUS
<1> QED
    BY <1>3, <1>4 DEF Written, JournalAllows, EventIds

(* An append that resolved: the handler goes on with the message, with the *)
(* next one or to its answer.  A received event nobody had stored makes    *)
(* the message the handler's own.                                          *)
LEMMA AppendKeeps ==
    ASSUME WebhookInv, NEW r \in Request, NEW event,
           req[r].at \in JournalSteps,
           req' = [req EXCEPT ![r] = AfterAppend(@)],
           journal' = [journal EXCEPT ![Cust(r)] = WithRow(@, event)],
           mode.store = "postgres" =>
               /\ JournalAllows(journal[Cust(r)], event)
               /\ event.eventId = << Msg(r), EventKind(req[r].at) >>,
           UNCHANGED << mode, store, history, faults >>
    PROVE  WebhookInv'
<1>1. Handlers /\ Handler(r) /\ HandlerTypeOK(r) /\ Work(r)
    BY DEF WebhookInv, TypeOK, Handlers, WorkIsRecorded
<1>2. req[r].at \in InFlight
    BY DEF InFlight
<1>3. /\ Msg(r) \in Message /\ Cust(r) \in Customer
      /\ req[r].i \in DOMAIN req[r].batch /\ req[r].batch \in Seq(Message)
    BY <1>2, MessageInWork
<1>4. /\ Moves(r) /\ DOMAIN req'[r] = HandlerField
      /\ req'[r].batch = req[r].batch /\ req'[r].known = req[r].known
      /\ req'[r].session = req[r].session /\ req'[r].status = req[r].status
      /\ req'[r].insert = << >>
      /\ \/ At(r, "received") /\ req'[r].at = "dedupe" /\ req'[r].i = req[r].i
         \/ At(r, "handedOff") /\ req'[r].at = "mark" /\ req'[r].i = req[r].i
         \/ /\ req[r].at \in {"processed", "duplicate"}
            /\ req[r].i < Len(req[r].batch)
            /\ req'[r].at = "received" /\ req'[r].i = req[r].i + 1
         \/ /\ req[r].at \in {"processed", "duplicate"}
            /\ ~ (req[r].i < Len(req[r].batch))
            /\ req'[r].at = "respond" /\ req'[r].i = req[r].i
    BY <1>1, AfterAppendMoves
<1>5. DOMAIN journal = Customer
    BY DEF WebhookInv, TypeOK, StoreTypeOK
<1> PICK c \in Customer : c = Cust(r)
    BY <1>3
<1>6. mode.store = "postgres" =>
        /\ Written(c)' = Written(c) \cup {event.eventId}
        /\ \A d \in Customer \ {c} : Written(d)' = Written(d)
        /\ event.eventId \notin Written(c)
    <2> SUFFICES ASSUME mode.store = "postgres"
                 PROVE  /\ Written(c)' = Written(c) \cup {event.eventId}
                        /\ \A d \in Customer \ {c} : Written(d)' = Written(d)
                        /\ event.eventId \notin Written(c)
        OBVIOUS
    <2>1. /\ JournalAllows(journal[c], event)
          /\ journal' = [journal EXCEPT ![c] = WithRow(@, event)]
        OBVIOUS
    <2> QED
        BY <1>5, <2>1, RowIsWritten
<1>7. Grows /\ StoreTypeOK' /\ processed' = processed
    <2>1. DOMAIN journal' = Customer
        BY <1>5
    <2> QED
        BY <1>3, <1>6, <2>1
           DEF Grows, store, history, StoreTypeOK, WebhookInv, TypeOK, ConversationEvent
<1>8. HandlerTypeOK(r)'
    BY <1>1, <1>3, <1>4
       DEF HandlerTypeOK, Handler, InFlight, StoreSteps, JournalSteps
<1>9. Handler(r)'
    BY <1>1, <1>4 DEF Handler, At
<1>10. Work(r)'
    <2>1. CASE req'[r].at \in {"received", "dedupe", "respond"}
        BY <2>1 DEF Work, AfterInbound, AfterOutbound, AfterEvidence,
           AfterHandoff, AfterHandoffEvent
    <2>2. CASE At(r, "handedOff") /\ req'[r].i = req[r].i
        <3>1. Msg(r)' = Msg(r) /\ Cust(r)' = Cust(r)
            BY <1>4, <2>2 DEF Msg, Cust
        <3>2. /\ {<< Msg(r), "inbound" >>, << Msg(r), "outbound" >>} \subseteq events
              /\ evidence[Cust(r)] # {}
              /\ Msg(r) \in HandoffMessage =>
                   Msg(r) \in handoffs /\ << Msg(r), "handoff" >> \in events
            BY <1>1, <2>2 DEF Work, At, AfterInbound, AfterOutbound,
               AfterEvidence, AfterHandoff, AfterHandoffEvent
        <3>3. events' = events /\ evidence' = evidence /\ handoffs' = handoffs
            BY DEF store
        <3> QED
            BY <3>1, <3>2, <3>3 DEF Work
    <2> QED
        BY <1>4, <2>1, <2>2
<1>11. TypeOK' /\ Handlers' /\ WorkIsRecorded'
    BY <1>4, <1>7, <1>8, <1>9, <1>10, OthersKeep
       DEF TypeOK, Handlers, Moves, WorkIsRecorded
<1>12. \A q \in Request \ {r}, i \in Nat : Holds(q, i)' => Holds(q, i)
    BY <1>4 DEF Holds, Moves, history
<1>13. SentPositions'
    BY <1>4 DEF SentPositions, WebhookInv, Moves, history
<1>14. HeldIsReceived' /\ HeldByOne'
    <2>1. CASE ~ At(r, "received")
        <3>1. req[r].at \in InFlight \ {"received"}
            BY <1>2, <2>1 DEF At
        <3>2. \A i \in Nat : Holds(r, i)' => Holds(r, i)
            BY <1>1, <1>4, <2>1, <3>1 DEF Holds, Handler, history
        <3> QED
            BY <1>4, <1>7, <1>12, <3>2, HeldStays
    <2>2. CASE At(r, "received") /\ mode.store # "postgres"
        BY <2>2 DEF HeldIsReceived, HeldByOne
    <2>3. CASE At(r, "received") /\ mode.store = "postgres"
        <3>1. event.eventId = << Msg(r), "received" >>
            BY <2>3 DEF EventKind, At
        <3>2. \A q \in Request, i \in Nat :
                /\ req'[q].batch = req[q].batch
                /\ Holds(q, i)' => Holds(q, i) \/ (q = r /\ i = req[r].i)
            BY <1>4, <1>12, <2>3 DEF Holds, Moves, history, At
        <3>3. \A q \in Request, i \in Nat :
                Holds(q, i) => /\ req[q].batch[i] # Msg(r)
                               /\ CustomerOf[req[q].batch[i]] \in Customer
            <4> SUFFICES ASSUME NEW q \in Request, NEW i \in Nat, Holds(q, i)
                         PROVE  /\ req[q].batch[i] # Msg(r)
                                /\ CustomerOf[req[q].batch[i]] \in Customer
                OBVIOUS
            <4>1. << req[q].batch[i], "received" >>
                    \in Written(CustomerOf[req[q].batch[i]])
                BY <2>3 DEF WebhookInv, HeldIsReceived
            <4>2. req[q].batch[i] # Msg(r)
                BY <1>6, <2>3, <3>1, <4>1 DEF Cust, Msg
            <4>3. i \in DOMAIN req[q].batch /\ req[q].batch \in Batch \cup {<< >>}
                BY DEF Holds, WebhookInv, TypeOK, HandlerTypeOK
            <4>4. req[q].batch \in Seq(Message)
                BY <4>3, WebhookAssumption
            <4> QED
                BY <4>2, <4>3, <4>4, WebhookAssumption
        <3>4. HeldIsReceived'
            <4> SUFFICES ASSUME NEW q \in Request, NEW i \in Nat, Holds(q, i)'
                         PROVE  (<< req[q].batch[i], "received" >>
                                   \in Written(CustomerOf[req[q].batch[i]]))'
                BY <3>2 DEF HeldIsReceived
            <4>0. req'[q].batch = req[q].batch
                BY <3>2
            <4> PICK d : d = CustomerOf[req[q].batch[i]]
                OBVIOUS
            <4>1. CASE Holds(q, i)
                <5>1. d \in Customer /\ << req[q].batch[i], "received" >> \in Written(d)
                    BY <2>3, <3>3, <4>1 DEF WebhookInv, HeldIsReceived
                <5>2. << req[q].batch[i], "received" >> \in Written(d)'
                    BY <1>7, <2>3, <5>1 DEF Grows
                <5> QED
                    BY <4>0, <5>2
            <4>2. CASE q = r /\ i = req[r].i
                <5>1. req[q].batch[i] = Msg(r) /\ d = c
                    BY <4>2 DEF Msg, Cust
                <5>2. << req[q].batch[i], "received" >> \in Written(d)'
                    BY <1>6, <2>3, <3>1, <5>1
                <5> QED
                    BY <4>0, <5>2
            <4> QED
                BY <3>2, <4>1, <4>2
        <3>5. HeldByOne'
            BY <2>3, <3>2, <3>3 DEF WebhookInv, HeldByOne, Msg
        <3> QED
            BY <3>4, <3>5
    <2> QED
        BY <2>1, <2>2, <2>3
<1> QED
    BY <1>7, <1>11, <1>13, <1>14, RecordsStay DEF WebhookInv

(* A step of r that touches neither store, journal nor sender.             *)
LEMMA OwnStepKeeps ==
    ASSUME WebhookInv, NEW r \in Request, Moves(r),
           UNCHANGED << mode, store, journal, sent, faults >>,
           overlapped' \subseteq Customer,
           HandlerTypeOK(r)', Handler(r)', Work(r)',
           \/ /\ req'[r].batch = req[r].batch
              /\ \A i \in Nat : Holds(r, i)' => Holds(r, i)
           \/ /\ At(r, "waiting")
              /\ \A i \in Nat : ~ Holds(r, i)'
    PROVE  WebhookInv'
<1>1. Grows /\ StoreTypeOK' /\ processed' = processed
    BY DEF Grows, store, Written, StoreTypeOK, WebhookInv, TypeOK, ConversationEvent
<1>2. TypeOK' /\ Handlers' /\ WorkIsRecorded'
    BY <1>1, OthersKeep DEF TypeOK, Handlers, Moves, WorkIsRecorded
<1>3. \A q \in Request \ {r}, i \in Nat : Holds(q, i)' => Holds(q, i)
    BY DEF Holds, Moves
<1>4. HeldIsReceived' /\ HeldByOne'
    BY <1>1, <1>3, HeldStays
<1>5. At(r, "waiting") => \A x \in sent : x[1] # r
    BY DEF WebhookInv, Handlers, Handler, Unused, SentPositions
<1>6. SentPositions'
    BY <1>5 DEF SentPositions, WebhookInv, Moves
<1> QED
    BY <1>1, <1>2, <1>4, <1>6, RecordsStay DEF WebhookInv

(* A payload arrives: its first message is in nobody's hands yet.          *)
LEMMA DeliverKeeps ==
    ASSUME WebhookInv, NEW r \in Request, NEW batch \in Batch, Deliver(r, batch)
    PROVE  WebhookInv'
<1>1. Handlers /\ Handler(r) /\ HandlerTypeOK(r) /\ At(r, "waiting") /\ req[r] = Unused
    BY DEF WebhookInv, TypeOK, Handlers, Handler, Deliver
<1>2. /\ Moves(r) /\ DOMAIN req'[r] = HandlerField
      /\ req'[r].at = "received" /\ req'[r].batch = batch /\ req'[r].i = 1
      /\ req'[r].known = processed \cap MessagesOf(batch)
      /\ req'[r].session = {} /\ req'[r].insert = << >> /\ req'[r].status = 0
    BY <1>1, DeliverMoves
<1>3. batch \in Seq(Message) /\ batch # << >> /\ 1 \in DOMAIN batch
    BY WebhookAssumption
<1>4. HandlerTypeOK(r)'
    BY <1>2, <1>3 DEF HandlerTypeOK, InFlight, JournalSteps, StoreSteps,
       WebhookInv, TypeOK, StoreTypeOK
<1>5. Handler(r)' /\ Work(r)'
    BY <1>2 DEF Handler, At, Work, AfterInbound, AfterOutbound,
       AfterEvidence, AfterHandoff, AfterHandoffEvent
<1>6. overlapped' \subseteq Customer
    <2>1. CustomersOf(batch) \subseteq Customer
        BY <1>3, WebhookAssumption DEF CustomersOf, MessagesOf
    <2> QED
        BY <2>1 DEF Deliver, WebhookInv, TypeOK, StoreTypeOK
<1>7. \A i \in Nat : ~ Holds(r, i)'
    <2>1. \A x \in sent : x[1] # r
        BY <1>1 DEF WebhookInv, SentPositions, Unused
    <2>2. \A i \in DOMAIN batch : ~ (i < 1)
        BY <1>3
    <2> QED
        BY <1>2, <2>1, <2>2 DEF Holds, Deliver
<1> QED
    BY <1>1, <1>2, <1>4, <1>5, <1>6, <1>7, OwnStepKeeps DEF Deliver

(* The SELECT of an append: the event to insert is that of the message in  *)
(* work.                                                                   *)
LEMMA JournalSelectKeeps ==
    ASSUME WebhookInv, NEW r \in Request, JournalSelect(r)
    PROVE  WebhookInv'
<1>1. Handlers /\ Handler(r) /\ HandlerTypeOK(r) /\ Work(r)
    BY DEF WebhookInv, TypeOK, Handlers, WorkIsRecorded
<1>2. /\ Moves(r) /\ DOMAIN req'[r] = HandlerField
      /\ req'[r].at = req[r].at /\ req'[r].batch = req[r].batch
      /\ req'[r].i = req[r].i /\ req'[r].known = req[r].known
      /\ req'[r].session = req[r].session /\ req'[r].status = req[r].status
      /\ req'[r].insert = << EventOf(r) >>
    BY <1>1, JournalSelectMoves
<1>3. EventOf(r).eventId = << Msg(r), EventKind(req[r].at) >>
    BY DEF EventOf, NextStoredEvent
<1>4. HandlerTypeOK(r)'
    BY <1>1, <1>2 DEF HandlerTypeOK
<1>5. Handler(r)'
    BY <1>1, <1>2, <1>3 DEF Handler, At, Msg, JournalSelect, JournalSteps
<1>6. Work(r)'
    <2>1. events' = events /\ evidence' = evidence /\ handoffs' = handoffs
        BY DEF JournalSelect, store
    <2>2. Msg(r)' = Msg(r) /\ Cust(r)' = Cust(r)
        BY <1>2 DEF Msg, Cust
    <2> QED
        BY ONLY <1>1, <1>2, <2>1, <2>2 DEF Work
<1>7. \A i \in Nat : Holds(r, i)' => Holds(r, i)
    <2>1. sent' = sent
        BY DEF JournalSelect, history
    <2> QED
        BY ONLY <1>2, <2>1 DEF Holds
<1>8. overlapped' \subseteq Customer
    BY DEF JournalSelect, history, WebhookInv, TypeOK, StoreTypeOK
<1> QED
    BY <1>2, <1>4, <1>5, <1>6, <1>7, <1>8, OwnStepKeeps DEF JournalSelect, history

(* The session is loaded and the agent has answered.                       *)
LEMMA LoadSessionKeeps ==
    ASSUME WebhookInv, NEW r \in Request, LoadSession(r)
    PROVE  WebhookInv'
<1>1. Handlers /\ Handler(r) /\ HandlerTypeOK(r)
    BY DEF WebhookInv, TypeOK, Handlers
<1>2. /\ Moves(r) /\ DOMAIN req'[r] = HandlerField
      /\ req'[r].at \in {"inbound", "deliver"} /\ req'[r].batch = req[r].batch
      /\ req'[r].i = req[r].i /\ req'[r].known = req[r].known
      /\ req'[r].insert = req[r].insert /\ req'[r].status = req[r].status
      /\ req'[r].session = session[Cust(r)] \cup {Msg(r)}
    BY <1>1, LoadSessionMoves
<1>3. req[r].at = "load" /\ req[r].at \in InFlight
    BY DEF LoadSession, At, InFlight, StoreSteps
<1>4. req'[r].session \subseteq Message
    BY <1>2, <1>3, MessageInWork DEF WebhookInv, TypeOK, StoreTypeOK
<1>5. HandlerTypeOK(r)'
    BY <1>1, <1>2, <1>3, <1>4 DEF HandlerTypeOK, InFlight, StoreSteps
<1>6. Handler(r)'
    BY <1>1, <1>2, <1>3 DEF Handler, At, JournalSteps
<1>7. Work(r)'
    BY <1>2 DEF Work, AfterInbound, AfterOutbound, AfterEvidence,
       AfterHandoff, AfterHandoffEvent
<1>8. \A i \in Nat : Holds(r, i)' => Holds(r, i)
    BY <1>2, <1>3 DEF Holds, LoadSession, history
<1>9. overlapped' \subseteq Customer
    BY DEF LoadSession, history, WebhookInv, TypeOK, StoreTypeOK
<1> QED
    BY <1>2, <1>5, <1>6, <1>7, <1>8, <1>9, OwnStepKeeps DEF LoadSession, history

-----------------------------------------------------------------------------
(* The awaits of the store and of the sender, one by one.                  *)

(* Where Goto leads.                                                       *)
LEMMA GotoArrives ==
    ASSUME WebhookInv, NEW r \in Request, NEW step, Goto(r, step),
           req[r].at \in InFlight
    PROVE  /\ req'[r].at = step /\ Msg(r)' = Msg(r) /\ Cust(r)' = Cust(r)
           /\ Msg(r) \in Message /\ Cust(r) \in Customer
           /\ Work(r)
BY GotoMoves, MessageInWork DEF WebhookInv, WorkIsRecorded, Msg, Cust

(* The look at the mark and, for a duplicate, at the session store nothing. *)
LEMMA CheckDuplicateKeeps ==
    ASSUME WebhookInv, NEW r \in Request,
           CheckDuplicate(r) \/ LoadDuplicateSession(r)
    PROVE  WebhookInv'
<1> DEFINE step == IF At(r, "duplicateSession") THEN "duplicate"
                   ELSE IF Msg(r) \in processed THEN "duplicateSession" ELSE "load"
<1>1. /\ req[r].at \in StoreSteps /\ req[r].at \in InFlight /\ Goto(r, step)
      /\ step \in {"duplicate", "duplicateSession", "load"}
      /\ UNCHANGED << mode, store, journal, history, faults >>
    BY DEF CheckDuplicate, LoadDuplicateSession, At, InFlight, StoreSteps
<1> HIDE DEF step
<1>2. req'[r].at = step
    BY <1>1, GotoArrives
<1>3. Work(r)'
    BY <1>1, <1>2 DEF Work, AfterInbound, AfterOutbound,
       AfterEvidence, AfterHandoff, AfterHandoffEvent
<1>4. Grows /\ StoreTypeOK' /\ processed' = processed /\ sent' = sent
    BY <1>1 DEF Grows, store, history, Written, StoreTypeOK, WebhookInv, TypeOK,
       ConversationEvent
<1>5. step \in InFlight \ {"received", "handoff", "handoffEvent", "handedOff"}
    BY <1>1 DEF InFlight, StoreSteps, JournalSteps
<1> QED
    BY <1>1, <1>3, <1>4, <1>5, RecordsStay, GotoKeeps

(* The send: whether the provider took the answer or not, it was the       *)
(* answer to the message in work.                                          *)
LEMMA SendAnswerKeeps ==
    ASSUME WebhookInv, NEW r \in Request, NEW accepted \in BOOLEAN,
           SendAnswer(r, accepted)
    PROVE  WebhookInv'
<1>1. /\ req[r].at = "deliver" /\ req[r].at \in InFlight /\ Goto(r, "inbound")
      /\ sent' \subseteq sent \cup {<< r, req[r].i >>}
      /\ UNCHANGED << mode, store, journal, overlapped, faults >>
    BY DEF SendAnswer, At, InFlight
<1>2. req'[r].at = "inbound"
    BY <1>1, GotoArrives
<1>3. Work(r)'
    BY <1>2 DEF Work, AfterInbound, AfterOutbound,
       AfterEvidence, AfterHandoff, AfterHandoffEvent
<1>4. Grows /\ StoreTypeOK' /\ processed' = processed
    BY <1>1 DEF Grows, store, Written, StoreTypeOK, WebhookInv, TypeOK,
       ConversationEvent
<1>5. "inbound" \in InFlight
    BY DEF InFlight, StoreSteps
<1> QED
    BY <1>1, <1>3, <1>4, <1>5, RecordsStay, GotoKeeps

(* A conversation event is stored, and with it the work up to it.          *)
LEMMA SaveEventKeeps ==
    ASSUME WebhookInv, NEW r \in Request,
           SaveInboundEvent(r) \/ SaveOutboundEvent(r) \/ SaveHandoffEvent(r)
    PROVE  WebhookInv'
<1> PICK step, kind, next :
        /\ SaveEvent(r, step, kind, next)
        /\ << step, kind, next >> \in
             {<< "inbound", "inbound", "outbound" >>,
              << "outbound", "outbound", "session" >>,
              << "handoffEvent", "handoff", "handedOff" >>}
    BY DEF SaveInboundEvent, SaveOutboundEvent, SaveHandoffEvent
<1>1. /\ req[r].at = step /\ Goto(r, next)
      /\ req[r].at \in StoreSteps /\ req[r].at \in InFlight
      /\ next \in InFlight \ {"received"}
      /\ events' = events \cup {<< Msg(r), kind >>}
      /\ kind \in {"inbound", "outbound", "handoff"}
      /\ UNCHANGED << mode, processed, session, evidence, handoffs, journal,
                      history, faults >>
    BY DEF SaveEvent, At, InFlight, StoreSteps, JournalSteps
<1>2. /\ req'[r].at = next /\ Msg(r)' = Msg(r) /\ Cust(r)' = Cust(r)
      /\ Msg(r) \in Message /\ Work(r)
    BY <1>1, GotoArrives
<1>3. Grows /\ StoreTypeOK'
    BY <1>1, <1>2 DEF Grows, history, Written, StoreTypeOK, WebhookInv, TypeOK,
       ConversationEvent
<1>4. Work(r)'
    <2>1. CASE step = "inbound"
        BY <1>1, <1>2, <2>1 DEF Work, AfterInbound, AfterOutbound,
           AfterEvidence, AfterHandoff, AfterHandoffEvent
    <2>2. CASE step = "outbound"
        BY <1>1, <1>2, <2>2 DEF Work, AfterInbound, AfterOutbound,
           AfterEvidence, AfterHandoff, AfterHandoffEvent
    <2>3. CASE step = "handoffEvent"
        BY <1>1, <1>2, <2>3 DEF Work, AfterInbound, AfterOutbound,
           AfterEvidence, AfterHandoff, AfterHandoffEvent
    <2> QED
        BY <2>1, <2>2, <2>3
<1>5. next \in {"handoff", "handoffEvent", "handedOff"} => Msg(r) \in HandoffMessage
    BY <1>1 DEF WebhookInv, Handlers, Handler
<1> QED
    BY <1>1, <1>3, <1>4, <1>5, RecordsStay, GotoKeeps DEF history

(* Session, evidence and handoff are stored one after the other.           *)
LEMMA SaveSessionKeeps ==
    ASSUME WebhookInv, NEW r \in Request, SaveSession(r)
    PROVE  WebhookInv'
<1>1. /\ req[r].at = "session" /\ Goto(r, "evidence")
      /\ req[r].at \in StoreSteps /\ req[r].at \in InFlight
      /\ "evidence" \in InFlight \ {"received"}
      /\ session' = [session EXCEPT ![Cust(r)] = req[r].session]
      /\ UNCHANGED << mode, processed, events, evidence, handoffs, journal,
                      history, faults >>
    BY DEF SaveSession, At, InFlight, StoreSteps
<1>2. /\ req'[r].at = "evidence" /\ Msg(r)' = Msg(r) /\ Cust(r)' = Cust(r)
      /\ Cust(r) \in Customer /\ Work(r)
    BY <1>1, GotoArrives
<1>3. req[r].session \subseteq Message
    BY DEF WebhookInv, TypeOK, HandlerTypeOK
<1>4. Grows /\ StoreTypeOK'
    BY <1>1, <1>2, <1>3 DEF Grows, history, Written, StoreTypeOK, WebhookInv,
       TypeOK, ConversationEvent
<1>5. Work(r)'
    BY <1>1, <1>2 DEF Work, AfterInbound, AfterOutbound,
       AfterEvidence, AfterHandoff, AfterHandoffEvent
<1> QED
    BY <1>1, <1>4, <1>5, RecordsStay, GotoKeeps DEF history

(* The evidence is there from now on, and only a handoff goes on to one.   *)
LEMMA SaveEvidenceKeeps ==
    ASSUME WebhookInv, NEW r \in Request, SaveEvidence(r)
    PROVE  WebhookInv'
<1> DEFINE step == IF Msg(r) \in HandoffMessage THEN "handoff" ELSE "mark"
<1>1. /\ req[r].at = "evidence" /\ Goto(r, step)
      /\ req[r].at \in StoreSteps /\ req[r].at \in InFlight
      /\ step \in InFlight \ {"received"}
      /\ step \in {"handoff", "mark"}
      /\ step = "handoff" <=> Msg(r) \in HandoffMessage
      /\ evidence' = [evidence EXCEPT ![Cust(r)] = {Msg(r)}]
      /\ UNCHANGED << mode, processed, events, session, handoffs, journal,
                      history, faults >>
    BY DEF SaveEvidence, At, InFlight, StoreSteps
<1> HIDE DEF step
<1>2. /\ req'[r].at = step /\ Msg(r)' = Msg(r) /\ Cust(r)' = Cust(r)
      /\ Msg(r) \in Message /\ Cust(r) \in Customer /\ Work(r)
    BY <1>1, GotoArrives
<1>3. Grows /\ StoreTypeOK'
    BY <1>1, <1>2 DEF Grows, history, Written, StoreTypeOK, WebhookInv,
       TypeOK, ConversationEvent
<1>4. evidence'[Cust(r)] # {}
    BY <1>1, <1>2 DEF WebhookInv, TypeOK, StoreTypeOK
<1>5. Work(r)'
    BY <1>1, <1>2, <1>4 DEF Work, AfterInbound, AfterOutbound,
       AfterEvidence, AfterHandoff, AfterHandoffEvent
<1> QED
    BY <1>1, <1>3, <1>5, RecordsStay, GotoKeeps DEF history

(* The handoff record of a message the agent handed off.                   *)
LEMMA SaveHandoffKeeps ==
    ASSUME WebhookInv, NEW r \in Request, SaveHandoff(r)
    PROVE  WebhookInv'
<1>1. /\ req[r].at = "handoff" /\ Goto(r, "handoffEvent")
      /\ req[r].at \in StoreSteps /\ req[r].at \in InFlight
      /\ "handoffEvent" \in InFlight \ {"received"}
      /\ handoffs' = handoffs \cup {Msg(r)}
      /\ UNCHANGED << mode, processed, events, session, evidence, journal,
                      history, faults >>
    BY DEF SaveHandoff, At, InFlight, StoreSteps
<1>2. /\ req'[r].at = "handoffEvent" /\ Msg(r)' = Msg(r) /\ Cust(r)' = Cust(r)
      /\ Work(r)
    BY <1>1, GotoArrives
<1>3. Msg(r) \in HandoffMessage
    BY <1>1 DEF WebhookInv, Handlers, Handler
<1>4. Grows /\ StoreTypeOK'
    BY <1>1, <1>3 DEF Grows, history, Written, StoreTypeOK, WebhookInv,
       TypeOK, ConversationEvent
<1>5. Work(r)'
    BY <1>1, <1>2 DEF Work, AfterInbound, AfterOutbound,
       AfterEvidence, AfterHandoff, AfterHandoffEvent
<1> QED
    BY <1>1, <1>3, <1>4, <1>5, RecordsStay, GotoKeeps DEF history

(* The mark: all the work on the message is behind it.                     *)
LEMMA MarkProcessedKeeps ==
    ASSUME WebhookInv, NEW r \in Request, MarkProcessed(r)
    PROVE  WebhookInv'
<1>1. /\ req[r].at = "mark" /\ Goto(r, "processed")
      /\ req[r].at \in StoreSteps /\ req[r].at \in InFlight
      /\ "processed" \in InFlight \ {"received"}
      /\ processed' = processed \cup {Msg(r)}
      /\ UNCHANGED << mode, events, session, evidence, handoffs, journal,
                      history, faults >>
    BY DEF MarkProcessed, At, InFlight, StoreSteps, JournalSteps
<1>2. /\ req'[r].at = "processed" /\ Msg(r)' = Msg(r)
      /\ Msg(r) \in Message /\ Work(r)
    BY <1>1, GotoArrives
<1>3. Grows /\ StoreTypeOK'
    BY <1>1, <1>2 DEF Grows, history, Written, StoreTypeOK, WebhookInv,
       TypeOK, ConversationEvent
<1>4. /\ {<< Msg(r), "inbound" >>, << Msg(r), "outbound" >>} \subseteq events
      /\ evidence[CustomerOf[Msg(r)]] # {}
      /\ Msg(r) \in HandoffMessage =>
           Msg(r) \in handoffs /\ << Msg(r), "handoff" >> \in events
    BY <1>1, <1>2 DEF Work, Cust, AfterInbound, AfterOutbound,
       AfterEvidence, AfterHandoff, AfterHandoffEvent
<1>5. ProcessedIsRecorded'
    BY <1>1, <1>4 DEF WebhookInv, ProcessedIsRecorded
<1>6. Work(r)'
    BY <1>2 DEF Work, AfterInbound, AfterOutbound,
       AfterEvidence, AfterHandoff, AfterHandoffEvent
<1> QED
    BY <1>1, <1>3, <1>5, <1>6, GotoKeeps DEF history

(* The process dies: handlers end, and what is lost with the memory of a   *)
(* store is lost whole.                                                    *)
LEMMA CrashKeeps ==
    ASSUME WebhookInv, Crash
    PROVE  WebhookInv'
<1> DEFINE lost(r) == [req[r] EXCEPT !.at = "done", !.insert = << >>,
                                     !.session = {}, !.status = 0]
<1>1. /\ DOMAIN req' = Request
      /\ \A r \in Request : req'[r] = req[r] \/ req'[r] = lost(r)
      /\ \A r \in Request : req[r].at \in InFlight => req'[r] = lost(r)
      /\ UNCHANGED << mode, history >> /\ faults' \in 0..MaxFaults
    <2>1. req' = [r \in Request |-> IF r \in Active THEN lost(r) ELSE req[r]]
        BY DEF Crash
    <2>2. faults' \in 0..MaxFaults
        <3>1. faults < MaxFaults /\ faults' = faults + 1 /\ faults \in 0..MaxFaults
            BY DEF Crash, WebhookInv, TypeOK, StoreTypeOK
        <3> QED
            BY <3>1, WebhookAssumption
    <2>3. UNCHANGED << mode, history >>
        BY DEF Crash
    <2> HIDE DEF lost
    <2> QED
        BY <2>1, <2>2, <2>3 DEF Active
<1>2. \A r \in Request : HandlerTypeOK(r) /\ Handler(r)
    BY DEF WebhookInv, TypeOK, Handlers
<1>3. ASSUME NEW r \in Request
      PROVE  /\ DOMAIN lost(r) = HandlerField /\ lost(r).at = "done"
             /\ lost(r).batch = req[r].batch /\ lost(r).i = req[r].i
             /\ lost(r).known = req[r].known /\ lost(r).session = {}
             /\ lost(r).insert = << >> /\ lost(r).status = 0
    BY <1>2 DEF Handler, HandlerField
<1> HIDE DEF lost
<1>4. "done" \notin InFlight
    BY DEF InFlight, StoreSteps, JournalSteps
<1>5. \A r \in Request : HandlerTypeOK(r)'
    BY <1>1, <1>2, <1>3, <1>4 DEF HandlerTypeOK
<1>6. \A r \in Request : Handler(r)'
    <2> SUFFICES ASSUME NEW r \in Request PROVE Handler(r)'
        OBVIOUS
    <2>1. CASE req'[r] = req[r]
        BY <1>2, <2>1 DEF Handler, At, Msg
    <2>2. CASE req'[r] = lost(r)
        BY <1>2, <1>3, <2>2 DEF Handler, At
    <2> QED
        BY <1>1, <2>1, <2>2
<1>7. WorkIsRecorded'
    <2> SUFFICES ASSUME NEW r \in Request PROVE Work(r)'
        BY DEF WorkIsRecorded
    <2>1. req'[r].at \notin InFlight
        BY <1>1, <1>3, <1>4
    <2> QED
        BY <2>1 DEF Work, AfterInbound, AfterOutbound, AfterEvidence,
           AfterHandoff, AfterHandoffEvent, InFlight, StoreSteps, JournalSteps
<1>8. StoreTypeOK' /\ ProcessedIsRecorded'
    <2>1. CASE mode.store = "memory"
        BY <1>1, <2>1 DEF Crash, StoreTypeOK, ProcessedIsRecorded, history,
           WebhookInv, TypeOK, ConversationEvent
    <2>2. CASE mode.store # "memory"
        <3>1. UNCHANGED store /\ ProcessedIsRecorded /\ StoreTypeOK
            BY <2>2 DEF Crash, WebhookInv, TypeOK
        <3>2. DOMAIN journal' = Customer
            BY <3>1 DEF Crash, StoreTypeOK
        <3>3. StoreTypeOK'
            BY <1>1, <3>1, <3>2 DEF StoreTypeOK, store, history, ConversationEvent
        <3> QED
            BY <3>1, <3>3 DEF ProcessedIsRecorded, store
    <2> QED
        BY <2>1, <2>2
<1>9. \A r \in Request, i \in Nat :
        req'[r].batch = req[r].batch /\ (Holds(r, i)' => Holds(r, i))
    BY <1>1, <1>3, <1>4 DEF Holds, history
<1>10. SentPositions'
    BY <1>1, <1>9 DEF SentPositions, WebhookInv, history
<1>11. mode.store = "postgres" => journal' = journal
    BY DEF Crash
<1>12. HeldIsReceived'
    <2> SUFFICES ASSUME mode.store = "postgres",
                        NEW r \in Request, NEW i \in Nat, Holds(r, i)'
                 PROVE  (<< req[r].batch[i], "received" >>
                           \in Written(CustomerOf[req[r].batch[i]]))'
        BY <1>1 DEF HeldIsReceived
    <2>1. << req[r].batch[i], "received" >> \in Written(CustomerOf[req[r].batch[i]])
        BY <1>9 DEF WebhookInv, HeldIsReceived
    <2>2. journal' = journal /\ req'[r].batch = req[r].batch
        BY <1>9, <1>11
    <2> QED
        BY <2>1, <2>2 DEF Written
<1>13. HeldByOne'
    BY <1>1, <1>9 DEF WebhookInv, HeldByOne
<1> QED
    BY <1>5, <1>6, <1>1, <1>7, <1>8, <1>10, <1>12,
       <1>13 DEF WebhookInv, TypeOK, Handlers

-----------------------------------------------------------------------------
(* The theorems.                                                           *)

(* A server that has just started satisfies the invariant.                *)
LEMMA InitInv == Init => WebhookInv
<1> SUFFICES ASSUME Init PROVE WebhookInv
    OBVIOUS
<1>1. "waiting" \notin InFlight
    BY DEF InFlight, StoreSteps, JournalSteps
<1>2. StoreTypeOK
    BY WebhookAssumption DEF Init, StoreTypeOK
<1>3. \A r \in Request : HandlerTypeOK(r) /\ Handler(r) /\ Work(r)
    BY <1>1 DEF Init, Unused, HandlerTypeOK, Handler, HandlerField, At, Work,
       AfterInbound, AfterOutbound, AfterEvidence, AfterHandoff, AfterHandoffEvent
<1>4. \A r \in Request, i \in Nat : ~ Holds(r, i)
    BY DEF Init, Unused, Holds
<1>5. ProcessedIsRecorded /\ SentPositions /\ HeldIsReceived /\ HeldByOne
    BY <1>4 DEF Init, ProcessedIsRecorded, SentPositions, HeldIsReceived, HeldByOne
<1> QED
    BY <1>2, <1>3, <1>5 DEF Init, WebhookInv, TypeOK, Handlers, WorkIsRecorded

(* Every step keeps the invariant.                                         *)
LEMMA NextKeeps == WebhookInv /\ [Next]_vars => WebhookInv'
<1> SUFFICES ASSUME WebhookInv, [Next]_vars PROVE WebhookInv'
    OBVIOUS
<1>1. CASE UNCHANGED vars
    <2>1. TypeOK'
        <3>1. StoreTypeOK'
            BY <1>1 DEF vars, store, history, WebhookInv, TypeOK, StoreTypeOK, ConversationEvent
        <3>2. req' = req /\ \A r \in Request : HandlerTypeOK(r)
            BY <1>1 DEF vars, WebhookInv, TypeOK
        <3>3. \A r \in Request : HandlerTypeOK(r)'
            BY ONLY <3>2 DEF HandlerTypeOK
        <3> QED
            BY <3>1, <3>3 DEF TypeOK
    <2>2. Handlers' /\ WorkIsRecorded'
        BY <1>1 DEF vars, store, WebhookInv, Handlers, Handler, At, Msg, Cust,
           WorkIsRecorded, Work
    <2>3. ProcessedIsRecorded' /\ SentPositions'
        BY <1>1 DEF vars, store, history, WebhookInv, ProcessedIsRecorded, SentPositions
    <2>h. req' = req /\ journal' = journal /\ mode' = mode
          /\ \A r \in Request, i \in Nat : Holds(r, i)' <=> Holds(r, i)
        BY <1>1 DEF vars, history, Holds
    <2>4. HeldIsReceived'
        BY <2>h DEF WebhookInv, HeldIsReceived, Written
    <2>5. HeldByOne'
        BY <2>h DEF WebhookInv, HeldByOne
    <2> QED
        BY <2>1, <2>2, <2>3, <2>4, <2>5 DEF WebhookInv
<1>2. CASE Crash
    BY <1>2, CrashKeeps
<1>3. ASSUME NEW r \in Request, NEW batch \in Batch, Deliver(r, batch)
      PROVE  WebhookInv'
    BY <1>3, DeliverKeeps
<1>4. ASSUME NEW r \in Request, QueryFails(r) PROVE WebhookInv'
    <2>1. req[r].at \in InFlight /\ Finish(r, 500)
        BY <1>4 DEF QueryFails, InFlight
    <2>2. faults' \in 0..MaxFaults
        BY <1>4, WebhookAssumption DEF QueryFails, WebhookInv, TypeOK, StoreTypeOK
    <2> QED
        BY <1>4, <2>1, <2>2, FinishKeeps DEF QueryFails
<1>5. ASSUME NEW r \in Request, Handle(r) PROVE WebhookInv'
    <2>1. CASE JournalPush(r)
        BY <2>1, AppendKeeps DEF JournalPush
    <2>2. CASE JournalSelect(r)
        BY <2>2, JournalSelectKeeps
    <2>3. CASE JournalInsert(r)
        <3>1. /\ req[r].at \in JournalSteps
              /\ req[r].insert[1].eventId = << Msg(r), EventKind(req[r].at) >>
            BY <2>3 DEF JournalInsert, WebhookInv, Handlers, Handler
        <3> QED
            BY <2>3, <3>1, AppendKeeps DEF JournalInsert
    <2>4. CASE JournalConflict(r)
        <3>1. req[r].at \in InFlight
            BY <2>4 DEF JournalConflict, WebhookInv, Handlers, Handler, InFlight
        <3>2. faults' \in 0..MaxFaults
            BY <2>4 DEF JournalConflict, WebhookInv, TypeOK, StoreTypeOK
        <3> QED
            BY <2>4, <3>1, <3>2, FinishKeeps DEF JournalConflict
    <2>5. CASE CheckDuplicate(r) \/ LoadDuplicateSession(r)
        BY <2>5, CheckDuplicateKeeps
    <2>6. CASE LoadSession(r)
        BY <2>6, LoadSessionKeeps
    <2>7. CASE \E accepted \in BOOLEAN : SendAnswer(r, accepted)
        BY <2>7, SendAnswerKeeps
    <2>8. CASE SaveInboundEvent(r) \/ SaveOutboundEvent(r) \/ SaveHandoffEvent(r)
        BY <2>8, SaveEventKeeps
    <2>9. CASE SaveSession(r)
        BY <2>9, SaveSessionKeeps
    <2>10. CASE SaveEvidence(r)
        BY <2>10, SaveEvidenceKeeps
    <2>11. CASE SaveHandoff(r)
        BY <2>11, SaveHandoffKeeps
    <2>12. CASE MarkProcessed(r)
        BY <2>12, MarkProcessedKeeps
    <2>13. CASE Respond(r)
        <3>1. req[r].at \in InFlight
            BY <2>13 DEF Respond, At, InFlight
        <3>2. faults' \in 0..MaxFaults
            BY <2>13 DEF Respond, WebhookInv, TypeOK, StoreTypeOK
        <3> QED
            BY <2>13, <3>1, <3>2, FinishKeeps DEF Respond
    <2> QED
        BY <1>5, <2>1, <2>2, <2>3, <2>4, <2>5, <2>6, <2>7, <2>8, <2>9, <2>10,
           <2>11, <2>12, <2>13 DEF Handle
<1> QED
    BY <1>1, <1>2, <1>3, <1>4, <1>5 DEF Next

(* The strengthened invariant holds in every reachable state.              *)
THEOREM WebhookInvariant == Spec => []WebhookInv
<1> QED
    BY InitInv, NextKeeps, PTL DEF Spec

(* Every variable keeps its type: what is in flight is always at a message *)
(* of its payload.                                                         *)
THEOREM WebhookTypes == Spec => []TypeOK
<1>1. WebhookInv => TypeOK
    BY DEF WebhookInv
<1> QED
    BY <1>1, WebhookInvariant, PTL

(* The mark comes last, whatever failed or crashed before and whoever else *)
(* works on the same message: a processed message has all its records.     *)
THEOREM ProcessedAlwaysRecorded == Spec => []ProcessedIsRecorded
<1>1. WebhookInv => ProcessedIsRecorded
    BY DEF WebhookInv
<1> QED
    BY <1>1, WebhookInvariant, PTL

(* On the Postgres runtime the unique received event makes a message be    *)
(* answered at most once, for any number of deliveries, retries, failed    *)
(* queries and crashes.                                                    *)
THEOREM NeverAnsweredTwice == Spec => []AtMostOneAnswerOnPostgres
<1>1. WebhookInv => AtMostOneAnswerOnPostgres
    <2> SUFFICES ASSUME WebhookInv, mode.store = "postgres", NEW m \in Message
                 PROVE  Cardinality(AnswersTo(m)) <= 1
        BY DEF AtMostOneAnswerOnPostgres
    <2>1. ASSUME NEW x \in AnswersTo(m), NEW y \in AnswersTo(m)
          PROVE  x = y
        <3>1. PICK r \in Request, i \in Nat : x = << r, i >>
            BY <2>1 DEF AnswersTo, WebhookInv, SentPositions
        <3>2. PICK q \in Request, j \in Nat : y = << q, j >>
            BY <2>1 DEF AnswersTo, WebhookInv, SentPositions
        <3>3. /\ Holds(r, i) /\ Holds(q, j)
              /\ req[r].batch[i] = m /\ req[q].batch[j] = m
            BY <2>1, <3>1, <3>2 DEF AnswersTo, Holds, WebhookInv, SentPositions
        <3> QED
            BY <3>1, <3>2, <3>3 DEF WebhookInv, HeldByOne
    <2>2. CASE AnswersTo(m) = {}
        BY <2>2, FS_EmptySet
    <2>3. CASE AnswersTo(m) # {}
        <3>1. PICK x : AnswersTo(m) = {x}
            BY <2>1, <2>3
        <3> QED
            BY <3>1, FS_Singleton
    <2> QED
        BY <2>2, <2>3
<1> QED
    BY <1>1, WebhookInvariant, PTL

-----------------------------------------------------------------------------
(* Turns.                                                                  *)

(* The customer a handler works for is one of its payload's.               *)
LEMMA CustomerInWork ==
    ASSUME WebhookInv, NEW r \in Request, req[r].at \in InFlight
    PROVE  Cust(r) \in CustomersOf(req[r].batch)
BY MessageInWork DEF CustomersOf, MessagesOf, Cust, Msg

(* A step of r that touches at most the session of its own customer, takes *)
(* nothing out of it and marks at most its own message, all of this where  *)
(* nobody else works for that customer, loses no turn.                     *)
LEMMA TurnStays ==
    ASSUME WebhookInv, TurnInv, NEW r \in Request, Moves(r),
           req[r].at \in InFlight, req'[r].batch = req[r].batch,
           overlapped' = overlapped,
           \A c \in Customer \ {Cust(r)} : session'[c] = session[c],
           Cust(r) \notin overlapped => session[Cust(r)] \subseteq session'[Cust(r)],
           \A m \in processed' :
              \/ m \in processed
              \/ m = Msg(r) /\ (Cust(r) \notin overlapped => m \in session'[Cust(r)]),
           req'[r].at \in InFlight => TurnKept(r)'
    PROVE  TurnInv'
<1>1. /\ Active' \subseteq Active
      /\ \A q \in Request : req'[q].batch = req[q].batch
    BY DEF Active, Moves
<1>2. OverlapsSeen'
    BY <1>1 DEF TurnInv, OverlapsSeen, Active
<1>3. ASSUME NEW q \in Active', q # r
      PROVE  TurnKept(q)'
    <2>1. q \in Active /\ q \in Request /\ req'[q] = req[q] /\ r \in Active
        BY <1>1, <1>3 DEF Moves, Active
    <2>2. /\ Cust(q) \in CustomersOf(req[q].batch) /\ Cust(q) \in Customer
          /\ Cust(r) \in CustomersOf(req[r].batch)
        BY <2>1, CustomerInWork, MessageInWork DEF Active
    <2>3. Cust(q) \notin overlapped => Cust(q) # Cust(r)
        BY <1>3, <2>1, <2>2 DEF TurnInv, OverlapsSeen
    <2>4. PICK c \in Customer : c = Cust(q)
        BY <2>2
    <2>5. Cust(q)' = c /\ Msg(q)' = Msg(q)
        BY <2>1, <2>4 DEF Cust, Msg
    <2>6. c \notin overlapped => session'[c] = session[c]
        BY <2>3, <2>4
    <2>7. TurnKept(q)
        BY <2>1 DEF TurnInv
    <2> QED
        BY <2>1, <2>4, <2>5, <2>6, <2>7 DEF TurnKept
<1>4. \A q \in Active' : TurnKept(q)'
    BY <1>3 DEF Active
<1>5. TurnsLostOnlyByOverlap'
    <2> SUFFICES ASSUME NEW m \in processed', CustomerOf[m] \notin overlapped
                 PROVE  m \in session'[CustomerOf[m]]
        BY DEF TurnsLostOnlyByOverlap
    <2>1. CASE m \in processed
        <3>1. CustomerOf[m] \in Customer
            BY <2>1, WebhookAssumption DEF WebhookInv, TypeOK, StoreTypeOK
        <3>2. m \in session[CustomerOf[m]]
            BY <2>1 DEF TurnInv, TurnsLostOnlyByOverlap
        <3> QED
            BY <3>1, <3>2
    <2>2. CASE m \notin processed
        BY <2>2 DEF Cust
    <2> QED
        BY <2>1, <2>2
<1> QED
    BY <1>2, <1>4, <1>5 DEF TurnInv

(* A step of r that goes on after the save with what the session has, or   *)
(* before it with what the handler holds.                                  *)
LEMMA TurnGoesOn ==
    ASSUME WebhookInv, TurnInv, NEW r \in Request, req[r].at \in InFlight,
           Msg(r)' = Msg(r), Cust(r)' = Cust(r),
           req'[r].session = req[r].session,
           UNCHANGED << session, overlapped >>,
           req'[r].at \in BeforeSave => req[r].at \in BeforeSave,
           req'[r].at \in AfterSave => req[r].at \in AfterSave
    PROVE  TurnKept(r)'
<1>1. TurnKept(r)
    BY DEF TurnInv, Active
<1>2. PICK c : c = Cust(r)
    OBVIOUS
<1> QED
    BY <1>1, <1>2 DEF TurnKept

(* Each await of the handler loses no turn.                                *)
LEMMA HandleKeepsTurns ==
    ASSUME WebhookInv, TurnInv, NEW r \in Request, Handle(r) \/ QueryFails(r)
    PROVE  TurnInv'
<1> USE DEF WebhookInv
<1>0. Handlers /\ Handler(r)
    BY DEF Handlers
<1>1. ASSUME NEW step, Goto(r, step), req[r].at \in InFlight,
             UNCHANGED << processed, session, overlapped >>,
             step \in BeforeSave => req[r].at \in BeforeSave,
             step \in AfterSave => req[r].at \in AfterSave
      PROVE  TurnInv'
    <2>1. /\ Moves(r) /\ req'[r].at = step /\ req'[r].batch = req[r].batch
          /\ req'[r].session = req[r].session
        BY <1>0, <1>1, GotoMoves
    <2>2. Msg(r)' = Msg(r) /\ Cust(r)' = Cust(r)
        BY <1>1, GotoArrives
    <2>3. TurnKept(r)'
        BY <1>1, <2>1, <2>2, TurnGoesOn
    <2> QED
        BY <1>1, <2>1, <2>3, TurnStays
<1>2. ASSUME NEW status, Finish(r, status), req[r].at \in InFlight,
             UNCHANGED << processed, session, overlapped >>
      PROVE  TurnInv'
    <2>1. Moves(r) /\ req'[r].at = "done" /\ req'[r].batch = req[r].batch
        BY <1>0, <1>2, FinishMoves
    <2>2. req'[r].at \notin InFlight
        BY <2>1 DEF InFlight, StoreSteps, JournalSteps
    <2> QED
        BY <1>2, <2>1, <2>2, TurnStays
<1>3. ASSUME req' = [req EXCEPT ![r] = AfterAppend(@)], req[r].at \in JournalSteps,
             UNCHANGED << processed, session, overlapped >>
      PROVE  TurnInv'
    <2>1. /\ Moves(r) /\ req'[r].batch = req[r].batch
          /\ req'[r].session = req[r].session
          /\ \/ req'[r].at \in {"dedupe", "received", "respond"}
             \/ /\ req[r].at = "handedOff" /\ req'[r].at = "mark"
                /\ req'[r].i = req[r].i
        BY <1>0, <1>3, AfterAppendMoves DEF At
    <2>2. req[r].at \in InFlight
        BY <1>3 DEF InFlight
    <2>3. TurnKept(r)'
        <3>1. CASE req'[r].at \in {"dedupe", "received", "respond"}
            BY <3>1 DEF TurnKept, BeforeSave, AfterSave, AfterEvidence, AfterHandoff,
               AfterHandoffEvent
        <3>2. CASE /\ req[r].at = "handedOff" /\ req'[r].at = "mark"
                   /\ req'[r].i = req[r].i
            <4>1. Msg(r)' = Msg(r) /\ Cust(r)' = Cust(r)
                BY <2>1, <3>2 DEF Msg, Cust
            <4> QED
                BY <1>3, <2>1, <2>2, <3>2, <4>1, TurnGoesOn
                   DEF BeforeSave, AfterSave, AfterEvidence, AfterHandoff,
                       AfterHandoffEvent
        <3> QED
            BY <2>1, <3>1, <3>2
    <2> QED
        BY <1>3, <2>1, <2>2, <2>3, TurnStays
<1>4. CASE JournalPush(r) \/ JournalInsert(r)
    BY <1>0, <1>3, <1>4 DEF JournalPush, JournalInsert, Handler, store, history
<1>5. CASE JournalSelect(r)
    <2>1. /\ Moves(r) /\ req'[r].at = req[r].at /\ req'[r].batch = req[r].batch
          /\ req'[r].i = req[r].i /\ req'[r].session = req[r].session
        BY <1>0, <1>5, JournalSelectMoves
    <2>2. Msg(r)' = Msg(r) /\ Cust(r)' = Cust(r)
        BY <2>1 DEF Msg, Cust
    <2>3. req[r].at \in InFlight /\ UNCHANGED << processed, session, overlapped >>
        BY <1>5 DEF JournalSelect, InFlight, store, history
    <2>4. TurnKept(r)'
        BY <2>1, <2>2, <2>3, TurnGoesOn
    <2> QED
        BY <2>1, <2>3, <2>4, TurnStays
<1>6. CASE JournalConflict(r) \/ Respond(r) \/ QueryFails(r)
    <2>1. /\ req[r].at \in InFlight
          /\ UNCHANGED << processed, session, overlapped >>
          /\ \E status \in {200, 500} : Finish(r, status)
        BY <1>0, <1>6 DEF JournalConflict, Respond, QueryFails, Handler, At,
           InFlight, store, history
    <2> QED
        BY <1>2, <2>1
<1>7. CASE \/ CheckDuplicate(r) \/ LoadDuplicateSession(r)
           \/ \E accepted \in BOOLEAN : SendAnswer(r, accepted)
           \/ SaveInboundEvent(r) \/ SaveOutboundEvent(r) \/ SaveHandoffEvent(r)
           \/ SaveEvidence(r) \/ SaveHandoff(r)
    <2>1. PICK step : /\ Goto(r, step) /\ req[r].at \in InFlight
                      /\ UNCHANGED << processed, session, overlapped >>
                      /\ << req[r].at, step >> \in
                           {<< "dedupe", "duplicateSession" >>, << "dedupe", "load" >>,
                            << "duplicateSession", "duplicate" >>,
                            << "deliver", "inbound" >>, << "inbound", "outbound" >>,
                            << "outbound", "session" >>,
                            << "handoffEvent", "handedOff" >>,
                            << "evidence", "handoff" >>, << "evidence", "mark" >>,
                            << "handoff", "handoffEvent" >>}
        <3>1. CASE CheckDuplicate(r)
            <4>1. PICK step : /\ step \in {"duplicateSession", "load"}
                              /\ req[r].at = "dedupe" /\ Goto(r, step)
                BY <3>1 DEF CheckDuplicate, At
            <4> QED
                BY <3>1, <4>1 DEF CheckDuplicate, InFlight, StoreSteps, store, history
        <3>2. CASE LoadDuplicateSession(r)
            BY <3>2 DEF LoadDuplicateSession, At, InFlight, StoreSteps, store, history
        <3>3. CASE \E accepted \in BOOLEAN : SendAnswer(r, accepted)
            BY <3>3 DEF SendAnswer, At, InFlight, store
        <3>4. CASE SaveInboundEvent(r) \/ SaveOutboundEvent(r) \/ SaveHandoffEvent(r)
            BY <3>4 DEF SaveInboundEvent, SaveOutboundEvent, SaveHandoffEvent,
               SaveEvent, At, InFlight, StoreSteps, history
        <3>5. CASE SaveEvidence(r)
            <4>1. PICK step : /\ step \in {"handoff", "mark"}
                              /\ req[r].at = "evidence" /\ Goto(r, step)
                BY <3>5 DEF SaveEvidence, At
            <4> QED
                BY <3>5, <4>1 DEF SaveEvidence, InFlight, StoreSteps, history
        <3>6. CASE SaveHandoff(r)
            BY <3>6 DEF SaveHandoff, At, InFlight, StoreSteps, history
        <3> QED
            BY <1>7, <3>1, <3>2, <3>3, <3>4, <3>5, <3>6
    <2>2. /\ step \in BeforeSave => req[r].at \in BeforeSave
          /\ step \in AfterSave => req[r].at \in AfterSave
        BY <2>1 DEF BeforeSave, AfterSave, AfterEvidence, AfterHandoff,
           AfterHandoffEvent
    <2> QED
        BY <1>1, <2>1, <2>2
<1>8. CASE LoadSession(r)
    <2>1. /\ Moves(r) /\ req'[r].at \in {"inbound", "deliver"}
          /\ req'[r].batch = req[r].batch /\ req'[r].i = req[r].i
          /\ req'[r].session = session[Cust(r)] \cup {Msg(r)}
        BY <1>0, <1>8, LoadSessionMoves
    <2>2. req[r].at \in InFlight /\ UNCHANGED << processed, session, overlapped >>
        BY <1>8 DEF LoadSession, At, InFlight, StoreSteps, store, history
    <2>3. PICK c : c = Cust(r)
        OBVIOUS
    <2>4. Msg(r)' = Msg(r) /\ Cust(r)' = c
        BY <2>1, <2>3 DEF Msg, Cust
    <2>5. TurnKept(r)'
        BY <2>1, <2>2, <2>3, <2>4 DEF TurnKept, AfterSave, AfterEvidence,
           AfterHandoff, AfterHandoffEvent
    <2> QED
        BY <2>1, <2>2, <2>5, TurnStays
<1>9. CASE SaveSession(r)
    <2>1. /\ req[r].at = "session" /\ Goto(r, "evidence") /\ req[r].at \in InFlight
          /\ session' = [session EXCEPT ![Cust(r)] = req[r].session]
          /\ UNCHANGED << processed, overlapped >>
        BY <1>9 DEF SaveSession, At, InFlight, StoreSteps, history
    <2>2. /\ Moves(r) /\ req'[r].at = "evidence" /\ req'[r].batch = req[r].batch
        BY <1>0, <2>1, GotoMoves
    <2>3. /\ Msg(r)' = Msg(r) /\ Cust(r)' = Cust(r) /\ Cust(r) \in Customer
        BY <2>1, GotoArrives
    <2>4. PICK c \in Customer : c = Cust(r)
        BY <2>3
    <2>5. /\ session'[c] = req[r].session
          /\ \A d \in Customer \ {c} : session'[d] = session[d]
        BY <2>1, <2>4 DEF TypeOK, StoreTypeOK
    <2>6. c \notin overlapped => session[c] \cup {Msg(r)} \subseteq req[r].session
        BY <2>1, <2>4 DEF TurnInv, TurnKept, Active, BeforeSave
    <2>7. TurnKept(r)'
        BY <2>1, <2>2, <2>3, <2>4, <2>5, <2>6 DEF TurnKept, BeforeSave
    <2> QED
        BY <2>1, <2>2, <2>4, <2>5, <2>6, <2>7, TurnStays
<1>10. CASE MarkProcessed(r)
    <2>1. /\ req[r].at = "mark" /\ Goto(r, "processed") /\ req[r].at \in InFlight
          /\ processed' = processed \cup {Msg(r)}
          /\ UNCHANGED << session, overlapped >>
        BY <1>10 DEF MarkProcessed, At, InFlight, StoreSteps, history
    <2>2. /\ Moves(r) /\ req'[r].at = "processed" /\ req'[r].batch = req[r].batch
        BY <1>0, <2>1, GotoMoves
    <2>3. Cust(r) \notin overlapped => Msg(r) \in session[Cust(r)]
        BY <2>1 DEF TurnInv, TurnKept, Active, AfterSave, AfterEvidence,
           AfterHandoff, AfterHandoffEvent
    <2>4. TurnKept(r)'
        BY <2>2 DEF TurnKept, BeforeSave, AfterSave, AfterEvidence, AfterHandoff,
           AfterHandoffEvent
    <2> QED
        BY <2>1, <2>2, <2>3, <2>4, TurnStays
<1> QED
    BY <1>4, <1>5, <1>6, <1>7, <1>8, <1>9, <1>10 DEF Handle

(* A payload that arrives while others work for its customers makes them   *)
(* overlapped; it takes no turn away.                                      *)
LEMMA DeliverKeepsTurns ==
    ASSUME WebhookInv, TurnInv, NEW r \in Request, NEW batch \in Batch,
           Deliver(r, batch)
    PROVE  TurnInv'
<1>1. /\ Moves(r) /\ req'[r].at = "received" /\ req'[r].batch = batch
      /\ r \notin Active
    BY DeliverMoves DEF WebhookInv, Deliver, At, Active, InFlight, StoreSteps,
       JournalSteps
<1>2. UNCHANGED << processed, session >>
    BY DEF Deliver, store
<1>3. overlapped' = overlapped \cup
         {c \in CustomersOf(batch) :
            \E q \in Active : c \in CustomersOf(req[q].batch)}
    BY DEF Deliver
<1>4. Active' \subseteq Active \cup {r}
    BY <1>1 DEF Active, Moves
<1>5. \A q \in Active : q # r /\ req'[q] = req[q]
    BY <1>1 DEF Active, Moves
<1>6. OverlapsSeen'
    <2> SUFFICES ASSUME NEW p \in Active', NEW q \in Active', p # q,
                        NEW c \in CustomersOf(req'[p].batch),
                        c \in CustomersOf(req'[q].batch)
                 PROVE  c \in overlapped'
        BY DEF OverlapsSeen
    <2>1. CASE p \in Active /\ q \in Active
        <3>1. c \in overlapped
            BY <1>5, <2>1 DEF TurnInv, OverlapsSeen
        <3> QED
            BY <1>3, <3>1
    <2>2. CASE p = r /\ q \in Active
        BY <1>1, <1>3, <1>5, <2>2
    <2>3. CASE p \in Active /\ q = r
        BY <1>1, <1>3, <1>5, <2>3
    <2> QED
        BY <1>1, <1>4, <2>1, <2>2, <2>3
<1>7. ASSUME NEW q \in Active'
      PROVE  TurnKept(q)'
    <2>1. CASE q = r
        BY <1>1, <2>1 DEF TurnKept, BeforeSave, AfterSave, AfterEvidence,
           AfterHandoff, AfterHandoffEvent
    <2>2. CASE q \in Active
        <3>1. TurnKept(q) /\ req'[q] = req[q]
            BY <1>5, <2>2 DEF TurnInv
        <3>2. PICK c : c = Cust(q)
            OBVIOUS
        <3>3. Cust(q)' = c /\ Msg(q)' = Msg(q)
            BY <3>1, <3>2 DEF Cust, Msg
        <3> QED
            BY <1>2, <1>3, <3>1, <3>2, <3>3 DEF TurnKept
    <2> QED
        BY <1>4, <2>1, <2>2
<1>8. TurnsLostOnlyByOverlap'
    BY <1>2, <1>3 DEF TurnInv, TurnsLostOnlyByOverlap
<1> QED
    BY <1>6, <1>7, <1>8 DEF TurnInv

(* A crash ends every handler; a store that forgets the sessions forgets   *)
(* the marks with them.                                                    *)
LEMMA CrashKeepsTurns ==
    ASSUME TurnInv, Crash
    PROVE  TurnInv'
<1>1. Active' = {}
    <2> SUFFICES ASSUME NEW r \in Request PROVE req'[r].at \notin InFlight
        BY DEF Active
    <2>1. "done" \notin InFlight
        BY DEF InFlight, StoreSteps, JournalSteps
    <2>2. CASE r \in Active
        <3>1. req'[r] = [req[r] EXCEPT !.at = "done", !.insert = << >>,
                                       !.session = {}, !.status = 0]
            BY <2>2 DEF Crash
        <3>2. req'[r].at \in {"done", req[r].at}
            BY <3>1
        <3> QED
            BY <2>1, <2>2, <3>1
    <2>3. CASE r \notin Active
        BY <2>3 DEF Crash, Active
    <2> QED
        BY <2>2, <2>3
<1>2. processed' = {} \/ UNCHANGED << processed, session >>
    BY DEF Crash, store
<1>3. TurnsLostOnlyByOverlap'
    BY <1>2 DEF Crash, history, TurnInv, TurnsLostOnlyByOverlap
<1> QED
    BY <1>1, <1>3 DEF TurnInv, OverlapsSeen

(* No step of the server makes a turn go missing without an overlap.       *)
LEMMA NextKeepsTurns == WebhookInv /\ TurnInv /\ [Next]_vars => TurnInv'
<1> SUFFICES ASSUME WebhookInv, TurnInv, [Next]_vars PROVE TurnInv'
    OBVIOUS
<1>1. CASE UNCHANGED vars
    BY <1>1 DEF vars, store, history, TurnInv, OverlapsSeen, TurnKept,
       TurnsLostOnlyByOverlap, Active, Cust, Msg
<1>2. CASE \E r \in Request, batch \in Batch : Deliver(r, batch)
    BY <1>2, DeliverKeepsTurns
<1>3. CASE \E r \in Request : Handle(r) \/ QueryFails(r)
    BY <1>3, HandleKeepsTurns
<1>4. CASE Crash
    BY <1>4, CrashKeepsTurns
<1> QED
    BY <1>1, <1>2, <1>3, <1>4 DEF Next

(* A turn of a conversation can only go missing from the stored session    *)
(* when two deliveries worked for the customer at the same time: for any   *)
(* payloads, failed queries and crashes, load and save of the session are  *)
(* the only way to lose one.                                               *)
THEOREM TurnsOnlyLostByOverlap == Spec => []TurnsLostOnlyByOverlap
<1>1. Init => TurnInv
    <2>1. "waiting" \notin InFlight
        BY DEF InFlight, StoreSteps, JournalSteps
    <2>2. Init => Active = {} /\ processed = {}
        BY <2>1 DEF Init, Active, Unused
    <2> QED
        BY <2>2 DEF TurnInv, OverlapsSeen, TurnsLostOnlyByOverlap
<1>2. TurnInv => TurnsLostOnlyByOverlap
    BY DEF TurnInv
<1> QED
    BY <1>1, <1>2, WebhookInvariant, NextKeepsTurns, PTL DEF Spec

-----------------------------------------------------------------------------
(* The story in the journal.                                               *)

(* The journal only grows, each chain by the event that continues it.      *)
JournalGrows ==
    \A c \in Customer :
        \/ journal'[c] = journal[c]
        \/ \E event : /\ HasFields(event)
                      /\ event.sequence = LatestSequence(journal[c]) + 1
                      /\ PendingFollowsSelect(journal[c], event)
                      /\ journal'[c] = WithRow(journal[c], event)

(* Row n of the chain of c comes after what it is the outcome of.          *)
TellsTheStory(c, n) ==
    LET m == journal[c][n].eventId[1] IN
    /\ journal[c][n].body = "processed" =>
         /\ \E k \in WrittenAs(c, m, "received") : k < n
         /\ m \in HandoffMessage => \E k \in WrittenAs(c, m, "handedOff") : k < n
         /\ m \in processed
    /\ journal[c][n].body = "duplicate" => m \in processed

(* Chains that grow stay chains, keep their rows and what was pending, and *)
(* a row that is added comes after all others.                             *)
LEMMA RowsStay ==
    ASSUME ChainsLinked, JournalGrows, NEW c \in Customer
    PROVE  /\ Gapless(journal'[c]) /\ Linked(journal'[c])
           /\ \A n \in DOMAIN journal'[c] : HasFields(journal'[c][n])
           /\ \A n \in DOMAIN journal[c] :
                 n \in DOMAIN journal'[c] /\ journal'[c][n] = journal[c][n]
           /\ \A n \in DOMAIN journal'[c] \ DOMAIN journal[c] :
                 \A k \in DOMAIN journal[c] : k < n
           /\ \A event : /\ event.sequence \in Nat \ {0}
                         /\ PendingFollowsSelect(journal[c], event)
                         => PendingFollowsSelect(journal'[c], event)
<1> DEFINE rows == journal[c]
           l == LatestSequence(rows)
<1>1. /\ Gapless(rows) /\ Linked(rows) /\ l \in Nat /\ DOMAIN rows = 1..l
      /\ \A n \in DOMAIN rows : HasFields(rows[n])
    BY DEF ChainsLinked, Gapless
<1>2. CASE journal'[c] = journal[c]
    BY <1>1, <1>2
<1>3. ASSUME NEW event, HasFields(event), event.sequence = l + 1,
             PendingFollowsSelect(rows, event), journal'[c] = WithRow(rows, event)
      PROVE  /\ Gapless(journal'[c]) /\ Linked(journal'[c])
             /\ \A n \in DOMAIN journal'[c] : HasFields(journal'[c][n])
             /\ \A n \in DOMAIN rows :
                   n \in DOMAIN journal'[c] /\ journal'[c][n] = rows[n]
             /\ \A n \in DOMAIN journal'[c] \ DOMAIN rows :
                   \A k \in DOMAIN rows : k < n
             /\ \A pending : /\ pending.sequence \in Nat \ {0}
                             /\ PendingFollowsSelect(rows, pending)
                             => PendingFollowsSelect(journal'[c], pending)
    <2>1. Gapless(journal'[c]) /\ Linked(journal'[c])
        BY <1>1, <1>3, AppendStaysLinked
    <2>2. /\ DOMAIN journal'[c] = 1..(l + 1) /\ journal'[c][l + 1] = event
          /\ \A n \in 1..l : journal'[c][n] = rows[n]
        BY <1>1, <1>3, WithNextRow
    <2>3. \A pending : /\ pending.sequence \in Nat \ {0}
                      /\ PendingFollowsSelect(rows, pending)
                      => PendingFollowsSelect(journal'[c], pending)
        BY <1>1, <1>3, PendingOutlivesAppend
    <2> HIDE DEF rows, l
    <2>4. \A n \in DOMAIN journal'[c] : HasFields(journal'[c][n])
        <3>1. \A n \in 1..(l + 1) : n = l + 1 \/ n \in 1..l
            BY <1>1
        <3> QED
            BY <1>1, <1>3, <2>2, <3>1
    <2> QED
        BY <1>1, <2>1, <2>2, <2>3, <2>4
<1> QED
    BY <1>2, <1>3 DEF JournalGrows

(* What is written stays written.                                          *)
LEMMA WrittenStays ==
    ASSUME ChainsLinked, JournalGrows, NEW c \in Customer
    PROVE  /\ Written(c) \subseteq Written(c)'
           /\ \A m, body : WrittenAs(c, m, body) \subseteq WrittenAs(c, m, body)'
BY RowsStay DEF Written, WrittenAs

(* A message of a payload is from a customer.                              *)
LEMMA MessageInBatch ==
    ASSUME WebhookInv, NEW r \in Request, NEW k \in DOMAIN req[r].batch
    PROVE  /\ req[r].batch[k] \in Message
           /\ CustomerOf[req[r].batch[k]] \in Customer
<1>1. req[r].batch \in Batch \cup {<< >>}
    BY DEF WebhookInv, TypeOK, HandlerTypeOK
<1>2. req[r].batch \in Seq(Message)
    BY <1>1, WebhookAssumption
<1> QED
    BY <1>2, WebhookAssumption

(* A step of r that adds rows to the journal and marks to the store tells  *)
(* the story to the end if what it adds and where it leads does.           *)
LEMMA StoryStays ==
    ASSUME WebhookInv, WebhookInv', StoryInv, NEW r \in Request, Moves(r),
           JournalGrows, mode' = mode, processed \subseteq processed',
           req'[r].batch = req[r].batch \/ At(r, "waiting"),
           Pending(r)', req'[r].at \in InFlight => Told(r)',
           \A c \in Customer : \A n \in DOMAIN journal'[c] \ DOMAIN journal[c] :
              TellsTheStory(c, n)',
           \A k \in DOMAIN req'[r].batch :
              Finished(r, k)' =>
                 \/ Finished(r, k) /\ req'[r].batch = req[r].batch
                 \/ OutcomeStored(req[r].batch[k])'
    PROVE  StoryInv'
<1>1. ChainsLinked'
    BY RowsStay DEF StoryInv, ChainsLinked
<1>2. ASSUME NEW q \in Request, q # r
      PROVE  Pending(q)' /\ (req'[q].at \in InFlight => Told(q)')
    <2>1. req'[q] = req[q] /\ Pending(q) /\ (req[q].at \in InFlight => Told(q))
        BY <1>2 DEF Moves, StoryInv, Active
    <2>2. Msg(q)' = Msg(q) /\ Cust(q)' = Cust(q)
        BY <2>1 DEF Msg, Cust
    <2>3. Pending(q)'
        <3> SUFFICES ASSUME req[q].insert # << >> PROVE Pending(q)'
            BY <2>1 DEF Pending
        <3>1. req[q].at \in InFlight
            BY DEF WebhookInv, Handlers, Handler, InFlight
        <3>2. PICK c \in Customer : c = Cust(q)
            BY <3>1, MessageInWork
        <3>3. PendingFollowsSelect(journal'[c], req[q].insert[1])
            BY <2>1, <3>2, RowsStay DEF Pending, StoryInv
        <3> QED
            BY <2>1, <2>2, <3>2, <3>3 DEF Pending
    <2>4. ASSUME req[q].at \in InFlight PROVE Told(q)'
        <3>1. PICK c \in Customer : c = Cust(q)
            BY <2>4, MessageInWork
        <3>2. \A m, body : WrittenAs(c, m, body) \subseteq WrittenAs(c, m, body)'
            BY WrittenStays DEF StoryInv
        <3> QED
            BY <2>1, <2>2, <2>4, <3>1, <3>2 DEF Told
    <2> QED
        BY <2>1, <2>3, <2>4
<1>3. JournalTellsTheStory'
    <2> SUFFICES ASSUME NEW c \in Customer, NEW n \in DOMAIN journal'[c]
                 PROVE  TellsTheStory(c, n)'
        BY DEF JournalTellsTheStory, TellsTheStory
    <2>1. CASE n \in DOMAIN journal[c]
        <3>1. TellsTheStory(c, n)
            BY <2>1 DEF StoryInv, JournalTellsTheStory, TellsTheStory
        <3>2. journal'[c][n] = journal[c][n]
            BY <2>1, RowsStay DEF StoryInv
        <3>3. \A m, body : WrittenAs(c, m, body) \subseteq WrittenAs(c, m, body)'
            BY WrittenStays DEF StoryInv
        <3> QED
            BY <3>1, <3>2, <3>3 DEF TellsTheStory
    <2> QED
        BY <2>1
<1>4. FinishedIsStored'
    <2> SUFFICES ASSUME NEW q \in Request, NEW k \in DOMAIN req'[q].batch,
                        Finished(q, k)'
                 PROVE  OutcomeStored(req[q].batch[k])'
        BY DEF FinishedIsStored
    <2>1. CASE Finished(q, k) /\ req'[q].batch = req[q].batch
        <3>1. PICK m : m = req[q].batch[k]
            OBVIOUS
        <3>2. OutcomeStored(m) /\ CustomerOf[m] \in Customer
            BY <2>1, <3>1, MessageInBatch DEF StoryInv, FinishedIsStored
        <3>3. PICK c \in Customer : c = CustomerOf[m]
            BY <3>2
        <3>4. Written(c) \subseteq Written(c)'
            BY WrittenStays DEF StoryInv
        <3>5. OutcomeStored(m)'
            BY <3>2, <3>3, <3>4 DEF OutcomeStored
        <3> QED
            BY <2>1, <3>1, <3>5
    <2>2. CASE q # r
        <3>1. req'[q] = req[q]
            BY <2>2 DEF Moves
        <3> QED
            BY <2>1, <3>1 DEF Finished, At
    <2>3. CASE q = r
        BY <2>1, <2>3
    <2> QED
        BY <2>2, <2>3
<1> QED
    BY <1>1, <1>2, <1>3, <1>4 DEF StoryInv, Active

(* A step that leaves the journal alone adds nothing to tell.              *)
LEMMA NothingToTell ==
    ASSUME UNCHANGED journal
    PROVE  /\ JournalGrows
           /\ \A c \in Customer : \A n \in DOMAIN journal'[c] \ DOMAIN journal[c] :
                 TellsTheStory(c, n)'
BY DEF JournalGrows

(* An await of the store or of the sender: r goes on with its message, to  *)
(* the mark only when there was no handoff to report, to the outcome only  *)
(* with the mark in the store.                                             *)
LEMMA StoreStepTells ==
    ASSUME WebhookInv, WebhookInv', StoryInv, NEW r \in Request, Moves(r),
           req[r].at \in StoreSteps \cup {"deliver"},
           req'[r].batch = req[r].batch, req'[r].i = req[r].i,
           req'[r].insert = req[r].insert, req'[r].status = req[r].status,
           req'[r].at \in InFlight \ {"received", "respond"},
           req'[r].at = "mark" => Msg(r) \notin HandoffMessage,
           req'[r].at = "processed" => req[r].at = "mark" /\ Msg(r) \in processed',
           req'[r].at \in {"duplicateSession", "duplicate"} => Msg(r) \in processed,
           mode' = mode, UNCHANGED journal, processed \subseteq processed'
    PROVE  StoryInv'
<1>1. /\ req[r].at \in InFlight \ {"received", "respond"}
      /\ req[r].insert = << >>
    BY DEF InFlight, StoreSteps, JournalSteps, WebhookInv, Handlers, Handler
<1>2. PICK c \in Customer, m \in Message : c = Cust(r) /\ m = Msg(r)
    BY <1>1, MessageInWork
<1>3. Cust(r)' = c /\ Msg(r)' = m
    BY <1>2 DEF Cust, Msg
<1>4. Pending(r)'
    BY <1>1 DEF Pending
<1>5. \A body : WrittenAs(c, m, body)' = WrittenAs(c, m, body)
    BY DEF WrittenAs
<1>6. Told(r)
    BY <1>1 DEF StoryInv, Active
<1>7. Told(r)'
    <2>1. WrittenAs(c, m, "received")' # {}
        BY <1>1, <1>2, <1>5, <1>6 DEF Told
    <2>2. (req'[r].at \in {"mark", "processed"} /\ m \in HandoffMessage) =>
            WrittenAs(c, m, "handedOff")' # {}
        BY <1>2, <1>5, <1>6 DEF Told
    <2>3. req'[r].at \in {"duplicateSession", "duplicate", "processed"} => m \in processed'
        BY <1>2
    <2> QED
        BY <1>3, <2>1, <2>2, <2>3 DEF Told
<1>8. \A k \in DOMAIN req'[r].batch : Finished(r, k)' => Finished(r, k)
    BY <1>1 DEF Finished, At
<1> QED
    BY <1>4, <1>7, <1>8, NothingToTell, StoryStays

(* An answer: 200 only after the last message.                             *)
LEMMA FinishTells ==
    ASSUME WebhookInv, WebhookInv', StoryInv, NEW r \in Request, NEW status,
           Finish(r, status), status = 200 => req[r].at = "respond",
           UNCHANGED << mode, processed, journal >>
    PROVE  StoryInv'
<1>1. /\ Moves(r) /\ req'[r].at = "done" /\ req'[r].batch = req[r].batch
      /\ req'[r].insert = << >> /\ req'[r].status = status
    BY FinishMoves DEF WebhookInv
<1>2. "done" \notin InFlight
    BY DEF InFlight, StoreSteps, JournalSteps
<1>3. Pending(r)'
    BY <1>1 DEF Pending
<1>4. \A k \in DOMAIN req'[r].batch : Finished(r, k)' => Finished(r, k)
    BY <1>1, <1>2 DEF Finished, At
<1> QED
    BY <1>1, <1>2, <1>3, <1>4, NothingToTell, StoryStays

(* The event of a request follows the rows it is built from.               *)
LEMMA EventFollows ==
    ASSUME StoryInv, NEW r \in Request, Cust(r) \in Customer
    PROVE  /\ HasFields(EventOf(r))
           /\ EventOf(r).sequence = LatestSequence(journal[Cust(r)]) + 1
           /\ EventOf(r).sequence \in Nat \ {0}
           /\ EventOf(r).eventId = << Msg(r), EventKind(req[r].at) >>
           /\ EventOf(r).body = req[r].at
           /\ PendingFollowsSelect(journal[Cust(r)], EventOf(r))
<1> DEFINE rows == journal[Cust(r)]
           id == << Msg(r), EventKind(req[r].at) >>
           event == NextStoredEvent(rows, Cust(r), id, req[r].at)
<1>1. Gapless(rows)
    BY DEF StoryInv, ChainsLinked
<1> HIDE DEF rows, id
<1>2. /\ HasFields(event) /\ event.eventId = id /\ event.body = req[r].at
      /\ event.sequence = LatestSequence(rows) + 1
      /\ PendingFollowsSelect(rows, event)
    BY <1>1, NextFollowsSelect
<1>3. LatestSequence(rows) + 1 \in Nat \ {0}
    BY <1>1 DEF Gapless
<1>4. EventOf(r) = event
    BY DEF EventOf, rows, id
<1> QED
    BY <1>2, <1>3, <1>4 DEF rows, id

(* The SELECT of an append.                                                *)
LEMMA SelectTells ==
    ASSUME WebhookInv, WebhookInv', StoryInv, NEW r \in Request, JournalSelect(r)
    PROVE  StoryInv'
<1>1. /\ Moves(r) /\ req'[r].at = req[r].at /\ req'[r].batch = req[r].batch
      /\ req'[r].i = req[r].i /\ req'[r].status = req[r].status
      /\ req'[r].insert = << EventOf(r) >>
    BY JournalSelectMoves DEF WebhookInv
<1>2. /\ mode.store = "postgres" /\ req[r].at \in InFlight
      /\ UNCHANGED << mode, processed, journal >>
    BY DEF JournalSelect, InFlight, store
<1>3. PICK c \in Customer, m \in Message : c = Cust(r) /\ m = Msg(r)
    BY <1>2, MessageInWork
<1>4. Cust(r)' = c /\ Msg(r)' = m
    BY <1>1, <1>3 DEF Cust, Msg
<1>5. /\ HasFields(EventOf(r))
      /\ EventOf(r).sequence \in Nat \ {0} /\ EventOf(r).body = req[r].at
      /\ PendingFollowsSelect(journal[c], EventOf(r))
    BY <1>3, EventFollows
<1>6. Pending(r)'
    <2> PICK event : event = EventOf(r)
        OBVIOUS
    <2> QED
        BY <1>1, <1>2, <1>4, <1>5 DEF Pending
<1>7. Told(r)'
    <2>1. Told(r)
        BY <1>2 DEF StoryInv, Active
    <2>2. \A body : WrittenAs(c, m, body)' = WrittenAs(c, m, body)
        BY <1>2 DEF WrittenAs
    <2> QED
        BY <1>1, <1>2, <1>3, <1>4, <2>1, <2>2 DEF Told
<1>8. \A k \in DOMAIN req'[r].batch : Finished(r, k)' => Finished(r, k)
    BY <1>1 DEF Finished, At
<1> QED
    BY <1>1, <1>2, <1>6, <1>7, <1>8, NothingToTell, StoryStays

(* An append that resolved: the row comes after what it is the outcome of, *)
(* and the handler is through with its message when it was the outcome.    *)
LEMMA AppendTells ==
    ASSUME WebhookInv, WebhookInv', StoryInv, NEW r \in Request, NEW event,
           HasFields(event), req[r].at \in JournalSteps,
           req' = [req EXCEPT ![r] = AfterAppend(@)],
           journal' = [journal EXCEPT ![Cust(r)] = WithRow(@, event)],
           event.sequence = LatestSequence(journal[Cust(r)]) + 1,
           event.eventId = << Msg(r), EventKind(req[r].at) >>,
           event.body = req[r].at,
           PendingFollowsSelect(journal[Cust(r)], event),
           UNCHANGED << mode, processed >>
    PROVE  StoryInv'
<1>1. /\ Moves(r) /\ req'[r].batch = req[r].batch
      /\ req'[r].status = req[r].status /\ req'[r].insert = << >>
      /\ \/ req[r].at = "received" /\ req'[r].at = "dedupe" /\ req'[r].i = req[r].i
         \/ req[r].at = "handedOff" /\ req'[r].at = "mark" /\ req'[r].i = req[r].i
         \/ /\ req[r].at \in {"processed", "duplicate"}
            /\ req[r].i < Len(req[r].batch)
            /\ req'[r].at = "received" /\ req'[r].i = req[r].i + 1
         \/ /\ req[r].at \in {"processed", "duplicate"}
            /\ ~ (req[r].i < Len(req[r].batch))
            /\ req'[r].at = "respond" /\ req'[r].i = req[r].i
    BY AfterAppendMoves DEF WebhookInv, At
<1>2. req[r].at \in InFlight
    BY DEF InFlight
<1>3. PICK c \in Customer, m \in Message : c = Cust(r) /\ m = Msg(r)
    BY <1>2, MessageInWork
<1>4. DOMAIN journal = Customer
    BY DEF WebhookInv, TypeOK, StoreTypeOK
<1>5. PICK l \in Nat : l = LatestSequence(journal[c]) /\ DOMAIN journal[c] = 1..l
    BY DEF StoryInv, ChainsLinked, Gapless
<1>6. /\ DOMAIN journal'[c] = 1..(l + 1) /\ journal'[c][l + 1] = event
      /\ \A n \in 1..l : journal'[c][n] = journal[c][n]
    <2>1. journal'[c] = WithRow(journal[c], event) /\ event.sequence = l + 1
        BY <1>3, <1>4, <1>5
    <2> QED
        BY <1>5, <2>1, WithNextRow
<1>7. \A d \in Customer \ {c} : journal'[d] = journal[d]
    BY <1>3
<1>8. JournalGrows
    BY <1>3, <1>4, <1>7 DEF JournalGrows
<1>9. Told(r) /\ event.eventId[1] = m
    BY <1>2, <1>3 DEF StoryInv, Active
<1>10. /\ \A body : WrittenAs(c, m, body) \subseteq 1..l
       /\ \A body : WrittenAs(c, m, body) \subseteq WrittenAs(c, m, body)'
       /\ \A body : event.body = body => l + 1 \in WrittenAs(c, m, body)'
       /\ event.eventId \in Written(c)'
    <2>1. \A body : WrittenAs(c, m, body) \subseteq 1..l
        BY <1>5 DEF WrittenAs
    <2>2. \A body : WrittenAs(c, m, body) \subseteq WrittenAs(c, m, body)'
        BY <1>8, WrittenStays DEF StoryInv
    <2>3. l + 1 \in DOMAIN journal'[c]
        BY <1>6
    <2>4. \A body : event.body = body => l + 1 \in WrittenAs(c, m, body)'
        BY <1>6, <1>9, <2>3 DEF WrittenAs
    <2>5. event.eventId \in Written(c)'
        BY <1>6, <2>3 DEF Written
    <2> QED
        BY <2>1, <2>2, <2>4, <2>5
<1>11. ASSUME NEW d \in Customer, NEW n \in DOMAIN journal'[d] \ DOMAIN journal[d]
       PROVE  TellsTheStory(d, n)'
    <2>1. d = c /\ n = l + 1
        BY <1>5, <1>6, <1>7, <1>11
    <2>2. journal'[c][l + 1] = event
        BY <1>6
    <2>3. \A body : WrittenAs(c, m, body) # {} =>
             \E k \in WrittenAs(c, m, body)' : k < l + 1
        <3>1. \A k \in 1..l : k < l + 1
            OBVIOUS
        <3> QED
            BY <1>10, <3>1
    <2>4. event.body = "processed" =>
            /\ \E k \in WrittenAs(c, m, "received")' : k < l + 1
            /\ m \in HandoffMessage => \E k \in WrittenAs(c, m, "handedOff")' : k < l + 1
            /\ m \in processed'
        BY <1>3, <1>9, <2>3 DEF Told
    <2>5. event.body = "duplicate" => m \in processed'
        BY <1>3, <1>9 DEF Told
    <2> QED
        BY <1>9, <2>1, <2>2, <2>4, <2>5 DEF TellsTheStory
<1>12. Told(r)'
    <2>1. CASE req'[r].at \in {"received", "respond"}
        BY <2>1 DEF Told
    <2>2. CASE req'[r].i = req[r].i /\ req'[r].at \in {"dedupe", "mark"}
        <3>1. Cust(r)' = c /\ Msg(r)' = m
            BY <1>1, <1>3, <2>2 DEF Cust, Msg
        <3>2. WrittenAs(c, m, "received")' # {}
            <4>1. CASE req[r].at = "received"
                BY <1>10, <4>1
            <4>2. CASE req[r].at = "handedOff"
                BY <1>3, <1>9, <1>10, <4>2 DEF Told
            <4> QED
                BY <1>1, <2>2, <4>1, <4>2
        <3>3. req'[r].at = "mark" => WrittenAs(c, m, "handedOff")' # {}
            BY <1>1, <1>10
        <3> QED
            BY <2>2, <3>1, <3>2, <3>3 DEF Told
    <2> QED
        BY <1>1, <2>1, <2>2
<1>13. ASSUME NEW k \in DOMAIN req'[r].batch, Finished(r, k)', ~ Finished(r, k)
       PROVE  OutcomeStored(req[r].batch[k])'
    <2>1. req[r].at \in {"processed", "duplicate"}
        BY <1>1, <1>2, <1>13 DEF Finished, At
    <2>2. req[r].batch \in Seq(Message) /\ req[r].i \in DOMAIN req[r].batch
        BY <1>2, MessageInWork
    <2>3. k = req[r].i
        <3>1. /\ req[r].i \in 1..Len(req[r].batch) /\ k \in 1..Len(req[r].batch)
              /\ Len(req[r].batch) \in Nat
            BY <1>1, <2>2
        <3>2. ~ (k < req[r].i)
            BY <1>2, <1>13 DEF Finished
        <3>3. k < req[r].i + 1
            <4>1. CASE req'[r].at = "received"
                BY <1>1, <1>13, <2>1, <4>1 DEF Finished, At
            <4>2. CASE req'[r].at = "respond"
                <5>1. ~ (req[r].i < Len(req[r].batch))
                    BY <1>1, <4>2
                <5> QED
                    BY <3>1, <5>1
            <4> QED
                BY <1>1, <2>1, <4>1, <4>2
        <3> QED
            BY <3>1, <3>2, <3>3
    <2>4. req'[r].batch[k] = m /\ CustomerOf[m] = c
        BY <1>1, <1>3, <2>3 DEF Msg, Cust
    <2>5. m \in processed'
        BY <1>3, <1>9, <2>1 DEF Told
    <2>6. << m, "processed" >> \in Written(c)'
        BY <1>3, <1>10, <2>1 DEF EventKind
    <2>7. OutcomeStored(m)'
        BY <2>4, <2>5, <2>6 DEF OutcomeStored
    <2> QED
        BY <2>4, <2>7
<1>14. Pending(r)'
    BY <1>1 DEF Pending
<1> QED
    BY <1>1, <1>8, <1>11, <1>12, <1>13, <1>14, StoryStays

(* Each await of the handler keeps the story.                              *)
LEMMA HandleKeepsStory ==
    ASSUME WebhookInv, WebhookInv', StoryInv, NEW r \in Request,
           Handle(r) \/ QueryFails(r)
    PROVE  StoryInv'
<1>0. Handlers /\ Handler(r)
    BY DEF WebhookInv, Handlers
<1>1. ASSUME NEW step, Goto(r, step), req[r].at \in StoreSteps \cup {"deliver"},
             step \in InFlight \ {"received", "respond"},
             step = "mark" => Msg(r) \notin HandoffMessage,
             step = "processed" => req[r].at = "mark" /\ Msg(r) \in processed',
             step \in {"duplicateSession", "duplicate"} => Msg(r) \in processed,
             mode' = mode, UNCHANGED journal, processed \subseteq processed'
      PROVE  StoryInv'
    <2>1. /\ Moves(r) /\ req'[r].at = step /\ req'[r].batch = req[r].batch
          /\ req'[r].i = req[r].i /\ req'[r].insert = req[r].insert
          /\ req'[r].status = req[r].status
        BY <1>0, <1>1, GotoMoves
    <2> QED
        BY <1>1, <2>1, StoreStepTells
<1>2. CASE JournalPush(r)
    <2>1. Cust(r) \in Customer
        BY <1>2, MessageInWork DEF JournalPush, InFlight
    <2> PICK event : event = EventOf(r)
        OBVIOUS
    <2>2. /\ HasFields(event)
          /\ event.sequence = LatestSequence(journal[Cust(r)]) + 1
          /\ event.eventId = << Msg(r), EventKind(req[r].at) >>
          /\ event.body = req[r].at
          /\ PendingFollowsSelect(journal[Cust(r)], event)
        BY <2>1, EventFollows
    <2>3. /\ req[r].at \in JournalSteps
          /\ req' = [req EXCEPT ![r] = AfterAppend(@)]
          /\ journal' = [journal EXCEPT ![Cust(r)] = WithRow(@, event)]
          /\ UNCHANGED << mode, processed >>
        BY <1>2 DEF JournalPush, store
    <2> QED
        BY <2>2, <2>3, AppendTells
<1>3. CASE JournalInsert(r)
    <2> PICK event : event = req[r].insert[1]
        OBVIOUS
    <2>1. /\ req[r].insert # << >> /\ req[r].at \in JournalSteps
          /\ event.eventId = << Msg(r), EventKind(req[r].at) >>
        BY <1>0, <1>3 DEF JournalInsert, Handler
    <2>2. Cust(r) \in Customer
        BY <2>1, MessageInWork DEF InFlight
    <2>3. /\ HasFields(event)
          /\ event.sequence \in Nat \ {0} /\ event.body = req[r].at
          /\ PendingFollowsSelect(journal[Cust(r)], event)
        BY <2>1 DEF StoryInv, Pending
    <2>4. /\ event.sequence \notin DOMAIN journal[Cust(r)]
          /\ req' = [req EXCEPT ![r] = AfterAppend(@)]
          /\ journal' = [journal EXCEPT ![Cust(r)] = WithRow(@, event)]
          /\ UNCHANGED << mode, processed >>
        BY <1>3 DEF JournalInsert, JournalAllows, store
    <2>5. event.sequence = LatestSequence(journal[Cust(r)]) + 1
        BY <2>2, <2>3, <2>4, FreeIsNext DEF StoryInv, ChainsLinked
    <2> QED
        BY <2>1, <2>3, <2>4, <2>5, AppendTells
<1>4. CASE JournalSelect(r)
    BY <1>4, SelectTells
<1>5. CASE JournalConflict(r) \/ Respond(r) \/ QueryFails(r)
    <2>1. PICK status : /\ Finish(r, status)
                        /\ status = 200 => req[r].at = "respond"
                        /\ UNCHANGED << mode, processed, journal >>
        BY <1>5 DEF JournalConflict, Respond, QueryFails, At, store
    <2> QED
        BY <2>1, FinishTells
<1>6. CASE CheckDuplicate(r)
    <2> PICK step : step = IF Msg(r) \in processed THEN "duplicateSession" ELSE "load"
        OBVIOUS
    <2>1. /\ Goto(r, step) /\ req[r].at \in StoreSteps
          /\ UNCHANGED << mode, processed, journal >>
        BY <1>6 DEF CheckDuplicate, At, StoreSteps, store
    <2>2. step \in InFlight /\ step \in {"duplicateSession", "load"}
        BY DEF InFlight, StoreSteps
    <2> QED
        BY <1>1, <2>1, <2>2
<1>7. CASE LoadDuplicateSession(r)
    <2>1. /\ Goto(r, "duplicate") /\ req[r].at = "duplicateSession"
          /\ UNCHANGED << mode, processed, journal >>
        BY <1>7 DEF LoadDuplicateSession, At, store
    <2>2. Msg(r) \in processed
        BY <2>1 DEF StoryInv, Told, Active, InFlight, StoreSteps
    <2>3. "duplicate" \in InFlight /\ req[r].at \in StoreSteps
        BY <2>1 DEF InFlight, JournalSteps, StoreSteps
    <2> QED
        BY <1>1, <2>1, <2>2, <2>3
<1>8. CASE LoadSession(r)
    <2>1. /\ Moves(r) /\ req'[r].at \in {"inbound", "deliver"}
          /\ req'[r].batch = req[r].batch /\ req'[r].i = req[r].i
          /\ req'[r].insert = req[r].insert /\ req'[r].status = req[r].status
        BY <1>0, <1>8, LoadSessionMoves
    <2>2. req[r].at \in StoreSteps /\ UNCHANGED << mode, processed, journal >>
        BY <1>8 DEF LoadSession, At, StoreSteps, store
    <2>3. req'[r].at \in InFlight
        BY <2>1 DEF InFlight, StoreSteps
    <2> QED
        BY <2>1, <2>2, <2>3, StoreStepTells
<1>9. CASE \/ \E accepted \in BOOLEAN : SendAnswer(r, accepted)
           \/ SaveInboundEvent(r) \/ SaveOutboundEvent(r) \/ SaveHandoffEvent(r)
           \/ SaveSession(r) \/ SaveHandoff(r)
    <2>1. PICK step \in {"inbound", "outbound", "session", "handedOff", "evidence",
                         "handoffEvent"} :
            /\ Goto(r, step) /\ req[r].at \in StoreSteps \cup {"deliver"}
            /\ UNCHANGED << mode, processed, journal >>
        <3>1. CASE \E accepted \in BOOLEAN : SendAnswer(r, accepted)
            BY <3>1 DEF SendAnswer, At, store
        <3>2. CASE SaveInboundEvent(r) \/ SaveOutboundEvent(r) \/ SaveHandoffEvent(r)
            BY <3>2 DEF SaveInboundEvent, SaveOutboundEvent, SaveHandoffEvent,
               SaveEvent, At, StoreSteps
        <3>3. CASE SaveSession(r) \/ SaveHandoff(r)
            BY <3>3 DEF SaveSession, SaveHandoff, At, StoreSteps
        <3> QED
            BY <1>9, <3>1, <3>2, <3>3
    <2>2. step \in InFlight
        BY DEF InFlight, JournalSteps, StoreSteps
    <2> QED
        BY <1>1, <2>1, <2>2
<1>10. CASE SaveEvidence(r)
    <2> PICK step : step = IF Msg(r) \in HandoffMessage THEN "handoff" ELSE "mark"
        OBVIOUS
    <2>1. /\ Goto(r, step) /\ req[r].at \in StoreSteps
          /\ UNCHANGED << mode, processed, journal >>
        BY <1>10 DEF SaveEvidence, At, StoreSteps
    <2>2. step \in InFlight /\ step \in {"handoff", "mark"}
        BY DEF InFlight, StoreSteps
    <2> QED
        BY <1>1, <2>1, <2>2
<1>11. CASE MarkProcessed(r)
    <2>1. /\ Goto(r, "processed") /\ req[r].at = "mark"
          /\ UNCHANGED << mode, journal >> /\ processed' = processed \cup {Msg(r)}
        BY <1>11 DEF MarkProcessed, At
    <2>2. "processed" \in InFlight /\ req[r].at \in StoreSteps
        BY <2>1 DEF InFlight, JournalSteps, StoreSteps
    <2> QED
        BY <1>1, <2>1, <2>2
<1> QED
    BY <1>2, <1>3, <1>4, <1>5, <1>6, <1>7, <1>8, <1>9, <1>10, <1>11 DEF Handle

(* A payload that arrives has nothing to tell yet.                         *)
LEMMA DeliverKeepsStory ==
    ASSUME WebhookInv, WebhookInv', StoryInv, NEW r \in Request,
           NEW batch \in Batch, Deliver(r, batch)
    PROVE  StoryInv'
<1>1. /\ Moves(r) /\ req'[r].at = "received" /\ req'[r].batch = batch
      /\ req'[r].i = 1 /\ req'[r].insert = << >> /\ req'[r].status = 0
      /\ At(r, "waiting")
    BY DeliverMoves DEF WebhookInv, Deliver
<1>2. UNCHANGED << mode, processed, journal >>
    BY DEF Deliver, store
<1>3. Pending(r)' /\ Told(r)'
    BY <1>1 DEF Pending, Told
<1>4. \A k \in DOMAIN req'[r].batch : ~ Finished(r, k)'
    <2>1. \A k \in DOMAIN batch : ~ (k < 1)
        BY WebhookAssumption
    <2> QED
        BY <1>1, <2>1 DEF Finished, At
<1> QED
    BY <1>1, <1>2, <1>3, <1>4, NothingToTell, StoryStays

(* A crash ends the handlers in flight; a finished one stays as it was.    *)
LEMMA CrashMoves ==
    ASSUME Handlers, Crash, NEW r \in Request
    PROVE  /\ req'[r].at \notin InFlight /\ req'[r].batch = req[r].batch
           /\ req'[r].insert = << >>
           /\ req'[r].status = 200 => req[r].status = 200
           /\ req'[r].at = "respond" => req[r].at = "respond"
<1>1. "done" \notin InFlight
    BY DEF InFlight, StoreSteps, JournalSteps
<1>2. Handler(r)
    BY DEF Handlers
<1>3. CASE r \in Active
    <2>1. req'[r] = [req[r] EXCEPT !.at = "done", !.insert = << >>,
                                   !.session = {}, !.status = 0]
        BY <1>3 DEF Crash
    <2>2. /\ req'[r].at = "done" /\ req'[r].batch = req[r].batch
          /\ req'[r].insert = << >> /\ req'[r].status = 0
        BY <1>2, <2>1 DEF Handler, HandlerField
    <2> QED
        BY <1>1, <2>2
<1>4. CASE r \notin Active
    <2>1. req'[r] = req[r] /\ req[r].at \notin InFlight
        BY <1>4 DEF Crash, Active
    <2>2. req[r].insert = << >>
        BY <1>2, <2>1 DEF Handler, InFlight
    <2> QED
        BY <2>1, <2>2
<1> QED
    BY <1>3, <1>4

(* A crash cuts handlers off; a journal that was in memory starts anew,    *)
(* and only 200s of a store that was in memory lose what they stood for.   *)
LEMMA CrashKeepsStory ==
    ASSUME WebhookInv, StoryInv, Crash
    PROVE  StoryInv'
<1>1. /\ mode' = mode
      /\ mode.store # "memory" => processed' = processed
      /\ mode.store = "postgres" => journal' = journal
      /\ mode.store # "postgres" => journal' = [c \in Customer |-> << >>]
    BY DEF Crash, store
<1>2. \A r \in Request : /\ req'[r].at \notin InFlight
                         /\ req'[r].batch = req[r].batch /\ req'[r].insert = << >>
                         /\ req'[r].status = 200 => req[r].status = 200
                         /\ req'[r].at = "respond" => req[r].at = "respond"
    BY CrashMoves DEF WebhookInv
<1>3. (\A r \in Request : Pending(r)') /\ Active' = {}
    BY <1>2 DEF Pending, Active
<1>4. ChainsLinked' /\ JournalTellsTheStory'
    <2>1. CASE mode.store = "postgres"
        BY <1>1, <2>1 DEF StoryInv, ChainsLinked, JournalTellsTheStory, WrittenAs
    <2>2. CASE mode.store # "postgres"
        <3>1. \A c \in Customer : journal'[c] = << >> /\ DOMAIN journal'[c] = {}
            BY <1>1, <2>2
        <3>2. LatestSequence(<< >>) = 0
            BY DEF LatestSequence
        <3>3. Gapless(<< >>) /\ Linked(<< >>)
            BY <3>2 DEF Gapless, Linked
        <3> QED
            BY <3>1, <3>3 DEF ChainsLinked, JournalTellsTheStory
    <2> QED
        BY <2>1, <2>2
<1>5. FinishedIsStored'
    <2> SUFFICES ASSUME NEW r \in Request, NEW k \in DOMAIN req'[r].batch,
                        Finished(r, k)'
                 PROVE  OutcomeStored(req[r].batch[k])'
        BY DEF FinishedIsStored
    <2>1. PICK m : m = req[r].batch[k]
        OBVIOUS
    <2>2. OutcomeStored(m)
        <3>1. Finished(r, k)
            BY <1>2 DEF Finished, At
        <3> QED
            BY <1>2, <2>1, <3>1 DEF StoryInv, FinishedIsStored
    <2>3. OutcomeStored(m)'
        BY <1>1, <2>2 DEF OutcomeStored, Written
    <2> QED
        BY <1>2, <2>1, <2>3
<1> QED
    BY <1>3, <1>4, <1>5 DEF StoryInv

(* Every step of the server keeps the story.                               *)
LEMMA NextKeepsStory == WebhookInv /\ WebhookInv' /\ StoryInv /\ [Next]_vars => StoryInv'
<1> SUFFICES ASSUME WebhookInv, WebhookInv', StoryInv, [Next]_vars PROVE StoryInv'
    OBVIOUS
<1>1. CASE UNCHANGED vars
    <2>1. UNCHANGED << req, mode, processed, journal >>
        BY <1>1 DEF vars, store
    <2>2. ChainsLinked' /\ JournalTellsTheStory'
        BY <2>1 DEF StoryInv, ChainsLinked, JournalTellsTheStory, WrittenAs
    <2>3. \A r \in Request : Msg(r)' = Msg(r) /\ Cust(r)' = Cust(r)
        BY <2>1 DEF Cust, Msg
    <2>4. \A r \in Request : Pending(r)'
        BY <2>1, <2>3 DEF StoryInv, Pending
    <2>5. \A r \in Active' : Told(r)'
        BY <2>1, <2>3 DEF StoryInv, Told, Active, WrittenAs
    <2>6. FinishedIsStored'
        <3> SUFFICES ASSUME NEW r \in Request, NEW k \in DOMAIN req[r].batch,
                            Finished(r, k)'
                     PROVE  OutcomeStored(req[r].batch[k])'
            BY <2>1 DEF FinishedIsStored
        <3>1. Finished(r, k)
            BY <2>1 DEF Finished, At
        <3>2. OutcomeStored(req[r].batch[k])
            BY <3>1 DEF StoryInv, FinishedIsStored
        <3> QED
            BY <2>1, <3>2 DEF OutcomeStored, Written
    <2> QED
        BY <2>2, <2>4, <2>5, <2>6 DEF StoryInv
<1>2. CASE \E r \in Request, batch \in Batch : Deliver(r, batch)
    BY <1>2, DeliverKeepsStory
<1>3. CASE \E r \in Request : Handle(r) \/ QueryFails(r)
    BY <1>3, HandleKeepsStory
<1>4. CASE Crash
    BY <1>4, CrashKeepsStory
<1> QED
    BY <1>1, <1>2, <1>3, <1>4 DEF Next

(* The story holds in every reachable state: chains linked, what is        *)
(* pending fits, and what handlers have behind them is in the journal.     *)
THEOREM StoryInvariant == Spec => []StoryInv
<1>1. Init => StoryInv
    <2> SUFFICES ASSUME Init PROVE StoryInv
        OBVIOUS
    <2>1. "waiting" \notin InFlight
        BY DEF InFlight, StoreSteps, JournalSteps
    <2>2. Active = {} /\ \A r \in Request : Pending(r)
        BY <2>1 DEF Init, Active, Unused, Pending
    <2>3. \A c \in Customer : journal[c] = << >> /\ DOMAIN journal[c] = {}
        BY DEF Init
    <2>4. LatestSequence(<< >>) = 0
        BY DEF LatestSequence
    <2>5. Gapless(<< >>) /\ Linked(<< >>)
        BY <2>4 DEF Gapless, Linked
    <2>6. ChainsLinked /\ JournalTellsTheStory
        BY <2>3, <2>5 DEF ChainsLinked, JournalTellsTheStory
    <2>7. FinishedIsStored
        BY <2>1 DEF Init, Unused, FinishedIsStored, Finished, At
    <2> QED
        BY <2>2, <2>6, <2>7 DEF StoryInv
<1> QED
    BY <1>1, WebhookInvariant, NextKeepsStory, PTL DEF Spec

(* In a customer's chain the outcome of a message comes after its arrival  *)
(* and its handoff, and only once the store had it marked - in every       *)
(* runtime, whatever else was appended in between.                         *)
THEOREM JournalAlwaysTellsTheStory == Spec => []JournalTellsTheStory
<1>1. StoryInv => JournalTellsTheStory
    BY DEF StoryInv
<1> QED
    BY <1>1, StoryInvariant, PTL

(* 200 stops the provider from repeating a payload: by then every message  *)
(* of it is marked and has its outcome in the durable journal, and no      *)
(* crash takes that back.                                                  *)
THEOREM AnsweredAlwaysProcessed == Spec => []AnsweredMeansProcessed
<1>1. StoryInv => AnsweredMeansProcessed
    BY DEF StoryInv, AnsweredMeansProcessed, MessagesOf, FinishedIsStored, Finished,
       OutcomeStored
<1> QED
    BY <1>1, StoryInvariant, PTL

-----------------------------------------------------------------------------
(* Replays.                                                                *)

(* A replay up to event n of a linked chain succeeds, and sees the first n *)
(* rows and nothing else.                                                  *)
LEMMA ReplayOfLinked ==
    ASSUME NEW rows, Gapless(rows), Linked(rows), NEW n \in DOMAIN rows, NEW s
    PROVE  ReplayUntilSequence(s, rows, n) =
             Replayed(s, [i \in 1..n |-> rows[i]], n, << >>)
<1> DEFINE l == LatestSequence(rows)
           chain == LoadSessionEvents(rows)
           Kept == {k \in DOMAIN chain : chain[k].sequence <= n}
           kept == [k \in Kept |-> chain[k]]
<1>1. l \in Nat /\ DOMAIN rows = 1..l /\ n \in Nat /\ n \in 1..l
    BY DEF Gapless
<1>2. DOMAIN chain = 1..l /\ \A i \in 1..l : chain[i] = rows[i]
    BY <1>1, LoadOfGapless
<1>3. \A i \in 1..l : chain[i].sequence = i
    BY <1>1, <1>2 DEF Linked
<1>4. VerifyJournalEventChain(chain)
    BY LinkedVerifies
<1>5. n # 0 /\ n \in {chain[k].sequence : k \in DOMAIN chain}
    BY <1>1, <1>2, <1>3
<1>6. Through(chain, n) = InOrder(kept)
    BY DEF Through
<1> HIDE DEF l, chain
<1>7. Kept = 1..n
    BY <1>1, <1>2, <1>3
<1>8. InOrder(kept) = [i \in 1..n |-> kept[i]]
    <2>1. DOMAIN kept = 1..n
        BY <1>7
    <2> HIDE DEF kept
    <2> QED
        BY <1>1, <2>1, InOrderOfGapless
<1>9. \A i \in 1..n : kept[i] = rows[i]
    BY <1>1, <1>2, <1>7
<1>10. Through(chain, n) = [i \in 1..n |-> rows[i]]
    BY <1>6, <1>8, <1>9
<1>11. ReplayInternal(s, chain, n, << >>) = Replayed(s, Through(chain, n), n, << >>)
    BY <1>4, <1>5 DEF ReplayInternal
<1> QED
    BY <1>10, <1>11 DEF ReplayUntilSequence, chain

(* The journal grows with every step, or a crash empties it.               *)
LEMMA NextGrows ==
    ASSUME WebhookInv, StoryInv, [Next]_vars
    PROVE  JournalGrows \/ \A c \in Customer : DOMAIN journal'[c] = {}
<1>1. CASE UNCHANGED journal
    BY <1>1, NothingToTell
<1>2. CASE Crash
    <2>1. UNCHANGED journal \/ journal' = [c \in Customer |-> << >>]
        BY <1>2 DEF Crash
    <2>2. DOMAIN << >> = {}
        OBVIOUS
    <2> QED
        BY <1>1, <2>1, <2>2
<1>3. ASSUME NEW r \in Request, NEW event, HasFields(event), Cust(r) \in Customer,
             journal' = [journal EXCEPT ![Cust(r)] = WithRow(@, event)],
             event.sequence = LatestSequence(journal[Cust(r)]) + 1,
             PendingFollowsSelect(journal[Cust(r)], event)
      PROVE  JournalGrows
    <2>1. DOMAIN journal = Customer
        BY DEF WebhookInv, TypeOK, StoreTypeOK
    <2> QED
        BY <1>3, <2>1 DEF JournalGrows
<1>4. ASSUME NEW r \in Request, JournalPush(r) PROVE JournalGrows
    <2>1. Cust(r) \in Customer
        BY <1>4, MessageInWork DEF JournalPush, InFlight
    <2>2. journal' = [journal EXCEPT ![Cust(r)] = WithRow(@, EventOf(r))]
        BY <1>4 DEF JournalPush
    <2> QED
        BY <1>3, <2>1, <2>2, EventFollows
<1>5. ASSUME NEW r \in Request, JournalInsert(r) PROVE JournalGrows
    <2>1. /\ req[r].insert # << >> /\ req[r].at \in InFlight
        BY <1>5 DEF JournalInsert, WebhookInv, Handlers, Handler, InFlight
    <2>2. Cust(r) \in Customer
        BY <2>1, MessageInWork
    <2>3. /\ HasFields(req[r].insert[1])
          /\ req[r].insert[1].sequence \in Nat \ {0}
          /\ PendingFollowsSelect(journal[Cust(r)], req[r].insert[1])
        BY <2>1 DEF StoryInv, Pending
    <2>4. /\ req[r].insert[1].sequence \notin DOMAIN journal[Cust(r)]
          /\ journal' = [journal EXCEPT ![Cust(r)] = WithRow(@, req[r].insert[1])]
        BY <1>5 DEF JournalInsert, JournalAllows
    <2>5. req[r].insert[1].sequence = LatestSequence(journal[Cust(r)]) + 1
        BY <2>2, <2>3, <2>4, FreeIsNext DEF StoryInv, ChainsLinked
    <2> QED
        BY <1>3, <2>2, <2>3, <2>4, <2>5
<1>6. CASE \E r \in Request : Handle(r) \/ QueryFails(r)
    <2> PICK r \in Request : Handle(r) \/ QueryFails(r)
        BY <1>6
    <2>1. \/ UNCHANGED journal \/ JournalPush(r) \/ JournalInsert(r)
        BY DEF Handle, QueryFails, JournalSelect, JournalConflict, CheckDuplicate,
           LoadDuplicateSession, LoadSession, SendAnswer, SaveInboundEvent,
           SaveOutboundEvent, SaveHandoffEvent, SaveEvent, SaveSession,
           SaveEvidence, SaveHandoff, MarkProcessed, Respond
    <2> QED
        BY <1>1, <1>4, <1>5, <2>1
<1> QED
    BY <1>1, <1>2, <1>6 DEF Next, Deliver, vars

(* A replay up to a sequence number that was found gives the same result,  *)
(* hash included, whatever the webhook appends afterwards.                 *)
THEOREM ReplayStaysStable == Spec => ReplayIsStable
<1>1. ASSUME WebhookInv, StoryInv, [Next]_vars,
             NEW c \in Customer, NEW n \in DOMAIN journal[c] \cap DOMAIN journal'[c]
      PROVE  ReplayUntilSequence(c, journal'[c], n) = ReplayUntilSequence(c, journal[c], n)
    <2>1. Gapless(journal[c]) /\ Linked(journal[c])
        BY <1>1 DEF StoryInv, ChainsLinked
    <2>2. JournalGrows
        BY <1>1, NextGrows
    <2>3. /\ Gapless(journal'[c]) /\ Linked(journal'[c])
          /\ \A k \in DOMAIN journal[c] : journal'[c][k] = journal[c][k]
        BY <1>1, <2>2, RowsStay DEF StoryInv
    <2>4. \A i \in 1..n : journal'[c][i] = journal[c][i]
        <3>1. n \in 1..LatestSequence(journal[c]) /\ LatestSequence(journal[c]) \in Nat
            BY <2>1 DEF Gapless
        <3>2. \A i \in 1..n : i \in DOMAIN journal[c]
            BY <2>1, <3>1 DEF Gapless
        <3> QED
            BY <2>3, <3>2
    <2>5. [i \in 1..n |-> journal'[c][i]] = [i \in 1..n |-> journal[c][i]]
        BY <2>4
    <2>6. ReplayUntilSequence(c, journal[c], n) =
            Replayed(c, [i \in 1..n |-> journal[c][i]], n, << >>)
        BY <2>1, ReplayOfLinked
    <2>7. ReplayUntilSequence(c, journal'[c], n) =
            Replayed(c, [i \in 1..n |-> journal'[c][i]], n, << >>)
        BY <2>3, ReplayOfLinked
    <2> QED
        BY <2>5, <2>6, <2>7
<1>2. WebhookInv /\ StoryInv /\ [Next]_vars =>
        [\A c \in Customer : \A n \in DOMAIN journal[c] \cap DOMAIN journal'[c] :
           ReplayUntilSequence(c, journal'[c], n) = ReplayUntilSequence(c, journal[c], n)]_vars
    BY <1>1
<1> QED
    BY <1>2, WebhookInvariant, StoryInvariant, PTL DEF Spec, ReplayIsStable

(* The events of a replay: numbered from one, each with its fields.        *)
Numbered(chain) ==
    \A k \in DOMAIN chain : chain[k].sequence = k /\ HasFields(chain[k])

(* Of two overrides for one event the engine accepts none: what it applies *)
(* to an event is one override or none.                                    *)
LEMMA OneOverrideEach ==
    ASSUME NEW overrides, IndexOverrides(overrides), NEW event,
           NEW i \in OverridesFor(event, overrides),
           NEW j \in OverridesFor(event, overrides)
    PROVE  i = j
<1>1. PICK key : /\ i \in DOMAIN overrides /\ overrides[i].targets = {key}
                 /\ j \in DOMAIN overrides /\ overrides[j].targets = {key}
    BY DEF OverridesFor
<1> QED
    BY <1>1 DEF IndexOverrides

(* The content an event is replayed with.                                  *)
LEMMA OverriddenBody ==
    ASSUME NEW chain, NEW overrides, IndexOverrides(overrides),
           NEW k \in DOMAIN chain, NEW i \in OverridesFor(chain[k], overrides)
    PROVE  WithOverrides(chain, overrides)[k] =
             [chain[k] EXCEPT !.body = overrides[i].body]
<1>1. (CHOOSE j \in OverridesFor(chain[k], overrides) : TRUE) = i
    BY OneOverrideEach
<1> QED
    BY <1>1 DEF WithOverrides

(* What is applied, element by element.                                    *)
LEMMA AppliedEach ==
    ASSUME NEW chain, NEW overrides
    PROVE  \A entry : entry \in Applied(chain, overrides) <=>
             \E k \in DOMAIN chain : \E i \in OverridesFor(chain[k], overrides) :
                entry = << chain[k], overrides[i].body >>
BY DEF Applied

(* Lists that replay the same contents for the same events apply the same  *)
(* contents to them ...                                                    *)
LEMMA SameReplaySameApplied ==
    ASSUME NEW chain, Numbered(chain),
           NEW a, IndexOverrides(a), NEW b, IndexOverrides(b),
           WithOverrides(chain, a) = WithOverrides(chain, b),
           {entry[1].sequence : entry \in Applied(chain, a)}
             \subseteq {entry[1].sequence : entry \in Applied(chain, b)}
    PROVE  Applied(chain, a) \subseteq Applied(chain, b)
<1> SUFFICES ASSUME NEW entry \in Applied(chain, a)
             PROVE  entry \in Applied(chain, b)
    OBVIOUS
<1>1. PICK k \in DOMAIN chain : \E i \in OverridesFor(chain[k], a) :
        entry = << chain[k], a[i].body >>
    BY AppliedEach
<1> PICK i \in OverridesFor(chain[k], a) : entry = << chain[k], a[i].body >>
    BY <1>1
<1>2. entry[1].sequence = k
    BY <1>1 DEF Numbered
<1>3. PICK other \in Applied(chain, b) : other[1].sequence = k
    BY <1>2
<1>4. PICK n \in DOMAIN chain : \E j \in OverridesFor(chain[n], b) :
        other = << chain[n], b[j].body >>
    BY AppliedEach
<1> PICK j \in OverridesFor(chain[n], b) : other = << chain[n], b[j].body >>
    BY <1>4
<1>5. n = k
    BY <1>3, <1>4 DEF Numbered
<1>6. a[i].body = b[j].body
    <2>1. WithOverrides(chain, a)[k] = [chain[k] EXCEPT !.body = a[i].body]
        BY OverriddenBody
    <2>2. WithOverrides(chain, b)[n] = [chain[n] EXCEPT !.body = b[j].body]
        BY OverriddenBody
    <2>3. "body" \in DOMAIN chain[k]
        BY DEF Numbered, HasFields
    <2>4. [chain[k] EXCEPT !.body = a[i].body] = [chain[k] EXCEPT !.body = b[j].body]
        BY <1>5, <2>1, <2>2
    <2> QED
        BY <2>3, <2>4
<1> QED
    BY <1>1, <1>4, <1>5, <1>6, AppliedEach

(* ... and the other way round.                                            *)
LEMMA SameAppliedSameReplay ==
    ASSUME NEW chain, Numbered(chain),
           NEW a, IndexOverrides(a), NEW b, IndexOverrides(b),
           Applied(chain, a) = Applied(chain, b)
    PROVE  WithOverrides(chain, a) = WithOverrides(chain, b)
<1>1. ASSUME NEW o, NEW p, IndexOverrides(o), IndexOverrides(p),
             Applied(chain, o) = Applied(chain, p),
             NEW k \in DOMAIN chain, NEW i \in OverridesFor(chain[k], o)
      PROVE  \E j \in OverridesFor(chain[k], p) : p[j].body = o[i].body
    <2>1. << chain[k], o[i].body >> \in Applied(chain, p)
        BY <1>1, AppliedEach
    <2>2. PICK n \in DOMAIN chain : \E j \in OverridesFor(chain[n], p) :
            << chain[k], o[i].body >> = << chain[n], p[j].body >>
        BY <2>1, AppliedEach
    <2>3. n = k
        BY <2>2 DEF Numbered
    <2> QED
        BY <2>2, <2>3
<1>2. ASSUME NEW k \in DOMAIN chain
      PROVE  WithOverrides(chain, a)[k] = WithOverrides(chain, b)[k]
    <2>1. CASE OverridesFor(chain[k], a) = {}
        <3>1. OverridesFor(chain[k], b) = {}
            BY <1>1, <2>1
        <3> QED
            BY <2>1, <3>1 DEF WithOverrides
    <2>2. CASE OverridesFor(chain[k], a) # {}
        <3>1. PICK i \in OverridesFor(chain[k], a) : TRUE
            BY <2>2
        <3>2. PICK j \in OverridesFor(chain[k], b) : b[j].body = a[i].body
            BY <1>1, <3>1
        <3>3. WithOverrides(chain, a)[k] = [chain[k] EXCEPT !.body = a[i].body]
            BY OverriddenBody
        <3>4. WithOverrides(chain, b)[k] = [chain[k] EXCEPT !.body = b[j].body]
            BY OverriddenBody
        <3> QED
            BY <3>2, <3>3, <3>4
    <2> QED
        BY <2>1, <2>2
<1>3. /\ WithOverrides(chain, a) = [k \in DOMAIN chain |-> WithOverrides(chain, a)[k]]
      /\ WithOverrides(chain, b) = [k \in DOMAIN chain |-> WithOverrides(chain, b)[k]]
    BY DEF WithOverrides
<1> QED
    BY <1>2, <1>3

(* The replay hash tells what was tried: on any journal the webhook wrote, *)
(* two lists of overrides the engine accepts have the same hash exactly    *)
(* when they replace the same events by the same contents.                 *)
THEOREM ReplayHashAlwaysTells == Spec => ReplayHashTellsOverrides
<1> DEFINE Tried(c) == {<< ReplayWithOverride(c, journal[c], o),
                           Applied(LoadSessionEvents(journal[c]), o) >> :
                          o \in OverrideLists(journal[c])}
           Tells == \A c \in Customer : \A x, y \in {t \in Tried(c) : t[1].ok} :
                       x[1].replayHash = y[1].replayHash <=> x[2] = y[2]
<1>1. StoryInv => Tells
    <2> SUFFICES ASSUME StoryInv, NEW c \in Customer,
                        NEW x \in Tried(c), NEW y \in Tried(c), x[1].ok, y[1].ok
                 PROVE  x[1].replayHash = y[1].replayHash <=> x[2] = y[2]
        OBVIOUS
    <2> DEFINE rows == journal[c]
               chain == LoadSessionEvents(rows)
               last == LastSequence(chain)
               Hash(o) == ComputeReplayHash(c, last, WithOverrides(chain, o),
                                            Applied(chain, o))
    <2>1. Numbered(chain)
        <3>1. PICK l \in Nat : DOMAIN rows = 1..l
            BY DEF StoryInv, ChainsLinked, Gapless
        <3>2. DOMAIN chain = 1..l /\ \A i \in 1..l : chain[i] = rows[i]
            BY <3>1, LoadOfGapless
        <3>3. Linked(rows) /\ \A n \in DOMAIN rows : HasFields(rows[n])
            BY DEF StoryInv, ChainsLinked
        <3> HIDE DEF rows, chain
        <3> QED
            BY <3>1, <3>2, <3>3 DEF Numbered, Linked
    <2>2. PICK a : x = << ReplayWithOverride(c, rows, a), Applied(chain, a) >>
        OBVIOUS
    <2>3. PICK b : y = << ReplayWithOverride(c, rows, b), Applied(chain, b) >>
        OBVIOUS
    <2>4. ASSUME NEW o, ReplayWithOverride(c, rows, o).ok
          PROVE  /\ IndexOverrides(o)
                 /\ ReplayWithOverride(c, rows, o).replayHash = Hash(o)
        <3>1. ~ Failure("JOURNAL_INTEGRITY_CHECK_FAILED").ok
            BY DEF Failure
        <3>2. ~ Failure("INVALID_REPLAY_OVERRIDE").ok
            BY DEF Failure
        <3>3. /\ VerifyJournalEventChain(chain)
              /\ ReplayWithOverride(c, rows, o) = Replayed(c, chain, last, o)
            BY <2>4, <3>1 DEF ReplayWithOverride, ReplayInternal
        <3>4. IndexOverrides(o) /\ AllMatched(chain, o)
            BY <2>4, <3>2, <3>3 DEF Replayed
        <3> QED
            BY <3>3, <3>4 DEF Replayed
    <2> HIDE DEF rows, chain, last
    <2>5. /\ IndexOverrides(a) /\ x[1].replayHash = Hash(a) /\ x[2] = Applied(chain, a)
          /\ IndexOverrides(b) /\ y[1].replayHash = Hash(b) /\ y[2] = Applied(chain, b)
        BY <2>2, <2>3, <2>4
    <2>6. Hash(a) = Hash(b) <=>
            /\ WithOverrides(chain, a) = WithOverrides(chain, b)
            /\ {entry[1].sequence : entry \in Applied(chain, a)}
                 = {entry[1].sequence : entry \in Applied(chain, b)}
        BY DEF ComputeReplayHash
    <2>7. ASSUME Hash(a) = Hash(b) PROVE Applied(chain, a) = Applied(chain, b)
        <3>1. WithOverrides(chain, a) = WithOverrides(chain, b)
            BY <2>6, <2>7
        <3>2. /\ {entry[1].sequence : entry \in Applied(chain, a)}
                   \subseteq {entry[1].sequence : entry \in Applied(chain, b)}
              /\ {entry[1].sequence : entry \in Applied(chain, b)}
                   \subseteq {entry[1].sequence : entry \in Applied(chain, a)}
            BY <2>6, <2>7
        <3>3. Applied(chain, a) \subseteq Applied(chain, b)
            BY <2>1, <2>5, <3>1, <3>2, SameReplaySameApplied
        <3>4. Applied(chain, b) \subseteq Applied(chain, a)
            BY <2>1, <2>5, <3>1, <3>2, SameReplaySameApplied
        <3> QED
            BY <3>3, <3>4
    <2>8. Applied(chain, a) = Applied(chain, b) => Hash(a) = Hash(b)
        BY <2>1, <2>5, <2>6, SameAppliedSameReplay
    <2> QED
        BY <2>5, <2>7, <2>8
<1>2. StoryInv' =>
        [\A c \in Customer : journal'[c] \notin {journal[c], << >>} =>
            LET stored == LoadSessionEvents(journal'[c])
                T == {<< ReplayWithOverride(c, journal'[c], o), Applied(stored, o) >> :
                        o \in OverrideLists(journal'[c])}
            IN  \A x, y \in {t \in T : t[1].ok} :
                   x[1].replayHash = y[1].replayHash <=> x[2] = y[2]]_vars
    <2>1. StoryInv' => Tells'
        BY <1>1, PTL
    <2> QED
        BY <2>1
<1> QED
    BY <1>2, StoryInvariant, PTL DEF ReplayHashTellsOverrides
=============================================================================
