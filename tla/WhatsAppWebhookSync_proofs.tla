--------------------- MODULE WhatsAppWebhookSync_proofs ---------------------
(***************************************************************************)
(* For any payloads, requests, customers and faults: what is marked        *)
(* processed is fully recorded, a turn goes missing only where callbacks   *)
(* overlapped, a message is answered again and a handoff reopened only     *)
(* when the message was worked on again, and the transcript is in turns.   *)
(***************************************************************************)
EXTENDS WhatsAppWebhookSync, SequenceTheorems, TLAPS

(* A step of callback w takes it to step, and moves no other callback.     *)
Moves(w, step) ==
    /\ Tasks' = Tasks
    /\ TaskAt(w)' = step
    /\ \A v \in Tasks : MsgOf(v)' = MsgOf(v)
    /\ \A v \in Tasks \ {w} : TaskAt(v)' = TaskAt(v) /\ SessionOf(v)' = SessionOf(v)

RequestsOK == DOMAIN del = Delivery /\ \A d \in Delivery : RequestOK(d)

-----------------------------------------------------------------------------
(* Callbacks.                                                              *)

(* A callback is a position in the messages of an open request.            *)
LEMMA TasksAre ==
    ASSUME NEW w
    PROVE  w \in Tasks <=> \E d \in Delivery : \E k \in DOMAIN del[d].task :
                              del[d].at = "open" /\ w = << d, k >>
BY DEF Tasks, Open

(* A callback has a step, a message, its customer and a session.           *)
LEMMA TaskTypes ==
    ASSUME RequestsOK, NEW w \in Tasks
    PROVE  /\ TaskAt(w) \in TaskStep
           /\ MsgOf(w) \in Message /\ CustOf(w) \in Customer
           /\ SessionOf(w) \subseteq Message
<1>1. PICK d \in Delivery : \E k \in DOMAIN del[d].task :
               del[d].at = "open" /\ w = << d, k >>
    BY TasksAre
<1>2. PICK k \in DOMAIN del[d].task : w = << d, k >>
    BY <1>1
<1>3. RequestOK(d) /\ w[1] = d /\ w[2] = k
    BY <1>2 DEF RequestsOK
<1>4. del[d].messages[k] \in Message
    BY <1>3 DEF RequestOK
<1> QED
    BY <1>3, <1>4, WebhookAssumption DEF RequestOK, TaskAt, MsgOf, CustOf, SessionOf

(* Goto moves the callback alone, and keeps its session.                   *)
LEMMA GotoMoves ==
    ASSUME RequestsOK, NEW w \in Tasks, NEW step \in TaskStep, Goto(w, step)
    PROVE  RequestsOK' /\ Moves(w, step) /\ SessionOf(w)' = SessionOf(w)
<1>1. PICK d \in Delivery : \E k \in DOMAIN del[d].task :
               del[d].at = "open" /\ w = << d, k >>
    BY TasksAre
<1>2. PICK k \in DOMAIN del[d].task : w = << d, k >>
    BY <1>1
<1>3. del' = [del EXCEPT ![d].task[k].at = step]
    BY <1>2 DEF Goto
<1>4. DOMAIN del' = Delivery /\ \A e \in Delivery \ {d} : del'[e] = del[e]
    BY <1>3 DEF RequestsOK
<1>5. /\ DOMAIN del'[d] = DOMAIN del[d]
      /\ del'[d].at = del[d].at /\ del'[d].messages = del[d].messages
      /\ del'[d].status = del[d].status
      /\ del'[d].task = [del[d].task EXCEPT ![k].at = step]
    <2>1. d \in DOMAIN del /\ "task" \in DOMAIN del[d]
        BY DEF RequestsOK, RequestOK
    <2>2. del'[d] = [del[d] EXCEPT !.task[k].at = step]
        BY <1>3, <2>1
    <2> QED
        BY <2>1, <2>2
<1>6. /\ DOMAIN del'[d].task = DOMAIN del[d].task
      /\ DOMAIN del'[d].task[k] = DOMAIN del[d].task[k]
      /\ del'[d].task[k].at = step /\ del'[d].task[k].session = del[d].task[k].session
      /\ \A j \in DOMAIN del[d].task \ {k} : del'[d].task[j] = del[d].task[j]
    BY <1>5 DEF RequestsOK, RequestOK
<1>7. RequestsOK'
    <2>1. RequestOK(d)'
        <3>1. RequestOK(d)
            BY DEF RequestsOK
        <3>2. ASSUME NEW j \in DOMAIN del[d].task
              PROVE  /\ DOMAIN del'[d].task[j] = {"at", "session"}
                     /\ del'[d].task[j].at \in TaskStep
                     /\ del'[d].task[j].session \subseteq Message
            <4>1. /\ DOMAIN del[d].task[j] = {"at", "session"}
                  /\ del[d].task[j].at \in TaskStep
                  /\ del[d].task[j].session \subseteq Message
                BY <3>1 DEF RequestOK
            <4>2. CASE j = k
                BY <1>6, <4>1, <4>2
            <4>3. CASE j # k
                BY <1>6, <4>1, <4>3
            <4> QED
                BY <4>2, <4>3
        <3>3. DOMAIN del'[d].task = DOMAIN del[d].task
            BY <1>6
        <3>4. /\ DOMAIN del'[d] = {"at", "messages", "task", "status"}
              /\ del'[d].at \in {"waiting", "open", "done"}
              /\ del'[d].messages \in Seq(Message)
              /\ DOMAIN del'[d].task = DOMAIN del'[d].messages
              /\ del'[d].status \in {0, 200, 400, 403, 405, 500}
            BY <1>5, <3>1, <3>3 DEF RequestOK
        <3> QED
            BY <3>2, <3>3, <3>4 DEF RequestOK
    <2>2. ASSUME NEW e \in Delivery \ {d} PROVE RequestOK(e)'
        BY <1>4 DEF RequestsOK, RequestOK
    <2> QED
        BY <1>4, <2>1, <2>2 DEF RequestsOK
<1>8. Tasks' = Tasks
    BY <1>4, <1>5, <1>6 DEF Tasks, Open
<1>9. ASSUME NEW v \in Tasks
      PROVE  /\ MsgOf(v)' = MsgOf(v)
             /\ v # w => TaskAt(v)' = TaskAt(v) /\ SessionOf(v)' = SessionOf(v)
    <2>1. PICK e \in Delivery : \E j \in DOMAIN del[e].task : v = << e, j >>
        BY TasksAre
    <2>2. PICK j \in DOMAIN del[e].task : v = << e, j >>
        BY <2>1
    <2> QED
        BY <1>2, <1>4, <1>5, <1>6, <2>2 DEF MsgOf, TaskAt, SessionOf
<1> QED
    BY <1>2, <1>6, <1>7, <1>8, <1>9 DEF Moves, TaskAt, SessionOf

(* Where the agent's answer takes the callback.                            *)
AfterAgentSteps == {"inbound", "sending", "settled"}

(* Loading gives the callback the customer's session with its message.     *)
LEMMA LoadSessionMoves ==
    ASSUME StoreTypeOK, RequestsOK, NEW w \in Tasks, NEW to \in AfterAgentSteps,
           del' = [del EXCEPT ![w[1]].task[w[2]] =
                     [at |-> to, session |-> session[CustOf(w)] \cup {MsgOf(w)}]]
    PROVE  /\ RequestsOK' /\ Moves(w, to)
           /\ SessionOf(w)' = session[CustOf(w)] \cup {MsgOf(w)}
<1> DEFINE taken == session[CustOf(w)] \cup {MsgOf(w)}
<1>1. PICK d \in Delivery : \E k \in DOMAIN del[d].task :
               del[d].at = "open" /\ w = << d, k >>
    BY TasksAre
<1>2. PICK k \in DOMAIN del[d].task : w = << d, k >>
    BY <1>1
<1>t. taken \subseteq Message
    BY TaskTypes DEF StoreTypeOK
<1> HIDE DEF taken
<1>3. del' = [del EXCEPT ![d].task[k] = [at |-> to, session |-> taken]]
    BY <1>2 DEF taken
<1>4. DOMAIN del' = Delivery /\ \A e \in Delivery \ {d} : del'[e] = del[e]
    BY <1>3 DEF RequestsOK
<1>5. /\ DOMAIN del'[d] = DOMAIN del[d]
      /\ del'[d].at = del[d].at /\ del'[d].messages = del[d].messages
      /\ del'[d].status = del[d].status
      /\ del'[d].task = [del[d].task EXCEPT ![k] = [at |-> to, session |-> taken]]
    <2> DEFINE new == [at |-> to, session |-> taken]
    <2>1. d \in DOMAIN del /\ "task" \in DOMAIN del[d]
        BY DEF RequestsOK, RequestOK
    <2>2. del' = [del EXCEPT ![d].task[k] = new]
        BY <1>3
    <2> HIDE DEF new
    <2>3. del'[d] = [del[d] EXCEPT !.task[k] = new]
        BY <2>1, <2>2
    <2>4. /\ DOMAIN del'[d] = DOMAIN del[d]
          /\ del'[d].at = del[d].at /\ del'[d].messages = del[d].messages
          /\ del'[d].status = del[d].status
          /\ del'[d].task = [del[d].task EXCEPT ![k] = new]
        BY <2>1, <2>3
    <2> QED
        BY <2>4 DEF new
<1>6. /\ DOMAIN del'[d].task = DOMAIN del[d].task
      /\ DOMAIN del'[d].task[k] = {"at", "session"}
      /\ del'[d].task[k].at = to /\ del'[d].task[k].session = taken
      /\ \A j \in DOMAIN del[d].task \ {k} : del'[d].task[j] = del[d].task[j]
    <2> DEFINE new == [at |-> to, session |-> taken]
    <2>1. DOMAIN new = {"at", "session"} /\ new.at = to /\ new.session = taken
        OBVIOUS
    <2>2. del'[d].task = [del[d].task EXCEPT ![k] = new]
        BY <1>5
    <2> HIDE DEF new
    <2>3. del'[d].task[k] = new
        BY <1>2, <2>2
    <2> QED
        BY <2>1, <2>2, <2>3
<1>7. to \in TaskStep
    BY DEF AfterAgentSteps, TaskStep, StoreSteps
<1>8. RequestsOK'
    <2>1. RequestOK(d)'
        <3>1. RequestOK(d)
            BY DEF RequestsOK
        <3>2. ASSUME NEW j \in DOMAIN del'[d].task
              PROVE  /\ DOMAIN del'[d].task[j] = {"at", "session"}
                     /\ del'[d].task[j].at \in TaskStep
                     /\ del'[d].task[j].session \subseteq Message
            <4>1. CASE j = k
                BY <1>t, <1>6, <1>7, <4>1
            <4>2. CASE j # k
                <5>1. j \in DOMAIN del[d].task /\ del'[d].task[j] = del[d].task[j]
                    BY <1>6, <4>2
                <5> QED
                    BY ONLY <3>1, <5>1 DEF RequestOK
            <4> QED
                BY <4>1, <4>2
        <3>3. /\ DOMAIN del'[d] = DOMAIN del[d] /\ del'[d].at = del[d].at
              /\ del'[d].messages = del[d].messages /\ del'[d].status = del[d].status
              /\ DOMAIN del'[d].task = DOMAIN del[d].task
            BY <1>5, <1>6
        <3> QED
            BY ONLY <3>1, <3>2, <3>3 DEF RequestOK
    <2>2. ASSUME NEW e \in Delivery \ {d} PROVE RequestOK(e)'
        BY <1>4 DEF RequestsOK, RequestOK
    <2>3. \A e \in Delivery : RequestOK(e)'
        BY ONLY <2>1, <2>2, d \in Delivery
    <2> QED
        BY <1>4, <2>3 DEF RequestsOK
<1>9. Tasks' = Tasks
    <2>1. \A e \in Delivery : del'[e].at = del[e].at /\ DOMAIN del'[e].task = DOMAIN del[e].task
        BY <1>4, <1>5, <1>6
    <2>2. Open' = Open
        BY ONLY <2>1 DEF Open
    <2> QED
        BY ONLY <2>1, <2>2 DEF Tasks, Open
<1>10. ASSUME NEW v \in Tasks
       PROVE  /\ MsgOf(v)' = MsgOf(v)
              /\ v # w => TaskAt(v)' = TaskAt(v) /\ SessionOf(v)' = SessionOf(v)
    <2>1. PICK e \in Delivery : \E j \in DOMAIN del[e].task : v = << e, j >>
        BY TasksAre
    <2>2. PICK j \in DOMAIN del[e].task : v = << e, j >>
        BY <2>1
    <2> QED
        BY <1>2, <1>4, <1>5, <1>6, <2>2 DEF MsgOf, TaskAt, SessionOf
<1>11. TaskAt(w)' = to /\ SessionOf(w)' = taken
    BY <1>2, <1>6 DEF TaskAt, SessionOf
<1> QED
    BY <1>8, <1>9, <1>10, <1>11 DEF Moves, taken

-----------------------------------------------------------------------------
(* The turn of the event loop.                                             *)

LoopOK == loop \in Seq(Tasks) /\ LoopInv

(* No callback is in the middle of its work.                               *)
NoBurst == loop # << >> => TaskAt(Head(loop)) \in {"dedupe", "inbound"}

(* The callback that runs is the first of the turn.                        *)
LEMMA RunningIsTask ==
    ASSUME LoopOK, NEW w, NEW step, Running(w, step)
    PROVE  /\ w \in Tasks /\ w = loop[1] /\ Len(loop) > 0 /\ TaskAt(w) = step
           /\ step \in StoreSteps
BY DEF LoopOK, LoopInv, Running

(* The callback goes on within its burst.                                  *)
LEMMA LoopProceeds ==
    ASSUME LoopOK, NEW w, NEW from, Running(w, from), NEW step \in StoreSteps,
           Moves(w, step), loop' = loop
    PROVE  LoopOK' /\ Head(loop') = w
<1>1. w \in Tasks /\ w = loop[1] /\ Len(loop) > 0
    BY RunningIsTask
<1>2. \A k \in DOMAIN loop : loop[k] \in Tasks /\ (k # 1 => loop[k] # w)
    BY <1>1 DEF LoopOK, LoopInv
<1> QED
    BY <1>1, <1>2 DEF LoopOK, LoopInv, Moves, Running

(* What is left of the turn when its first callback leaves it.             *)
LEMMA RestOfTurn ==
    ASSUME LoopOK, loop # << >>
    PROVE  /\ Tail(loop) \in Seq(Tasks) /\ Len(Tail(loop)) = Len(loop) - 1
           /\ \A k \in DOMAIN Tail(loop) :
                 /\ k + 1 \in DOMAIN loop /\ Tail(loop)[k] = loop[k + 1]
                 /\ Tail(loop)[k] # loop[1]
                 /\ TaskAt(Tail(loop)[k]) \in {"dedupe", "inbound"}
           /\ \A k \in DOMAIN loop : k # 1 =>
                 k - 1 \in DOMAIN Tail(loop) /\ loop[k] = Tail(loop)[k - 1]
<1>1. loop \in Seq(Tasks) /\ Len(loop) > 0
    BY DEF LoopOK
<1>2. /\ Tail(loop) \in Seq(Tasks) /\ Len(Tail(loop)) = Len(loop) - 1
      /\ \A k \in 1 .. Len(Tail(loop)) : Tail(loop)[k] = loop[k + 1]
    BY <1>1, HeadTailProperties
<1>3. DOMAIN loop = 1 .. Len(loop) /\ DOMAIN Tail(loop) = 1 .. Len(Tail(loop))
    BY <1>1, <1>2
<1>4. ASSUME NEW k \in DOMAIN Tail(loop)
      PROVE  /\ k + 1 \in DOMAIN loop /\ Tail(loop)[k] = loop[k + 1]
             /\ Tail(loop)[k] # loop[1]
             /\ TaskAt(Tail(loop)[k]) \in {"dedupe", "inbound"}
    <2>1. k + 1 \in DOMAIN loop /\ Tail(loop)[k] = loop[k + 1] /\ k + 1 # 1 /\ 1 \in DOMAIN loop
        BY <1>1, <1>2, <1>3
    <2> QED
        BY <2>1 DEF LoopOK, LoopInv
<1> QED
    BY <1>1, <1>2, <1>3, <1>4

(* The callback ends, or leaves the turn for its send.                     *)
LEMMA LoopLeaves ==
    ASSUME LoopOK, loop # << >>, NEW w, w = Head(loop), NEW step,
           step \notin StoreSteps, Moves(w, step), loop' = Tail(loop)
    PROVE  LoopOK' /\ NoBurst'
<1>1. w = loop[1] /\ w \in Tasks
    BY DEF LoopOK
<1>2. \A k \in DOMAIN loop' :
         /\ loop'[k] \in Tasks /\ loop'[k] # w /\ TaskAt(loop'[k]) \in {"dedupe", "inbound"}
    BY <1>1, RestOfTurn
<1>3. \A k \in DOMAIN loop' : TaskAt(loop[k])' \in {"dedupe", "inbound"}
    BY <1>2 DEF Moves
<1>4. \A j, k \in DOMAIN loop' : loop'[j] = loop'[k] => j = k
    BY <1>1, RestOfTurn DEF LoopOK, LoopInv
<1>5. ASSUME NEW v \in Tasks, TaskAt(v)' \in StoreSteps
      PROVE  \E k \in DOMAIN loop' : v = loop'[k]
    <2>1. v # w /\ TaskAt(v) \in StoreSteps
        BY <1>5 DEF Moves
    <2>2. PICK k \in DOMAIN loop : v = loop[k]
        BY <2>1 DEF LoopOK, LoopInv
    <2>3. k # 1
        BY <1>1, <2>1, <2>2
    <2> QED
        BY <2>2, <2>3, RestOfTurn
<1>6. loop' \in Seq(Tasks)
    BY RestOfTurn
<1>7. LoopInv'
    <2>1. \A k \in DOMAIN loop' :
             TaskAt(loop[k])' \in IF k = 1 THEN StoreSteps ELSE {"dedupe", "inbound"}
        BY <1>3 DEF StoreSteps
    <2>2. Tasks' = Tasks
        BY DEF Moves
    <2> QED
        BY <1>4, <1>5, <2>1, <2>2 DEF LoopInv, TaskAt
<1>8. NoBurst'
    <2> SUFFICES ASSUME loop' # << >>
                 PROVE  TaskAt(Head(loop))' \in {"dedupe", "inbound"}
        BY DEF NoBurst
    <2>1. 1 \in DOMAIN loop' /\ Head(loop') = loop'[1]
        BY <1>6
    <2> QED
        BY <1>3, <2>1 DEF TaskAt
<1> QED
    BY <1>6, <1>7, <1>8 DEF LoopOK, Moves

(* The mock took the answer: the callback queues up behind the others.     *)
LEMMA LoopTurns ==
    ASSUME LoopOK, loop # << >>, NEW w, w = Head(loop), Moves(w, "inbound"),
           loop' = Append(Tail(loop), w)
    PROVE  LoopOK' /\ NoBurst'
<1> DEFINE rest == Tail(loop)
<1>1. w = loop[1] /\ w \in Tasks
    BY DEF LoopOK
<1>2. /\ rest \in Seq(Tasks) /\ Len(rest) = Len(loop) - 1
      /\ \A k \in DOMAIN rest :
            /\ k + 1 \in DOMAIN loop /\ rest[k] = loop[k + 1]
            /\ rest[k] # w /\ TaskAt(rest[k]) \in {"dedupe", "inbound"}
      /\ \A k \in DOMAIN loop : k # 1 =>
            k - 1 \in DOMAIN rest /\ loop[k] = rest[k - 1]
    BY <1>1, RestOfTurn
<1> HIDE DEF rest
<1>3. loop' = Append(rest, w)
    BY DEF rest
<1>4. /\ loop' \in Seq(Tasks) /\ Len(loop') = Len(rest) + 1
      /\ DOMAIN loop' = 1 .. Len(rest) + 1 /\ DOMAIN rest = 1 .. Len(rest)
      /\ \A k \in DOMAIN rest : loop'[k] = rest[k]
      /\ loop'[Len(rest) + 1] = w
    <2>0. rest \in Seq(Tasks) /\ w \in Tasks
        BY <1>1, <1>2
    <2>1. /\ loop' \in Seq(Tasks) /\ Len(loop') = Len(rest) + 1
          /\ \A k \in 1 .. Len(rest) : loop'[k] = rest[k]
          /\ loop'[Len(rest) + 1] = w
        BY ONLY <1>3, <2>0, AppendProperties
    <2>2. DOMAIN loop' = 1 .. Len(loop') /\ DOMAIN rest = 1 .. Len(rest)
        BY <1>2, <2>1
    <2> QED
        BY <2>1, <2>2
<1>5. Len(rest) \in Nat
    BY <1>2
<1>6. \A k \in DOMAIN loop' : k \in DOMAIN rest \/ k = Len(rest) + 1
    BY <1>4, <1>5
<1>7. \A k \in DOMAIN loop' : TaskAt(loop[k])' \in {"dedupe", "inbound"}
    <2>1. ASSUME NEW k \in DOMAIN loop'
          PROVE  TaskAt(loop[k])' \in {"dedupe", "inbound"}
        <3>1. CASE k \in DOMAIN rest
            <4>1. loop'[k] = rest[k] /\ rest[k] \in Tasks \ {w}
                BY <1>2, <1>4, <3>1
            <4> QED
                BY <1>2, <3>1, <4>1 DEF Moves, TaskAt
        <3>2. CASE k = Len(rest) + 1
            BY <1>4, <3>2 DEF Moves, TaskAt
        <3> QED
            BY <1>6, <3>1, <3>2
    <2> QED
        BY <2>1
<1>8. \A j, k \in DOMAIN loop' : loop'[j] = loop'[k] => j = k
    <2>1. \A j, k \in DOMAIN rest : rest[j] = rest[k] => j = k
        BY <1>2 DEF LoopOK, LoopInv
    <2> QED
        BY <1>2, <1>4, <1>6, <2>1
<1>9. ASSUME NEW v \in Tasks, TaskAt(v)' \in StoreSteps
      PROVE  \E k \in DOMAIN loop' : v = loop'[k]
    <2>1. CASE v = w
        <3>1. Len(rest) + 1 \in DOMAIN loop'
            BY <1>4, <1>5
        <3> QED
            BY <1>4, <2>1, <3>1
    <2>2. CASE v # w
        <3>1. TaskAt(v) \in StoreSteps
            BY <1>9, <2>2 DEF Moves
        <3>2. PICK k \in DOMAIN loop : v = loop[k]
            BY <3>1 DEF LoopOK, LoopInv
        <3>3. k - 1 \in DOMAIN rest /\ v = rest[k - 1]
            BY <1>1, <1>2, <2>2, <3>2
        <3>4. k - 1 \in DOMAIN loop' /\ v = loop'[k - 1]
            BY <1>4, <1>5, <3>3
        <3> QED
            BY <3>4
    <2> QED
        BY <2>1, <2>2
<1>10. LoopInv'
    <2>1. \A k \in DOMAIN loop' :
             TaskAt(loop[k])' \in IF k = 1 THEN StoreSteps ELSE {"dedupe", "inbound"}
        BY <1>7 DEF StoreSteps
    <2>2. Tasks' = Tasks
        BY DEF Moves
    <2> QED
        BY <1>8, <1>9, <2>1, <2>2 DEF LoopInv, TaskAt
<1>11. NoBurst'
    <2> SUFFICES ASSUME loop' # << >>
                 PROVE  TaskAt(Head(loop))' \in {"dedupe", "inbound"}
        BY DEF NoBurst
    <2>1. 1 \in DOMAIN loop' /\ Head(loop') = loop'[1]
        BY <1>4, <1>5
    <2> QED
        BY <1>7, <2>1 DEF TaskAt
<1> QED
    BY <1>4, <1>10, <1>11 DEF LoopOK, Moves

-----------------------------------------------------------------------------
(* What the steps of a callback share.                                     *)

Shape == StoreTypeOK /\ RequestsOK /\ LoopOK

(* The callback goes on with its next statement.                           *)
LEMMA Proceeds ==
    ASSUME Shape, NEW w, NEW from, Running(w, from), NEW step \in StoreSteps,
           Proceed(w, step)
    PROVE  /\ RequestsOK' /\ LoopOK'
           /\ w \in Tasks /\ TaskAt(w) = from /\ Moves(w, step)
           /\ SessionOf(w)' = SessionOf(w)
           /\ loop # << >> /\ w = Head(loop) /\ loop' # << >> /\ Head(loop') = w
<1>1. w \in Tasks /\ loop # << >> /\ step \in TaskStep
    BY RunningIsTask DEF Shape, Running, TaskStep
<1>2. RequestsOK' /\ Moves(w, step) /\ SessionOf(w)' = SessionOf(w)
    BY <1>1, GotoMoves DEF Shape, Proceed
<1>3. LoopOK' /\ Head(loop') = w
    BY <1>2, LoopProceeds DEF Shape, Proceed
<1> QED
    BY <1>1, <1>2, <1>3 DEF Proceed, Running

(* The callback ends, resolved or rejected.                                *)
LEMMA Settles ==
    ASSUME Shape, loop # << >>, NEW w, w = Head(loop),
           NEW how \in {"settled", "rejected"}, Settle(w, how)
    PROVE  /\ RequestsOK' /\ LoopOK' /\ NoBurst'
           /\ w \in Tasks /\ Moves(w, how)
<1>1. w \in Tasks /\ how \in TaskStep /\ how \notin StoreSteps
    BY DEF Shape, LoopOK, TaskStep, StoreSteps
<1>2. RequestsOK' /\ Moves(w, how)
    BY <1>1, GotoMoves DEF Shape, Settle
<1> QED
    BY <1>1, <1>2, LoopLeaves DEF Shape, Settle

(* The session is loaded and the agent's answer on its way.                *)
LEMMA Loads ==
    ASSUME Shape, NEW w, LoadSession(w)
    PROVE  /\ RequestsOK' /\ LoopOK' /\ NoBurst'
           /\ w \in Tasks /\ TaskAt(w) = "load" /\ loop # << >> /\ w = Head(loop)
           /\ \E to \in AfterAgentSteps : Moves(w, to)
           /\ SessionOf(w)' = session[CustOf(w)] \cup {MsgOf(w)}
<1>1. w \in Tasks /\ loop # << >> /\ w = Head(loop) /\ TaskAt(w) = "load"
    BY RunningIsTask DEF Shape, LoadSession, Running
<1>2. PICK to \in AfterAgentSteps :
          /\ AfterAgent(w, to)
          /\ del' = [del EXCEPT ![w[1]].task[w[2]] =
                       [at |-> to, session |-> session[CustOf(w)] \cup {MsgOf(w)}]]
    BY DEF LoadSession, AfterAgentSteps
<1>3. /\ RequestsOK' /\ Moves(w, to)
      /\ SessionOf(w)' = session[CustOf(w)] \cup {MsgOf(w)}
    BY <1>1, <1>2, LoadSessionMoves DEF Shape
<1>4. CASE mode.delivery = "skipped" /\ mode.store # "none"
    <2>1. to = "inbound" /\ loop' = loop
        BY <1>2, <1>4 DEF AfterAgent
    <2>2. Running(w, "load") /\ "inbound" \in StoreSteps
        BY <1>1 DEF Running, StoreSteps
    <2>3. LoopOK' /\ Head(loop') = w
        BY <1>3, <2>1, <2>2, LoopProceeds DEF Shape
    <2>4. NoBurst'
        BY <1>3, <2>1, <2>3 DEF NoBurst, Moves, TaskAt
    <2> QED
        BY <1>1, <1>3, <2>3, <2>4
<1>5. CASE loop' = Tail(loop) /\ to \in {"settled", "sending"}
    <2>1. to \notin StoreSteps
        BY <1>5 DEF StoreSteps
    <2> QED
        BY <1>1, <1>3, <1>5, <2>1, LoopLeaves DEF Shape
<1>6. CASE loop' = Append(Tail(loop), w) /\ to = "inbound"
    BY <1>1, <1>3, <1>6, LoopTurns DEF Shape
<1>7. mode.delivery \in {"skipped", "mock", "http"}
    BY WebhookAssumption DEF Shape, StoreTypeOK, DeliveryMode
<1> QED
    BY <1>2, <1>4, <1>5, <1>6, <1>7 DEF AfterAgent

-----------------------------------------------------------------------------
(* What the other steps do to the requests and to the turn.                *)

(* A callback a step leaves where it is.                                   *)
Rests(v) ==
    /\ MsgOf(v)' = MsgOf(v) /\ TaskAt(v)' = TaskAt(v) /\ SessionOf(v)' = SessionOf(v)

(* Between two turns no callback stands at a step of the store.            *)
LEMMA NobodyRuns ==
    ASSUME LoopOK, loop = << >>
    PROVE  NoBurst /\ \A w \in Tasks : TaskAt(w) \notin StoreSteps
BY DEF LoopOK, LoopInv, NoBurst

(* A refused request is over; one that got through has its callbacks       *)
(* started, and every other callback stays where it is.                    *)
LEMMA Receives ==
    ASSUME Shape, NEW d \in Delivery, NEW arrival \in Arrival, Receive(d, arrival)
    PROVE  /\ RequestsOK' /\ LoopOK' /\ NoBurst'
           /\ loop = << >> /\ Tasks \subseteq Tasks'
           /\ \A v \in Tasks : Rests(v)
           /\ \A v \in Tasks' \ Tasks : TaskAt(v)' = "dedupe"
<1> DEFINE messages == arrival.messages
           begun == [at |-> "dedupe", session |-> {}]
<1>1. del[d].at = "waiting" /\ loop = << >>
    BY DEF Receive, Idle
<1>2. messages \in Seq(Message)
    BY WebhookAssumption
<1>3. \A w \in Tasks : TaskAt(w) \notin StoreSteps
    BY <1>1, NobodyRuns DEF Shape
<1>4. ASSUME NEW v \in Tasks
      PROVE  \E e \in Delivery \ {d} : \E j \in DOMAIN del[e].task :
                del[e].at = "open" /\ v = << e, j >>
    BY <1>1, TasksAre
<1>b. DOMAIN begun = {"at", "session"} /\ begun.at = "dedupe" /\ begun.session = {}
    OBVIOUS
<1> HIDE DEF begun, messages
<1>5. CASE ImmediateStatus(arrival) # 0
    <2>1. /\ del' = [del EXCEPT ![d].at = "done",
                                ![d].status = ImmediateStatus(arrival)]
          /\ loop' = loop
        BY <1>5 DEF Receive
    <2>2. ImmediateStatus(arrival) \in {200, 400, 403, 405}
        BY <1>5 DEF ImmediateStatus, SignatureStatus, HandshakeStatus
    <2>3. /\ DOMAIN del' = Delivery
          /\ \A e \in Delivery \ {d} : del'[e] = del[e]
          /\ DOMAIN del'[d] = DOMAIN del[d]
          /\ del'[d].at = "done" /\ del'[d].status = ImmediateStatus(arrival)
          /\ del'[d].messages = del[d].messages /\ del'[d].task = del[d].task
        BY <2>1 DEF Shape, RequestsOK, RequestOK
    <2>4. RequestsOK'
        BY <2>2, <2>3 DEF Shape, RequestsOK, RequestOK
    <2>5. Tasks' = Tasks
        <3>1. Open' = Open
            BY <1>1, <2>3 DEF Open
        <3> QED
            BY <1>1, <2>3, <3>1 DEF Tasks, Open
    <2>6. \A v \in Tasks : Rests(v)
        BY <1>4, <2>3 DEF Rests, MsgOf, TaskAt, SessionOf
    <2>7. LoopOK' /\ NoBurst'
        BY <1>1, <1>3, <2>1, <2>5, <2>6 DEF LoopOK, LoopInv, NoBurst, Rests
    <2> QED
        BY <1>1, <2>4, <2>5, <2>6, <2>7
<1>6. CASE ImmediateStatus(arrival) = 0
    <2>1. /\ del' = [del EXCEPT
                ![d].at = "open", ![d].messages = messages,
                ![d].task = [k \in DOMAIN messages |-> begun]]
          /\ loop' = [k \in DOMAIN messages |-> << d, k >>]
        BY <1>6 DEF Receive, messages, begun
    <2>2. /\ DOMAIN del' = Delivery
          /\ \A e \in Delivery \ {d} : del'[e] = del[e]
          /\ DOMAIN del'[d] = DOMAIN del[d]
          /\ del'[d].at = "open" /\ del'[d].status = del[d].status
          /\ del'[d].messages = messages
          /\ del'[d].task = [k \in DOMAIN messages |-> begun]
        BY <2>1 DEF Shape, RequestsOK, RequestOK
    <2>3. RequestsOK'
        BY <1>2, <1>b, <2>2 DEF Shape, RequestsOK, RequestOK, TaskStep, StoreSteps
    <2>4. ASSUME NEW v
          PROVE  v \in Tasks' <=> v \in Tasks \/ \E k \in DOMAIN messages : v = << d, k >>
        <3>1. v \in Tasks' <=> \E e \in Delivery : \E k \in DOMAIN del'[e].task :
                                  del'[e].at = "open" /\ v = << e, k >>
            BY DEF Tasks, Open
        <3>2. v \in Tasks <=> \E e \in Delivery : \E k \in DOMAIN del[e].task :
                                 del[e].at = "open" /\ v = << e, k >>
            BY TasksAre
        <3>3. DOMAIN del'[d].task = DOMAIN messages
            BY <2>2
        <3> QED
            BY <1>1, <2>2, <3>1, <3>2, <3>3
    <2>5. \A v \in Tasks : Rests(v)
        BY <1>4, <2>2 DEF Rests, MsgOf, TaskAt, SessionOf
    <2>6. \A k \in DOMAIN messages : TaskAt(<< d, k >>)' = "dedupe"
        BY <1>b, <2>2 DEF TaskAt
    <2>7. loop' \in Seq(Tasks')
        BY <1>2, <2>1, <2>4
    <2>8. LoopOK'
        <3>1. \A j, k \in DOMAIN loop' : loop'[j] = loop'[k] => j = k
            BY <2>1
        <3>2. \A k \in DOMAIN loop' : TaskAt(loop[k])' = "dedupe"
            BY <2>1, <2>6 DEF TaskAt
        <3>3. ASSUME NEW v \in Tasks', TaskAt(v)' \in StoreSteps
              PROVE  \E k \in DOMAIN loop' : v = loop'[k]
            <4>1. v \notin Tasks
                BY <1>3, <2>5, <3>3 DEF Rests
            <4> QED
                BY <2>1, <2>4, <4>1
        <3>4. LoopInv'
            BY <3>1, <3>2, <3>3 DEF LoopInv, StoreSteps, TaskAt
        <3> QED
            BY <2>7, <3>4 DEF LoopOK
    <2>9. NoBurst'
        <3> SUFFICES ASSUME loop' # << >>
                     PROVE  TaskAt(Head(loop))' \in {"dedupe", "inbound"}
            BY DEF NoBurst
        <3>1. 1 \in DOMAIN loop' /\ Head(loop') = loop'[1]
            BY <2>7
        <3> QED
            BY <2>1, <2>6, <3>1 DEF TaskAt
    <2> QED
        BY <1>1, <2>3, <2>4, <2>5, <2>6, <2>8, <2>9
<1> QED
    BY <1>5, <1>6

(* The send resolved: the callback is alone in its turn.                   *)
LEMMA SendResolvesMoves ==
    ASSUME Shape, NEW w \in Tasks, NEW accepted, SendResolves(w, accepted)
    PROVE  /\ RequestsOK' /\ LoopOK' /\ NoBurst'
           /\ loop = << >> /\ TaskAt(w) = "sending"
           /\ Moves(w, "inbound") /\ SessionOf(w)' = SessionOf(w)
<1>1. /\ Goto(w, "inbound") /\ loop = << >> /\ loop' = << w >>
      /\ TaskAt(w) = "sending"
    BY DEF SendResolves, Idle
<1>2. "inbound" \in TaskStep
    BY DEF TaskStep, StoreSteps
<1>3. RequestsOK' /\ Moves(w, "inbound") /\ SessionOf(w)' = SessionOf(w)
    BY <1>1, <1>2, GotoMoves DEF Shape
<1>4. \A v \in Tasks : TaskAt(v) \notin StoreSteps
    BY <1>1, NobodyRuns DEF Shape
<1>5. /\ loop' \in Seq(Tasks) /\ DOMAIN loop' = {1} /\ loop'[1] = w
      /\ Head(loop') = w
    BY <1>1
<1>6. LoopInv'
    <2>1. \A k \in DOMAIN loop' : TaskAt(loop[k])' = "inbound"
        BY <1>3, <1>5 DEF Moves, TaskAt
    <2>2. \A v \in Tasks' : TaskAt(v)' \in StoreSteps => v = w
        BY <1>3, <1>4 DEF Moves
    <2> QED
        BY <1>5, <2>1, <2>2 DEF LoopInv, StoreSteps, TaskAt
<1>7. NoBurst'
    BY <1>3, <1>5 DEF NoBurst, Moves, TaskAt
<1> QED
    BY <1>1, <1>3, <1>5, <1>6, <1>7 DEF LoopOK, Moves

(* Answering a request moves no callback.                                  *)
LEMMA RespondMoves ==
    ASSUME Shape, NEW d \in Delivery, Respond(d)
    PROVE  /\ RequestsOK' /\ LoopOK' /\ NoBurst'
           /\ loop = << >>
           /\ Tasks' = Tasks /\ \A v \in Tasks : Rests(v)
<1>1. /\ del' = [del EXCEPT ![d].status = IF Rejected(d) THEN 500 ELSE 200]
      /\ loop = << >> /\ loop' = loop
    BY DEF Respond
<1>2. /\ DOMAIN del' = Delivery
      /\ \A e \in Delivery \ {d} : del'[e] = del[e]
      /\ DOMAIN del'[d] = DOMAIN del[d] /\ del'[d].at = del[d].at
      /\ del'[d].messages = del[d].messages /\ del'[d].task = del[d].task
      /\ del'[d].status \in {200, 500}
    BY <1>1 DEF Shape, RequestsOK, RequestOK
<1>3. RequestsOK'
    BY <1>2 DEF Shape, RequestsOK, RequestOK
<1>4. Tasks' = Tasks
    BY <1>2 DEF Tasks, Open
<1>5. ASSUME NEW v \in Tasks
      PROVE  Rests(v)
    <2>1. PICK e \in Delivery : \E j \in DOMAIN del[e].task : v = << e, j >>
        BY TasksAre
    <2> QED
        BY <1>2, <2>1 DEF Rests, MsgOf, TaskAt, SessionOf
<1>6. LoopOK' /\ NoBurst'
    BY <1>1, <1>4, <1>5, NobodyRuns DEF Shape, LoopOK, LoopInv, NoBurst, Rests
<1> QED
    BY <1>1, <1>3, <1>4, <1>5, <1>6

(* When the process dies no callback is left.                              *)
LEMMA CrashMoves ==
    ASSUME Shape, Crash
    PROVE  /\ RequestsOK' /\ LoopOK' /\ NoBurst'
           /\ loop' = << >> /\ Tasks' = {}
<1>1. /\ del' = [d \in Delivery |->
                   IF d \in Open THEN [del[d] EXCEPT !.at = "done"] ELSE del[d]]
      /\ loop' = << >>
    BY DEF Crash
<1>2. \A d \in Delivery : RequestOK(d)
    BY DEF Shape, RequestsOK
<1>3. ASSUME NEW d \in Delivery
      PROVE  /\ del'[d].at # "open" /\ del'[d].at \in {"waiting", "open", "done"}
             /\ DOMAIN del'[d] = DOMAIN del[d]
             /\ del'[d].messages = del[d].messages /\ del'[d].task = del[d].task
             /\ del'[d].status = del[d].status
    <2>1. DOMAIN del[d] = {"at", "messages", "task", "status"}
        BY <1>2 DEF RequestOK
    <2>2. CASE d \in Open
        <3>1. del'[d] = [del[d] EXCEPT !.at = "done"]
            BY <1>1, <2>2
        <3> QED
            BY <2>1, <3>1
    <2>3. CASE d \notin Open
        BY <1>1, <1>2, <2>3 DEF Open, RequestOK
    <2> QED
        BY <2>2, <2>3
<1>4. RequestsOK'
    BY <1>1, <1>2, <1>3 DEF RequestsOK, RequestOK
<1>5. Tasks' = {}
    BY <1>3 DEF Tasks, Open
<1> QED
    BY <1>1, <1>4, <1>5 DEF LoopOK, LoopInv, NoBurst

-----------------------------------------------------------------------------
(* The store.                                                              *)

(* saveConversationEvent keeps the events there are; the one it stores is  *)
(* there after it, at the end or, on sqlite, in its old place.             *)
LEMMA StoredRow ==
    ASSUME StoreTypeOK, HasLast, NEW event \in ConversationEvent,
           events' = Stored(event)
    PROVE  /\ DOMAIN events' = DOMAIN events \cup {event}
           /\ events' \in [DOMAIN events' -> Nat]
           /\ \A e \in DOMAIN events : e # event => events'[e] = events[e]
           /\ (mode.store = "memory" \/ event \notin DOMAIN events) =>
                 \A e \in DOMAIN events : events[e] < events'[event]
           /\ (mode.store # "memory" /\ event \in DOMAIN events) => events' = events
           /\ HasLast'
<1> DEFINE rowids == {0} \cup {events[x] : x \in DOMAIN events}
           top == Max(rowids)
<1>1. \A e \in DOMAIN events : events[e] \in Nat
    BY DEF StoreTypeOK
<1>2. top \in Nat /\ \A e \in DOMAIN events : events[e] <= top
    <2>1. \E x \in rowids : \A y \in rowids : x >= y
        <3>1. CASE DOMAIN events = {}
            BY <3>1
        <3>2. CASE DOMAIN events # {}
            <4>1. PICK e \in DOMAIN events : IsLast(e)
                BY <3>2 DEF HasLast
            <4>2. \A y \in rowids : events[e] >= y
                BY <1>1, <4>1 DEF IsLast
            <4> QED
                BY <4>2
        <3> QED
            BY <3>1, <3>2
    <2>2. top \in rowids /\ \A y \in rowids : top >= y
        BY <2>1 DEF Max
    <2> HIDE DEF top
    <2> QED
        BY <1>1, <2>2
<1> HIDE DEF top
<1>3. events' = [e \in DOMAIN events \cup {event} |->
                   IF e = event /\ (mode.store = "memory" \/ e \notin DOMAIN events)
                   THEN 1 + top ELSE events[e]]
    BY DEF Stored, top
<1>4. /\ DOMAIN events' = DOMAIN events \cup {event}
      /\ \A e \in DOMAIN events : e # event => events'[e] = events[e]
    BY <1>3
<1>5. CASE mode.store = "memory" \/ event \notin DOMAIN events
    <2>1. events'[event] = 1 + top
        BY <1>3, <1>5
    <2>2. \A e \in DOMAIN events : events[e] < events'[event]
        BY <1>1, <1>2, <2>1
    <2>3. \A e \in DOMAIN events' : events'[e] \in Nat /\ events'[e] <= events'[event]
        BY <1>1, <1>2, <1>4, <2>1, <2>2
    <2>4. events' \in [DOMAIN events' -> Nat]
        BY <1>3, <2>3
    <2>5. HasLast'
        <3>1. event \in DOMAIN events' /\ \A x \in DOMAIN events' : events'[x] <= events'[event]
            BY <1>4, <2>3
        <3> QED
            BY <3>1 DEF HasLast, IsLast
    <2> QED
        BY <1>4, <1>5, <2>2, <2>4, <2>5
<1>6. CASE mode.store # "memory" /\ event \in DOMAIN events
    <2>1. events' = [e \in DOMAIN events |-> events[e]]
        BY <1>3, <1>6
    <2>2. events' = events
        BY <2>1 DEF StoreTypeOK
    <2> QED
        BY <1>4, <1>6, <2>2 DEF StoreTypeOK, HasLast, IsLast
<1> QED
    BY <1>5, <1>6

-----------------------------------------------------------------------------
(* Work that is done stays in the store.                                   *)

(* The invariant is about the shape of the state and about its records.    *)
LEMMA InvIsShape ==
    WebhookInv <=> /\ Shape /\ HasLast
                   /\ \A w \in Tasks : WorkStored(w)
                   /\ ProcessedIsRecorded
BY DEF WebhookInv, TypeOK, Shape, RequestsOK, LoopOK

(* A step that is not a crash only adds records.                           *)
Grows ==
    /\ DOMAIN events \subseteq DOMAIN events'
    /\ DOMAIN handoffs \subseteq DOMAIN handoffs'
    /\ \A c \in Customer : evidence[c] # {} => evidence'[c] # {}

(* What a callback has stored outlasts the steps of the others.            *)
LEMMA WorkStays ==
    ASSUME WebhookInv, Grows, NEW v \in Tasks, Rests(v)
    PROVE  WorkStored(v)'
<1>1. WorkStored(v) /\ CustOf(v) \in Customer
    BY InvIsShape, TaskTypes DEF Shape, WebhookInv
<1>2. CustOf(v)' = CustOf(v)
    BY DEF Rests, CustOf
<1> QED
    BY <1>1, <1>2 DEF Rests, Grows, WorkStored

(* What was marked stays recorded while nothing new is marked.             *)
LEMMA RecordsStay ==
    ASSUME WebhookInv, Grows, processed' = processed
    PROVE  ProcessedIsRecorded'
BY WebhookAssumption DEF WebhookInv, TypeOK, StoreTypeOK, ProcessedIsRecorded, Grows

(* A step of w keeps the invariant when w's own records are in place.      *)
LEMMA StepKeepsInv ==
    ASSUME WebhookInv, NEW w \in Tasks, NEW step, Moves(w, step),
           RequestsOK', LoopOK', StoreTypeOK', HasLast', Grows,
           WorkStored(w)', ProcessedIsRecorded'
    PROVE  WebhookInv'
<1>1. \A v \in Tasks \ {w} : WorkStored(v)'
    BY WorkStays DEF Moves, Rests
<1> QED
    BY <1>1, InvIsShape DEF Moves, Shape, WebhookInv, TypeOK, RequestsOK, LoopOK

(* A read of the store, a load or a refused statement records nothing.     *)
LEMMA StoreStays ==
    ASSUME WebhookInv, UNCHANGED << mode, store, answered >>,
           overlapped' \subseteq Customer, interrupted' \subseteq Message,
           faults' \in 0 .. MaxFaults
    PROVE  StoreTypeOK' /\ HasLast' /\ Grows /\ ProcessedIsRecorded'
<1>1. UNCHANGED << processed, events, session, evidence, handoffs >>
    BY DEF store
<1>2. StoreTypeOK' /\ HasLast'
    BY <1>1 DEF WebhookInv, TypeOK, StoreTypeOK, HasLast, IsLast
<1>3. Grows
    BY <1>1 DEF Grows
<1> QED
    BY <1>1, <1>2, <1>3, RecordsStay

(* The dedupe.                                                             *)
LEMMA CheckDuplicateKeeps ==
    ASSUME WebhookInv, NEW w, CheckDuplicate(w)
    PROVE  WebhookInv'
<1>1. PICK step \in {"duplicateSession", "load"} : Proceed(w, step)
    BY DEF CheckDuplicate
<1>2. Running(w, "dedupe") /\ step \in StoreSteps
    BY DEF CheckDuplicate, StoreSteps
<1>3. RequestsOK' /\ LoopOK' /\ w \in Tasks /\ Moves(w, step)
    BY <1>1, <1>2, Proceeds, InvIsShape
<1>4. StoreTypeOK' /\ HasLast' /\ Grows /\ ProcessedIsRecorded'
    <2>1. /\ overlapped' \subseteq Customer /\ interrupted' \subseteq Message
          /\ faults' \in 0 .. MaxFaults
        BY DEF WebhookInv, TypeOK, StoreTypeOK, CheckDuplicate
    <2> QED
        BY <2>1, StoreStays DEF CheckDuplicate
<1>5. WorkStored(w)'
    BY <1>3 DEF Moves, WorkStored, AfterInbound, AfterOutbound, AfterSave,
                AfterEvidence, AfterHandoff
<1> QED
    BY <1>3, <1>4, <1>5, StepKeepsInv

(* A duplicate's callback ends.                                            *)
LEMMA LoadDuplicateSessionKeeps ==
    ASSUME WebhookInv, NEW w, LoadDuplicateSession(w)
    PROVE  WebhookInv'
<1>1. loop # << >> /\ w = Head(loop) /\ Settle(w, "settled")
    BY DEF LoadDuplicateSession, Running
<1>2. RequestsOK' /\ LoopOK' /\ w \in Tasks /\ Moves(w, "settled")
    BY <1>1, Settles, InvIsShape
<1>3. StoreTypeOK' /\ HasLast' /\ Grows /\ ProcessedIsRecorded'
    <2>1. /\ overlapped' \subseteq Customer /\ interrupted' \subseteq Message
          /\ faults' \in 0 .. MaxFaults
        BY DEF WebhookInv, TypeOK, StoreTypeOK, LoadDuplicateSession
    <2> QED
        BY <2>1, StoreStays DEF LoadDuplicateSession
<1>4. WorkStored(w)'
    BY <1>2 DEF Moves, WorkStored, AfterInbound, AfterOutbound, AfterSave,
                AfterEvidence, AfterHandoff
<1> QED
    BY <1>2, <1>3, <1>4, StepKeepsInv

(* The session is loaded.                                                  *)
LEMMA LoadSessionKeeps ==
    ASSUME WebhookInv, NEW w, LoadSession(w)
    PROVE  WebhookInv'
<1>1. PICK to \in AfterAgentSteps :
          RequestsOK' /\ LoopOK' /\ w \in Tasks /\ Moves(w, to)
    BY Loads, InvIsShape
<1>2. CustOf(w) \in Customer
    BY <1>1, InvIsShape, TaskTypes DEF Shape
<1>3. StoreTypeOK' /\ HasLast' /\ Grows /\ ProcessedIsRecorded'
    <2>1. /\ overlapped' \subseteq Customer /\ interrupted' \subseteq Message
          /\ faults' \in 0 .. MaxFaults
        BY <1>2 DEF WebhookInv, TypeOK, StoreTypeOK, LoadSession
    <2> QED
        BY <2>1, StoreStays DEF LoadSession
<1>4. WorkStored(w)'
    BY <1>1 DEF Moves, WorkStored, AfterInbound, AfterOutbound, AfterSave,
                AfterEvidence, AfterHandoff, AfterAgentSteps
<1> QED
    BY <1>1, <1>3, <1>4, StepKeepsInv

(* The send resolved.                                                      *)
LEMMA SendResolvesKeeps ==
    ASSUME WebhookInv, NEW w \in Tasks, NEW accepted, SendResolves(w, accepted)
    PROVE  WebhookInv'
<1>1. RequestsOK' /\ LoopOK' /\ Moves(w, "inbound")
    BY SendResolvesMoves, InvIsShape
<1>2. MsgOf(w) \in Message
    BY InvIsShape, TaskTypes DEF Shape
<1>3. /\ UNCHANGED << mode, processed, events, session, evidence, handoffs,
                      overlapped, interrupted, faults >>
      /\ answered' = answered \/ answered' = [answered EXCEPT ![MsgOf(w)] = @ + 1]
    BY DEF SendResolves, store
<1>4. StoreTypeOK' /\ HasLast'
    BY <1>2, <1>3 DEF WebhookInv, TypeOK, StoreTypeOK, HasLast, IsLast
<1>5. Grows
    BY <1>3 DEF Grows
<1>6. WorkStored(w)'
    BY <1>1 DEF Moves, WorkStored, AfterInbound, AfterOutbound, AfterSave,
                AfterEvidence, AfterHandoff
<1>7. ProcessedIsRecorded'
    BY <1>3, <1>5, RecordsStay
<1> QED
    BY <1>1, <1>4, <1>5, <1>6, <1>7, StepKeepsInv

(* An event is stored: the callback goes on, one more event behind it.     *)
LEMMA SaveEventKeeps ==
    ASSUME WebhookInv, NEW w, NEW step, NEW kind \in {"inbound", "outbound", "handoff"},
           NEW next \in StoreSteps, SaveEvent(w, step, kind, next)
    PROVE  /\ RequestsOK' /\ LoopOK' /\ StoreTypeOK' /\ HasLast' /\ Grows
           /\ ProcessedIsRecorded'
           /\ w \in Tasks /\ TaskAt(w) = step /\ Moves(w, next)
           /\ MsgOf(w) \in Message
           /\ << MsgOf(w), kind >> \in DOMAIN events'
<1>1. /\ Running(w, step) /\ Proceed(w, next)
      /\ events' = Stored(<< MsgOf(w), kind >>)
      /\ UNCHANGED << mode, processed, session, evidence, handoffs, answered,
                      overlapped, interrupted, faults >>
    BY DEF SaveEvent
<1>2. RequestsOK' /\ LoopOK' /\ w \in Tasks /\ TaskAt(w) = step /\ Moves(w, next)
    BY <1>1, Proceeds, InvIsShape
<1>3. << MsgOf(w), kind >> \in ConversationEvent /\ MsgOf(w) \in Message
    BY <1>2, InvIsShape, TaskTypes DEF Shape, ConversationEvent
<1>4. /\ DOMAIN events' = DOMAIN events \cup {<< MsgOf(w), kind >>}
      /\ events' \in [DOMAIN events' -> Nat] /\ HasLast'
    BY <1>1, <1>3, StoredRow, InvIsShape DEF Shape
<1>5. StoreTypeOK'
    BY <1>1, <1>3, <1>4 DEF WebhookInv, TypeOK, StoreTypeOK
<1>6. Grows
    BY <1>1, <1>4 DEF Grows
<1>7. ProcessedIsRecorded'
    BY <1>1, <1>6, RecordsStay
<1> QED
    BY <1>2, <1>3, <1>4, <1>5, <1>6, <1>7

(* Each of the three events a burst stores is there behind it.             *)
LEMMA SaveEventsKeep ==
    ASSUME WebhookInv, NEW w,
           SaveInboundEvent(w) \/ SaveOutboundEvent(w) \/ SaveHandoffEvent(w)
    PROVE  WebhookInv'
<1> USE DEF AfterInbound, AfterOutbound, AfterSave, AfterEvidence, AfterHandoff
<1>w. w \in Tasks => WorkStored(w)
    BY DEF WebhookInv
<1>1. CASE SaveInboundEvent(w)
    <2>1. "outbound" \in StoreSteps /\ SaveEvent(w, "inbound", "inbound", "outbound")
        BY <1>1 DEF SaveInboundEvent, StoreSteps
    <2>2. /\ RequestsOK' /\ LoopOK' /\ StoreTypeOK' /\ HasLast' /\ Grows
          /\ ProcessedIsRecorded'
          /\ w \in Tasks /\ TaskAt(w) = "inbound" /\ Moves(w, "outbound")
          /\ << MsgOf(w), "inbound" >> \in DOMAIN events'
        BY <2>1, SaveEventKeeps
    <2>3. WorkStored(w)'
        BY <2>2 DEF Moves, WorkStored
    <2> QED
        BY <2>2, <2>3, StepKeepsInv
<1>2. CASE SaveOutboundEvent(w)
    <2>1. "session" \in StoreSteps /\ SaveEvent(w, "outbound", "outbound", "session")
        BY <1>2 DEF SaveOutboundEvent, StoreSteps
    <2>2. /\ RequestsOK' /\ LoopOK' /\ StoreTypeOK' /\ HasLast' /\ Grows
          /\ ProcessedIsRecorded'
          /\ w \in Tasks /\ TaskAt(w) = "outbound" /\ Moves(w, "session")
          /\ << MsgOf(w), "outbound" >> \in DOMAIN events'
        BY <2>1, SaveEventKeeps
    <2>3. WorkStored(w)'
        BY <1>w, <2>2 DEF Moves, WorkStored, Grows
    <2> QED
        BY <2>2, <2>3, StepKeepsInv
<1>3. CASE SaveHandoffEvent(w)
    <2>1. "mark" \in StoreSteps /\ SaveEvent(w, "handoffEvent", "handoff", "mark")
        BY <1>3 DEF SaveHandoffEvent, StoreSteps
    <2>2. /\ RequestsOK' /\ LoopOK' /\ StoreTypeOK' /\ HasLast' /\ Grows
          /\ ProcessedIsRecorded'
          /\ w \in Tasks /\ TaskAt(w) = "handoffEvent" /\ Moves(w, "mark")
          /\ << MsgOf(w), "handoff" >> \in DOMAIN events'
        BY <2>1, SaveEventKeeps
    <2>3. CustOf(w) \in Customer /\ CustOf(w)' = CustOf(w) /\ MsgOf(w)' = MsgOf(w)
        BY <2>2, InvIsShape, TaskTypes DEF Shape, Moves, CustOf
    <2>4. WorkStored(w)'
        BY <1>w, <2>2, <2>3 DEF Moves, WorkStored, Grows
    <2> QED
        BY <2>2, <2>4, StepKeepsInv
<1> QED
    BY <1>1, <1>2, <1>3

(* The session, the evidence and the handoff record are saved.             *)
LEMMA SaveSessionKeeps ==
    ASSUME WebhookInv, NEW w, SaveSession(w)
    PROVE  WebhookInv'
<1> USE DEF AfterInbound, AfterOutbound, AfterSave, AfterEvidence, AfterHandoff
<1>1. /\ Running(w, "session") /\ Proceed(w, "evidence") /\ "evidence" \in StoreSteps
      /\ session' = [session EXCEPT ![CustOf(w)] = SessionOf(w)]
      /\ UNCHANGED << mode, processed, events, evidence, handoffs, answered,
                      overlapped, interrupted, faults >>
    BY DEF SaveSession, SessionOf, StoreSteps
<1>2. /\ RequestsOK' /\ LoopOK' /\ w \in Tasks /\ TaskAt(w) = "session"
      /\ Moves(w, "evidence")
    BY <1>1, Proceeds, InvIsShape
<1>3. SessionOf(w) \subseteq Message /\ CustOf(w) \in Customer
    BY <1>2, InvIsShape, TaskTypes DEF Shape
<1>4. StoreTypeOK' /\ HasLast'
    BY <1>1, <1>3 DEF WebhookInv, TypeOK, StoreTypeOK, HasLast, IsLast
<1>5. Grows
    BY <1>1 DEF Grows
<1>6. WorkStored(w) /\ MsgOf(w)' = MsgOf(w) /\ TaskAt(w)' = "evidence"
    BY <1>2 DEF WebhookInv, Moves
<1>7. WorkStored(w)'
    BY <1>2, <1>5, <1>6 DEF WorkStored, Grows
<1> QED
    BY <1>1, <1>2, <1>4, <1>5, <1>7, RecordsStay, StepKeepsInv

(* The evidence is there, and a handoff or the mark comes next.            *)
LEMMA SaveEvidenceKeeps ==
    ASSUME WebhookInv, NEW w, SaveEvidence(w)
    PROVE  WebhookInv'
<1> USE DEF AfterInbound, AfterOutbound, AfterSave, AfterEvidence, AfterHandoff
<1> DEFINE next == IF MsgOf(w) \in HandoffMessage THEN "handoff" ELSE "mark"
<1>1. /\ Running(w, "evidence") /\ Proceed(w, next) /\ next \in StoreSteps
      /\ evidence' = [evidence EXCEPT ![CustOf(w)] = {MsgOf(w)}]
      /\ UNCHANGED << mode, processed, events, session, handoffs, answered,
                      overlapped, interrupted, faults >>
    BY DEF SaveEvidence, StoreSteps
<1>n. /\ MsgOf(w) \in HandoffMessage => next = "handoff"
      /\ MsgOf(w) \notin HandoffMessage => next = "mark"
    OBVIOUS
<1> HIDE DEF next
<1>2. /\ RequestsOK' /\ LoopOK' /\ w \in Tasks /\ TaskAt(w) = "evidence"
      /\ Moves(w, next)
    BY <1>1, Proceeds, InvIsShape
<1>3. MsgOf(w) \in Message /\ CustOf(w) \in Customer
    BY <1>2, InvIsShape, TaskTypes DEF Shape
<1>4. StoreTypeOK' /\ HasLast'
    BY <1>1, <1>3 DEF WebhookInv, TypeOK, StoreTypeOK, HasLast, IsLast
<1>5. Grows /\ evidence'[CustOf(w)] # {}
    BY <1>1, <1>3 DEF Grows, WebhookInv, TypeOK, StoreTypeOK
<1>6. /\ WorkStored(w) /\ MsgOf(w)' = MsgOf(w) /\ TaskAt(w)' = next
      /\ CustOf(w)' = CustOf(w)
    BY <1>2 DEF WebhookInv, Moves, CustOf
<1>7. WorkStored(w)'
    BY <1>2, <1>5, <1>6, <1>n DEF WorkStored, Grows
<1> QED
    BY <1>1, <1>2, <1>4, <1>5, <1>7, RecordsStay, StepKeepsInv

(* The record is there before its event.                                   *)
LEMMA SaveHandoffKeeps ==
    ASSUME WebhookInv, NEW w, SaveHandoff(w)
    PROVE  WebhookInv'
<1> USE DEF AfterInbound, AfterOutbound, AfterSave, AfterEvidence, AfterHandoff
<1>1. /\ Running(w, "handoff") /\ Proceed(w, "handoffEvent")
      /\ "handoffEvent" \in StoreSteps
      /\ handoffs' = [m \in DOMAIN handoffs \cup {MsgOf(w)} |->
                        IF m = MsgOf(w) THEN "open" ELSE handoffs[m]]
      /\ UNCHANGED << mode, processed, events, session, evidence, answered,
                      overlapped, interrupted, faults >>
    BY DEF SaveHandoff, StoreSteps
<1>2. /\ RequestsOK' /\ LoopOK' /\ w \in Tasks /\ TaskAt(w) = "handoff"
      /\ Moves(w, "handoffEvent")
    BY <1>1, Proceeds, InvIsShape
<1>3. WorkStored(w) /\ MsgOf(w) \in HandoffMessage
    BY <1>2 DEF WebhookInv, WorkStored
<1>4. StoreTypeOK' /\ HasLast'
    BY <1>1, <1>3 DEF WebhookInv, TypeOK, StoreTypeOK, HasLast, IsLast
<1>5. Grows /\ MsgOf(w) \in DOMAIN handoffs'
    BY <1>1 DEF Grows
<1>6. /\ MsgOf(w)' = MsgOf(w) /\ TaskAt(w)' = "handoffEvent"
      /\ CustOf(w)' = CustOf(w) /\ CustOf(w) \in Customer
    BY <1>2, InvIsShape, TaskTypes DEF Shape, Moves, CustOf
<1>7. WorkStored(w)'
    BY <1>2, <1>3, <1>5, <1>6 DEF WorkStored, Grows
<1> QED
    BY <1>1, <1>2, <1>4, <1>5, <1>7, RecordsStay, StepKeepsInv

(* The mark is the last write: all a processed message needs is there.     *)
LEMMA MarkProcessedKeeps ==
    ASSUME WebhookInv, NEW w, MarkProcessed(w)
    PROVE  WebhookInv'
<1> USE DEF AfterInbound, AfterOutbound, AfterSave, AfterEvidence, AfterHandoff
<1>1. /\ loop # << >> /\ w = Head(loop) /\ TaskAt(w) = "mark" /\ Settle(w, "settled")
      /\ processed' = processed \cup {MsgOf(w)}
      /\ UNCHANGED << mode, events, session, evidence, handoffs, answered,
                      overlapped, interrupted, faults >>
    BY DEF MarkProcessed, Running
<1>2. RequestsOK' /\ LoopOK' /\ w \in Tasks /\ Moves(w, "settled")
    BY <1>1, Settles, InvIsShape
<1>3. MsgOf(w) \in Message /\ WorkStored(w)
    BY <1>2, InvIsShape, TaskTypes DEF Shape
<1>4. StoreTypeOK' /\ HasLast'
    BY <1>1, <1>3 DEF WebhookInv, TypeOK, StoreTypeOK, HasLast, IsLast
<1>5. Grows
    BY <1>1 DEF Grows
<1>6. WorkStored(w)'
    BY <1>2 DEF Moves, WorkStored
<1>7. ProcessedIsRecorded'
    BY <1>1, <1>3 DEF WebhookInv, ProcessedIsRecorded, WorkStored, CustOf
<1> QED
    BY <1>2, <1>4, <1>5, <1>6, <1>7, StepKeepsInv

(* A statement fails: what was stored before it stays.                     *)
LEMMA StoreThrowsKeeps ==
    ASSUME WebhookInv, StoreThrows
    PROVE  WebhookInv'
<1>0. PICK w \in Tasks : w = Head(loop)
    BY DEF StoreThrows, WebhookInv, TypeOK
<1>1. loop # << >> /\ Settle(w, "rejected") /\ interrupted' = interrupted \cup {MsgOf(w)}
    BY <1>0 DEF StoreThrows
<1>2. RequestsOK' /\ LoopOK' /\ Moves(w, "rejected")
    BY <1>0, <1>1, Settles, InvIsShape
<1>3. MsgOf(w) \in Message
    BY InvIsShape, TaskTypes DEF Shape
<1>4. StoreTypeOK' /\ HasLast' /\ Grows /\ ProcessedIsRecorded'
    <2>1. /\ overlapped' \subseteq Customer /\ interrupted' \subseteq Message
          /\ faults' \in 0 .. MaxFaults
        BY <1>1, <1>3, WebhookAssumption DEF WebhookInv, TypeOK, StoreTypeOK, StoreThrows
    <2> QED
        BY <2>1, StoreStays DEF StoreThrows
<1>5. WorkStored(w)'
    BY <1>2 DEF Moves, WorkStored, AfterInbound, AfterOutbound, AfterSave,
                AfterEvidence, AfterHandoff
<1> QED
    BY <1>2, <1>4, <1>5, StepKeepsInv

(* Requests come and are answered; operators close records.                *)
LEMMA ReceiveKeeps ==
    ASSUME WebhookInv, NEW d \in Delivery, NEW arrival \in Arrival, Receive(d, arrival)
    PROVE  WebhookInv'
<1>1. /\ RequestsOK' /\ LoopOK' /\ \A v \in Tasks : Rests(v)
      /\ \A v \in Tasks' \ Tasks : TaskAt(v)' = "dedupe"
    BY Receives, InvIsShape
<1>2. StoreTypeOK' /\ HasLast' /\ Grows /\ ProcessedIsRecorded'
    <2>1. /\ overlapped' \subseteq Customer /\ interrupted' \subseteq Message
          /\ faults' \in 0 .. MaxFaults
        BY DEF WebhookInv, TypeOK, StoreTypeOK, Receive
    <2> QED
        BY <2>1, StoreStays DEF Receive
<1>3. ASSUME NEW v \in Tasks'
      PROVE  WorkStored(v)'
    <2>1. CASE v \in Tasks
        BY <1>1, <1>2, <2>1, WorkStays
    <2>2. CASE v \notin Tasks
        BY <1>1, <2>2 DEF WorkStored, AfterInbound, AfterOutbound, AfterSave,
                          AfterEvidence, AfterHandoff
    <2> QED
        BY <2>1, <2>2
<1> QED
    BY <1>1, <1>2, <1>3 DEF WebhookInv, TypeOK, RequestsOK, LoopOK

(* An answer changes the status of the request alone.                      *)
LEMMA RespondKeeps ==
    ASSUME WebhookInv, NEW d \in Delivery, Respond(d)
    PROVE  WebhookInv'
<1>1. RequestsOK' /\ LoopOK' /\ Tasks' = Tasks /\ \A v \in Tasks : Rests(v)
    BY RespondMoves, InvIsShape
<1>2. StoreTypeOK' /\ HasLast' /\ Grows /\ ProcessedIsRecorded'
    <2>1. /\ overlapped' \subseteq Customer /\ interrupted' \subseteq Message
          /\ faults' \in 0 .. MaxFaults
        BY DEF WebhookInv, TypeOK, StoreTypeOK, Respond
    <2> QED
        BY <2>1, StoreStays DEF Respond
<1>3. \A v \in Tasks : WorkStored(v)'
    BY <1>1, <1>2, WorkStays
<1> QED
    BY <1>1, <1>2, <1>3 DEF WebhookInv, TypeOK, RequestsOK, LoopOK

(* Closing a record moves no callback and keeps the record.                *)
LEMMA CloseMoves ==
    ASSUME NEW m, handleCloseWhatsAppHandoff(m)
    PROVE  Tasks' = Tasks /\ \A v : Rests(v)
BY DEF handleCloseWhatsAppHandoff, Tasks, Open, Rests, MsgOf, TaskAt, SessionOf

(* The record stays, whatever its status.                                  *)
LEMMA CloseKeeps ==
    ASSUME WebhookInv, NEW m \in Message, handleCloseWhatsAppHandoff(m)
    PROVE  WebhookInv'
<1>1. /\ loop' = loop /\ del' = del /\ m \in DOMAIN handoffs
      /\ handoffs' = [handoffs EXCEPT ![m] = "closed"]
      /\ UNCHANGED << mode, processed, events, session, evidence, answered,
                      overlapped, interrupted, faults >>
    BY DEF handleCloseWhatsAppHandoff
<1>2. Tasks' = Tasks /\ \A v \in Tasks : Rests(v)
    BY CloseMoves
<1>3. RequestsOK' /\ LoopOK'
    BY <1>1, <1>2 DEF WebhookInv, TypeOK, RequestsOK, RequestOK, LoopOK, LoopInv, Rests
<1>4. StoreTypeOK' /\ HasLast'
    BY <1>1 DEF WebhookInv, TypeOK, StoreTypeOK, HasLast, IsLast
<1>5. Grows
    BY <1>1 DEF Grows
<1>6. \A v \in Tasks : WorkStored(v)'
    BY <1>2, <1>5, WorkStays
<1> QED
    BY <1>1, <1>2, <1>3, <1>4, <1>5, <1>6, RecordsStay
       DEF WebhookInv, TypeOK, RequestsOK, LoopOK

(* A crash empties the store in memory, and only that one.                 *)
LEMMA CrashStore ==
    ASSUME Crash
    PROVE  /\ mode' = mode /\ answered' = answered /\ overlapped' = overlapped
           /\ interrupted' = interrupted \cup {MsgOf(w) : w \in Tasks}
                \cup (IF mode.store = "memory" THEN processed ELSE {})
           /\ mode.store = "memory" =>
                 /\ processed' = {} /\ events' = << >> /\ handoffs' = << >>
                 /\ session' = [c \in Customer |-> {}]
                 /\ evidence' = [c \in Customer |-> {}]
           /\ mode.store # "memory" =>
                 UNCHANGED << processed, events, session, evidence, handoffs >>
BY DEF Crash, store

(* What a crash leaves is consistent: all of the store, or none of it.     *)
LEMMA CrashKeeps ==
    ASSUME WebhookInv, Crash
    PROVE  WebhookInv'
<1>1. RequestsOK' /\ LoopOK' /\ Tasks' = {}
    BY CrashMoves, InvIsShape
<1>2. interrupted' \subseteq Message /\ faults' \in 0 .. MaxFaults
    <2>1. \A w \in Tasks : MsgOf(w) \in Message
        BY InvIsShape, TaskTypes DEF Shape
    <2>2. faults' \in 0 .. MaxFaults
        BY WebhookAssumption DEF WebhookInv, TypeOK, StoreTypeOK, Crash
    <2> QED
        BY <2>1, <2>2, CrashStore DEF WebhookInv, TypeOK, StoreTypeOK
<1>3. CASE mode.store = "memory"
    <2>1. DOMAIN events' = {} /\ DOMAIN handoffs' = {} /\ processed' = {}
        BY <1>3, CrashStore
    <2>2. events' \in [DOMAIN events' -> Nat] /\ handoffs' \in [DOMAIN handoffs' -> {"open", "closed"}]
        BY <1>3, <2>1, CrashStore
    <2>3. StoreTypeOK' /\ HasLast'
        BY <1>2, <1>3, <2>1, <2>2, CrashStore DEF WebhookInv, TypeOK, StoreTypeOK, HasLast
    <2>4. ProcessedIsRecorded'
        BY <2>1 DEF ProcessedIsRecorded
    <2> QED
        BY <1>1, <2>3, <2>4 DEF WebhookInv, TypeOK, RequestsOK, LoopOK
<1>4. CASE mode.store # "memory"
    <2>1. UNCHANGED << mode, processed, events, session, evidence, handoffs,
                       answered, overlapped >>
        BY <1>4, CrashStore
    <2>2. StoreTypeOK' /\ HasLast'
        BY <1>2, <2>1 DEF WebhookInv, TypeOK, StoreTypeOK, HasLast, IsLast
    <2>3. ProcessedIsRecorded'
        BY <2>1 DEF WebhookInv, ProcessedIsRecorded
    <2> QED
        BY <1>1, <2>2, <2>3 DEF WebhookInv, TypeOK, RequestsOK, LoopOK
<1> QED
    BY <1>3, <1>4

-----------------------------------------------------------------------------
(* Every step is one of these.                                             *)

(* The statement a callback of the turn executes.                          *)
LEMMA TurnIsWork ==
    ASSUME Shape, Turn
    PROVE  \E w \in Tasks : loop # << >> /\ w = Head(loop) /\ Work(w)
BY DEF Shape, LoopOK, Turn

(* The server starts on an empty store, without a request.                 *)
LEMMA InitWebhookInv == Init => WebhookInv
<1> SUFFICES ASSUME Init
             PROVE  WebhookInv
    OBVIOUS
<1>1. \A d \in Delivery : del[d] = Unused
    BY DEF Init
<1>2. Tasks = {}
    BY <1>1 DEF Tasks, Open, Unused
<1>3. \A d \in Delivery : RequestOK(d)
    <2>1. /\ DOMAIN Unused = {"at", "messages", "task", "status"}
          /\ Unused.at = "waiting" /\ Unused.messages = << >>
          /\ Unused.task = << >> /\ Unused.status = 0
        BY DEF Unused
    <2>2. << >> \in Seq(Message) /\ DOMAIN << >> = {}
        OBVIOUS
    <2> SUFFICES ASSUME NEW d \in Delivery PROVE RequestOK(d)
        OBVIOUS
    <2>3. del[d] = Unused
        BY <1>1
    <2> QED
        BY <2>1, <2>2, <2>3 DEF RequestOK
<1>4. DOMAIN events = {} /\ DOMAIN handoffs = {}
    BY DEF Init
<1>5. StoreTypeOK
    BY <1>4, WebhookAssumption DEF Init, StoreTypeOK
<1>6. TypeOK /\ LoopInv /\ HasLast
    BY <1>2, <1>3, <1>4, <1>5 DEF Init, TypeOK, LoopInv, HasLast
<1> QED
    BY <1>2, <1>6 DEF WebhookInv, ProcessedIsRecorded, Init

(* Every step keeps the invariant.                                         *)
LEMMA NextWebhookInv ==
    ASSUME WebhookInv, [Next]_vars
    PROVE  WebhookInv'
<1>1. ASSUME NEW d \in Delivery, NEW arrival \in Arrival, Receive(d, arrival)
      PROVE  WebhookInv'
    BY <1>1, ReceiveKeeps
<1>2. CASE Turn
    <2>1. PICK w \in Tasks : Work(w)
        BY <1>2, TurnIsWork, InvIsShape
    <2> QED
        BY <2>1, CheckDuplicateKeeps, LoadDuplicateSessionKeeps, LoadSessionKeeps,
           SaveEventsKeep, SaveSessionKeeps, SaveEvidenceKeeps, SaveHandoffKeeps,
           MarkProcessedKeeps DEF Work
<1>3. ASSUME NEW w \in Tasks, NEW accepted \in BOOLEAN, SendResolves(w, accepted)
      PROVE  WebhookInv'
    BY <1>3, SendResolvesKeeps
<1>4. ASSUME NEW d \in Delivery, Respond(d)
      PROVE  WebhookInv'
    BY <1>4, RespondKeeps
<1>5. ASSUME NEW m \in Message, handleCloseWhatsAppHandoff(m)
      PROVE  WebhookInv'
    BY <1>5, CloseKeeps
<1>6. CASE UNCHANGED vars
    <2>1. UNCHANGED << mode, processed, events, session, evidence, handoffs, del,
                       loop, answered, overlapped, interrupted, faults >>
        BY <1>6 DEF vars, store
    <2>2. Tasks' = Tasks /\ \A v \in Tasks : Rests(v)
        BY <2>1 DEF Tasks, Open, Rests, MsgOf, TaskAt, SessionOf
    <2>3. TypeOK'
        <3>1. StoreTypeOK' /\ \A d \in Delivery : RequestOK(d)'
            BY <2>1 DEF WebhookInv, TypeOK, StoreTypeOK, RequestOK
        <3> QED
            BY <2>1, <2>2, <3>1 DEF WebhookInv, TypeOK
    <2>5. LoopInv'
        <3>1. \A k \in DOMAIN loop : TaskAt(loop[k])' = TaskAt(loop[k])
            BY <2>1 DEF TaskAt
        <3>2. LoopInv
            BY DEF WebhookInv
        <3> QED
            BY <2>1, <2>2, <3>1, <3>2 DEF LoopInv, Rests
    <2>6. HasLast'
        BY <2>1 DEF WebhookInv, HasLast, IsLast
    <2>4. Grows
        BY <2>1 DEF Grows
    <2> QED
        BY <2>1, <2>2, <2>3, <2>4, <2>5, <2>6, WorkStays, RecordsStay DEF WebhookInv
<1> QED
    BY <1>1, <1>2, <1>3, <1>4, <1>5, <1>6, StoreThrowsKeeps, CrashKeeps DEF Next

(* What every reachable state satisfies: the types, the turn, and that a   *)
(* callback's records are in the store behind it.                          *)
THEOREM WebhookInvariant == Spec => []WebhookInv
<1>1. Init => WebhookInv
    BY InitWebhookInv
<1>2. WebhookInv /\ [Next]_vars => WebhookInv'
    BY NextWebhookInv
<1> QED
    BY <1>1, <1>2, PTL DEF Spec

(* Every reachable state is well typed.                                    *)
THEOREM TypesAreOK == Spec => []TypeOK
<1>1. WebhookInv => TypeOK
    BY DEF WebhookInv
<1> QED
    BY <1>1, WebhookInvariant, PTL

(* Whatever cut a burst off, a message marked processed has its events,    *)
(* its evidence and its handoff (handleWhatsAppWebhook marks last).        *)
THEOREM ProcessedIsAlwaysRecorded == Spec => []ProcessedIsRecorded
<1>1. WebhookInv => ProcessedIsRecorded
    BY DEF WebhookInv
<1> QED
    BY <1>1, WebhookInvariant, PTL

-----------------------------------------------------------------------------
(* Overlaps and work done again.                                           *)

(* An overlap that was seen and a burst that was cut off stay excuses.     *)
ExcusesStay == overlapped \subseteq overlapped' /\ interrupted \subseteq interrupted'

(* Callbacks that overlap have been seen while none starts to work.        *)
LEMMA OverlapsStay ==
    ASSUME OverlapsSeen, ExcusesStay,
           \A v \in Working' : v \in Working /\ MsgOf(v)' = MsgOf(v)
    PROVE  OverlapsSeen'
BY DEF OverlapsSeen, ExcusesStay, CustOf

(* A turn is kept while nothing is marked and no session is saved.         *)
LEMMA TurnsStay ==
    ASSUME WebhookInv, ReworkInv, ExcusesStay, session' = session,
           processed' = processed
    PROVE  /\ TurnsLostOnlyByOverlap'
           /\ \A v \in Working : Rests(v) => TurnKept(v)'
<1>1. TurnsLostOnlyByOverlap'
    BY DEF ReworkInv, TurnsLostOnlyByOverlap, ExcusesStay
<1>2. ASSUME NEW v \in Working, Rests(v)
      PROVE  TurnKept(v)'
    <2>1. TurnKept(v) /\ CustOf(v)' = CustOf(v)
        BY <1>2 DEF ReworkInv, Rests, CustOf
    <2> QED
        BY <1>2, <2>1 DEF TurnKept, Rests, ExcusesStay
<1> QED
    BY <1>1, <1>2

(* The steps at which a callback works, or is about to, on its message.    *)
WorkSteps == WriteSteps \cup {"sending", "load"}

(* The message of a callback stays fresh while nothing is marked.          *)
LEMMA FreshStays ==
    ASSUME WorkIsFresh, ExcusesStay, processed' = processed,
           NEW v \in Tasks, TaskAt(v) \in WorkSteps, MsgOf(v)' = MsgOf(v)
    PROVE  (MsgOf(v) \notin processed \/ Reworked(MsgOf(v)))'
BY DEF WorkIsFresh, ExcusesStay, Reworked, WorkSteps

(* What was done for a message stays accounted for when no callback leaves *)
(* the steps that account for it but by the mark or cut off.               *)
LEMMA DoneStays ==
    ASSUME ExcusesStay, NEW steps, NEW m, DoneBy(m, steps) \/ Reworked(m),
           \A n \in processed : n \in processed' \/ n \in interrupted',
           \A v \in Tasks : TaskAt(v) \in steps =>
               \/ v \in Tasks' /\ MsgOf(v)' = MsgOf(v) /\ TaskAt(v)' \in steps
               \/ MsgOf(v) \in processed' \/ MsgOf(v) \in interrupted'
    PROVE  DoneBy(m, steps)' \/ Reworked(m)'
BY DEF DoneBy, Reworked, ExcusesStay

(* The answers stay accounted for while none is sent.                      *)
LEMMA AnswersStay ==
    ASSUME ReworkInv, ExcusesStay, answered' = answered,
           \A n \in processed : n \in processed' \/ n \in interrupted',
           \A v \in Tasks : TaskAt(v) \in WriteSteps =>
               \/ v \in Tasks' /\ MsgOf(v)' = MsgOf(v) /\ TaskAt(v)' \in WriteSteps
               \/ MsgOf(v) \in processed' \/ MsgOf(v) \in interrupted',
           \A v \in Tasks' : TaskAt(v)' = "sending" =>
               v \in Tasks /\ MsgOf(v)' = MsgOf(v) /\ TaskAt(v) = "sending"
    PROVE  AnswersAccountedFor' /\ AnsweredAgainOnlyByRework'
<1>1. ASSUME NEW m \in Message, answered[m] > 0
      PROVE  DoneBy(m, WriteSteps)' \/ Reworked(m)'
    <2>1. DoneBy(m, WriteSteps) \/ Reworked(m)
        BY <1>1 DEF ReworkInv, AnswersAccountedFor
    <2> QED
        BY <2>1, DoneStays
<1>2. ASSUME NEW m \in Message, NEW v \in Tasks', TaskAt(v)' = "sending", MsgOf(v)' = m
      PROVE  answered[m] = 0 \/ Reworked(m)'
    <2>1. answered[m] = 0 \/ Reworked(m)
        BY <1>2 DEF ReworkInv, AnswersAccountedFor
    <2> QED
        BY <2>1 DEF Reworked, ExcusesStay
<1>3. AnswersAccountedFor'
    BY <1>1, <1>2 DEF AnswersAccountedFor
<1> QED
    BY <1>3 DEF ReworkInv, AnsweredAgainOnlyByRework, ExcusesStay

(* The handoffs stay accounted for while no record is added.               *)
LEMMA HandoffsStay ==
    ASSUME ReworkInv, ExcusesStay, DOMAIN handoffs' \subseteq DOMAIN handoffs,
           \A n \in processed : n \in processed' \/ n \in interrupted',
           \A v \in Tasks : TaskAt(v) \in AfterHandoff =>
               \/ v \in Tasks' /\ MsgOf(v)' = MsgOf(v) /\ TaskAt(v)' \in AfterHandoff
               \/ MsgOf(v) \in processed' \/ MsgOf(v) \in interrupted'
    PROVE  HandoffsAccountedFor'
<1>1. ASSUME NEW m \in DOMAIN handoffs'
      PROVE  DoneBy(m, AfterHandoff)' \/ Reworked(m)'
    <2>1. DoneBy(m, AfterHandoff) \/ Reworked(m)
        BY DEF ReworkInv, HandoffsAccountedFor
    <2> QED
        BY <2>1, DoneStays
<1> QED
    BY <1>1 DEF HandoffsAccountedFor

(* A step of w, that works before and after it if it works after it: all   *)
(* but w's own turn is as it was.                                          *)
LEMMA WorkGoesOn ==
    ASSUME WebhookInv, ReworkInv, ExcusesStay, NEW w \in Tasks, NEW step, Moves(w, step),
           processed' = processed, answered' = answered,
           \A m \in DOMAIN handoffs' \ DOMAIN handoffs :
               m = MsgOf(w) /\ step \in AfterHandoff,
           step \in WriteSteps => TaskAt(w) \in WriteSteps,
           step \notin {"sending", "load"},
           TaskAt(w) \in WriteSteps => step \in WriteSteps \/ MsgOf(w) \in interrupted',
           TaskAt(w) \in AfterHandoff => step \in AfterHandoff \/ MsgOf(w) \in interrupted'
    PROVE  /\ OverlapsSeen' /\ WorkIsFresh' /\ AnswersAccountedFor'
           /\ AnsweredAgainOnlyByRework' /\ HandoffsAccountedFor'
<1>m. \A v \in Tasks : MsgOf(v)' = MsgOf(v)
    BY DEF Moves
<1>1. OverlapsSeen'
    <2>1. \A v \in Working' : v \in Working
        BY DEF Working, Moves
    <2>2. Working \subseteq Tasks
        BY DEF Working
    <2> QED
        BY <1>m, <2>1, <2>2, OverlapsStay DEF ReworkInv
<1>2. WorkIsFresh'
    <2>1. ASSUME NEW v \in Tasks', TaskAt(v)' \in WorkSteps
          PROVE  (MsgOf(v) \notin processed \/ Reworked(MsgOf(v)))'
        <3>1. v \in Tasks /\ TaskAt(v) \in WorkSteps
            BY <2>1 DEF Moves, WorkSteps
        <3> QED
            BY <1>m, <3>1, FreshStays DEF ReworkInv
    <2> QED
        BY <2>1 DEF WorkIsFresh, WorkSteps
<1>3. AnswersAccountedFor' /\ AnsweredAgainOnlyByRework'
    <2>1. \A v \in Tasks : TaskAt(v) \in WriteSteps =>
               \/ v \in Tasks' /\ MsgOf(v)' = MsgOf(v) /\ TaskAt(v)' \in WriteSteps
               \/ MsgOf(v) \in processed' \/ MsgOf(v) \in interrupted'
        BY DEF Moves
    <2>2. \A v \in Tasks' : TaskAt(v)' = "sending" =>
               v \in Tasks /\ MsgOf(v)' = MsgOf(v) /\ TaskAt(v) = "sending"
        BY DEF Moves
    <2> QED
        BY <2>1, <2>2, AnswersStay
<1>4. HandoffsAccountedFor'
    <2>1. \A v \in Tasks : TaskAt(v) \in AfterHandoff =>
               \/ v \in Tasks' /\ MsgOf(v)' = MsgOf(v) /\ TaskAt(v)' \in AfterHandoff
               \/ MsgOf(v) \in processed' \/ MsgOf(v) \in interrupted'
        BY DEF Moves
    <2>2. ASSUME NEW m \in DOMAIN handoffs'
          PROVE  DoneBy(m, AfterHandoff)' \/ Reworked(m)'
        <3>1. CASE m \in DOMAIN handoffs
            <4>1. DoneBy(m, AfterHandoff) \/ Reworked(m)
                BY <3>1 DEF ReworkInv, HandoffsAccountedFor
            <4> QED
                BY <2>1, <4>1, DoneStays
        <3>2. CASE m \notin DOMAIN handoffs
            <4>1. w \in Tasks' /\ MsgOf(w)' = m /\ TaskAt(w)' \in AfterHandoff
                BY <3>2 DEF Moves
            <4> QED
                BY <4>1 DEF DoneBy
        <3> QED
            BY <3>1, <3>2
    <2> QED
        BY <2>2 DEF HandoffsAccountedFor
<1> QED
    BY <1>1, <1>2, <1>3, <1>4

(* The turns are kept when no session is saved and w's own is.             *)
LEMMA TurnsGoOn ==
    ASSUME WebhookInv, ReworkInv, ExcusesStay, NEW w \in Tasks, NEW step, Moves(w, step),
           processed' = processed, session' = session,
           step \in WriteSteps \cup {"sending"} => TurnKept(w)'
    PROVE  TurnsLostOnlyByOverlap' /\ \A v \in Working' : TurnKept(v)'
<1>1. ASSUME NEW v \in Working', v # w
      PROVE  TurnKept(v)'
    <2>1. v \in Working /\ Rests(v)
        BY <1>1 DEF Working, Moves, Rests
    <2> QED
        BY <2>1, TurnsStay
<1>2. w \in Working' => step \in WriteSteps \cup {"sending"}
    BY DEF Working, Moves
<1> QED
    BY <1>1, <1>2, TurnsStay

(* Nobody moves: requests arrive, are answered, records are closed.        *)
LEMMA NobodyMoves ==
    ASSUME WebhookInv, ReworkInv, \A v \in Tasks : Rests(v), Tasks \subseteq Tasks',
           \A v \in Tasks' \ Tasks : TaskAt(v)' = "dedupe",
           DOMAIN handoffs' = DOMAIN handoffs,
           UNCHANGED << processed, session, answered, overlapped, interrupted >>
    PROVE  ReworkInv'
<1>1. ExcusesStay
    BY DEF ExcusesStay
<1>2. ASSUME NEW v \in Tasks', TaskAt(v)' # "dedupe"
      PROVE  v \in Tasks /\ Rests(v)
    BY <1>2
<1>3. Working' = Working /\ \A v \in Working : Rests(v)
    BY <1>2 DEF Working, Rests, WriteSteps, StoreSteps
<1>4. OverlapsSeen' /\ TurnsLostOnlyByOverlap' /\ \A v \in Working' : TurnKept(v)'
    BY <1>1, <1>3, OverlapsStay, TurnsStay DEF ReworkInv, Rests
<1>5. WorkIsFresh'
    <2>1. ASSUME NEW v \in Tasks', TaskAt(v)' \in WorkSteps
          PROVE  (MsgOf(v) \notin processed \/ Reworked(MsgOf(v)))'
        <3>1. v \in Tasks /\ Rests(v)
            BY <1>2, <2>1 DEF WorkSteps, WriteSteps, StoreSteps
        <3> QED
            BY <1>1, <2>1, <3>1, FreshStays DEF Rests, ReworkInv
    <2> QED
        BY <2>1 DEF WorkIsFresh, WorkSteps
<1>6. AnswersAccountedFor' /\ AnsweredAgainOnlyByRework'
    <2>1. \A v \in Tasks : TaskAt(v) \in WriteSteps =>
               v \in Tasks' /\ MsgOf(v)' = MsgOf(v) /\ TaskAt(v)' \in WriteSteps
        BY DEF Rests
    <2>2. \A v \in Tasks' : TaskAt(v)' = "sending" =>
               v \in Tasks /\ MsgOf(v)' = MsgOf(v) /\ TaskAt(v) = "sending"
        BY <1>2 DEF Rests
    <2> QED
        BY <1>1, <2>1, <2>2, AnswersStay
<1>7. HandoffsAccountedFor'
    <2>1. \A v \in Tasks : TaskAt(v) \in AfterHandoff =>
               v \in Tasks' /\ MsgOf(v)' = MsgOf(v) /\ TaskAt(v)' \in AfterHandoff
        BY DEF Rests
    <2> QED
        BY <1>1, <2>1, HandoffsStay
<1> QED
    BY <1>4, <1>5, <1>6, <1>7 DEF ReworkInv

(* A message that counts as processed is not worked on.                    *)
LEMMA CheckDuplicateRework ==
    ASSUME WebhookInv, ReworkInv, NEW w, CheckDuplicate(w)
    PROVE  ReworkInv'
<1> DEFINE step == IF MsgOf(w) \in processed THEN "duplicateSession" ELSE "load"
<1>1. /\ Running(w, "dedupe") /\ Proceed(w, step) /\ step \in StoreSteps
      /\ UNCHANGED << processed, session, handoffs, answered, overlapped, interrupted >>
    BY DEF CheckDuplicate, store, StoreSteps
<1>s. step \in {"duplicateSession", "load"} /\ (step = "load" => MsgOf(w) \notin processed)
    OBVIOUS
<1> HIDE DEF step
<1>2. w \in Tasks /\ TaskAt(w) = "dedupe" /\ Moves(w, step)
    BY <1>1, Proceeds, InvIsShape
<1>3. ExcusesStay
    BY <1>1 DEF ExcusesStay
<1>4. TaskAt(w) \notin WorkSteps /\ step \notin WriteSteps \cup {"sending"}
      /\ AfterHandoff \subseteq WriteSteps
    BY <1>2, <1>s DEF WorkSteps, WriteSteps, StoreSteps, AfterHandoff
<1>5. \A v \in Tasks : MsgOf(v)' = MsgOf(v) /\ (v # w => Rests(v))
    BY <1>2 DEF Moves, Rests
<1>6. Working' = Working /\ \A v \in Working : Rests(v)
    BY <1>2, <1>4, <1>5 DEF Working, Moves, Rests, WorkSteps
<1>7. OverlapsSeen' /\ TurnsLostOnlyByOverlap' /\ \A v \in Working' : TurnKept(v)'
    BY <1>1, <1>3, <1>6, OverlapsStay, TurnsStay DEF ReworkInv, Rests
<1>8. WorkIsFresh'
    <2>1. ASSUME NEW v \in Tasks', TaskAt(v)' \in WorkSteps
          PROVE  (MsgOf(v) \notin processed \/ Reworked(MsgOf(v)))'
        <3>0. v \in Tasks
            BY <1>2 DEF Moves
        <3>1. CASE v = w
            BY <1>1, <1>2, <1>4, <1>s, <2>1, <3>1 DEF Moves, WorkSteps
        <3>2. CASE v # w
            BY <1>1, <1>3, <1>5, <2>1, <3>0, <3>2, FreshStays DEF Rests, ReworkInv
        <3> QED
            BY <3>1, <3>2
    <2> QED
        BY <2>1 DEF WorkIsFresh, WorkSteps
<1>9. AnswersAccountedFor' /\ AnsweredAgainOnlyByRework'
    <2>1. \A v \in Tasks : TaskAt(v) \in WriteSteps =>
               v \in Tasks' /\ MsgOf(v)' = MsgOf(v) /\ TaskAt(v)' \in WriteSteps
        BY <1>2, <1>4, <1>5 DEF Rests, Moves, WorkSteps
    <2>2. \A v \in Tasks' : TaskAt(v)' = "sending" =>
               v \in Tasks /\ MsgOf(v)' = MsgOf(v) /\ TaskAt(v) = "sending"
        BY <1>2, <1>4, <1>5 DEF Rests, Moves
    <2> QED
        BY <1>1, <1>3, <2>1, <2>2, AnswersStay
<1>10. HandoffsAccountedFor'
    <2>1. \A v \in Tasks : TaskAt(v) \in AfterHandoff =>
               v \in Tasks' /\ MsgOf(v)' = MsgOf(v) /\ TaskAt(v)' \in AfterHandoff
        BY <1>2, <1>4, <1>5 DEF Rests, Moves, WorkSteps
    <2> QED
        BY <1>1, <1>3, <2>1, HandoffsStay
<1> QED
    BY <1>7, <1>8, <1>9, <1>10 DEF ReworkInv

(* A duplicate is not worked on.                                           *)
LEMMA LoadDuplicateSessionRework ==
    ASSUME WebhookInv, ReworkInv, NEW w, LoadDuplicateSession(w)
    PROVE  ReworkInv'
<1>1. /\ loop # << >> /\ w = Head(loop) /\ Settle(w, "settled")
      /\ TaskAt(w) = "duplicateSession"
      /\ UNCHANGED << processed, session, handoffs, answered, overlapped, interrupted >>
    BY DEF LoadDuplicateSession, Running, store
<1>2. w \in Tasks /\ Moves(w, "settled")
    BY <1>1, Settles, InvIsShape
<1>3. ExcusesStay
    BY <1>1 DEF ExcusesStay
<1>4. /\ "settled" \notin WriteSteps /\ "duplicateSession" \notin WriteSteps
      /\ "duplicateSession" \notin AfterHandoff
    BY DEF WriteSteps, StoreSteps, AfterHandoff
<1>5. /\ OverlapsSeen' /\ WorkIsFresh' /\ AnswersAccountedFor'
      /\ AnsweredAgainOnlyByRework' /\ HandoffsAccountedFor'
    BY <1>1, <1>2, <1>3, <1>4, WorkGoesOn
<1>6. TurnsLostOnlyByOverlap' /\ \A v \in Working' : TurnKept(v)'
    BY <1>1, <1>2, <1>3, <1>4, TurnsGoOn
<1> QED
    BY <1>5, <1>6 DEF ReworkInv

(* Whoever loads the session while another callback works for the customer *)
(* is an overlap; otherwise it has all of the session and its message.     *)
LEMMA LoadSessionRework ==
    ASSUME WebhookInv, ReworkInv, NEW w, LoadSession(w)
    PROVE  ReworkInv'
<1>1. PICK to \in AfterAgentSteps : Moves(w, to)
    BY Loads, InvIsShape
<1>2. /\ w \in Tasks /\ TaskAt(w) = "load"
      /\ SessionOf(w)' = session[CustOf(w)] \cup {MsgOf(w)}
      /\ CustOf(w)' = CustOf(w) /\ MsgOf(w)' = MsgOf(w)
      /\ MsgOf(w) \in Message /\ CustOf(w) \in Customer
    BY <1>1, Loads, InvIsShape, TaskTypes DEF Shape, Moves, CustOf
<1>3. /\ UNCHANGED << mode, processed, session, handoffs, answered, interrupted >>
      /\ overlapped' = overlapped \cup
           {c \in {CustOf(w)} : \E v \in Working : CustOf(v) = c}
    BY DEF LoadSession, store
<1>4. ExcusesStay
    BY <1>3 DEF ExcusesStay
<1>5. /\ "load" \notin WriteSteps \cup {"sending"} /\ "load" \notin AfterHandoff
      /\ "load" \in WorkSteps /\ "sending" \notin WriteSteps
      /\ to \in {"inbound", "sending", "settled"}
    BY DEF WriteSteps, StoreSteps, AfterHandoff, AfterAgentSteps, WorkSteps
<1>6. \A v \in Tasks : MsgOf(v)' = MsgOf(v) /\ CustOf(v)' = CustOf(v) /\ (v # w => Rests(v))
    BY <1>1 DEF Moves, Rests, CustOf
<1>7. w \notin Working /\ Working \subseteq Tasks
    BY <1>2, <1>5 DEF Working
<1>8. \A v \in Working' \ {w} : v \in Working /\ Rests(v)
    BY <1>1, <1>6 DEF Working, Moves, Rests
<1>9. \A v \in Working : CustOf(v) = CustOf(w) => CustOf(w) \in overlapped'
    BY <1>3
<1>10. OverlapsSeen'
    <2> SUFFICES ASSUME NEW v \in Working', NEW u \in Working', v # u,
                        CustOf(v)' = CustOf(u)'
                 PROVE  CustOf(v)' \in overlapped'
        BY DEF OverlapsSeen
    <2>0. v \in Tasks /\ u \in Tasks
        BY <1>1 DEF Working, Moves
    <2>1. CustOf(v)' = CustOf(v) /\ CustOf(u)' = CustOf(u)
        BY <1>6, <2>0
    <2>2. CASE v # w /\ u # w
        BY <1>4, <1>8, <2>1, <2>2 DEF ReworkInv, OverlapsSeen, ExcusesStay
    <2>3. CASE v = w
        BY <1>8, <1>9, <2>1, <2>3
    <2>4. CASE u = w
        BY <1>8, <1>9, <2>1, <2>4
    <2> QED
        BY <2>2, <2>3, <2>4
<1>11. TurnsLostOnlyByOverlap' /\ \A v \in Working' : TurnKept(v)'
    <2>1. TurnKept(w)'
        <3>1. session'[CustOf(w)] = session[CustOf(w)] /\ TaskAt(w)' = to
            BY <1>1, <1>3 DEF Moves
        <3>2. to \notin AfterSave
            BY <1>5 DEF AfterSave, AfterEvidence, AfterHandoff
        <3> QED
            BY <1>2, <3>1, <3>2 DEF TurnKept
    <2> QED
        BY <1>1, <1>2, <1>3, <1>4, <2>1, TurnsGoOn
<1>12. WorkIsFresh'
    <2>1. ASSUME NEW v \in Tasks', TaskAt(v)' \in WorkSteps
          PROVE  (MsgOf(v) \notin processed \/ Reworked(MsgOf(v)))'
        <3>0. v \in Tasks /\ TaskAt(v) \in WorkSteps
            BY <1>1, <1>2, <1>5, <1>6, <2>1 DEF Moves, Rests
        <3> QED
            BY <1>3, <1>4, <1>6, <3>0, FreshStays DEF ReworkInv
    <2> QED
        BY <2>1 DEF WorkIsFresh, WorkSteps
<1>13. AnswersAccountedFor' /\ AnsweredAgainOnlyByRework'
    <2>1. \A v \in Tasks : TaskAt(v) \in WriteSteps =>
               v \in Tasks' /\ MsgOf(v)' = MsgOf(v) /\ TaskAt(v)' \in WriteSteps
        BY <1>1, <1>2, <1>5, <1>6 DEF Rests, Moves
    <2>2. ASSUME NEW m \in Message, answered[m] > 0
          PROVE  DoneBy(m, WriteSteps)' \/ Reworked(m)'
        <3>1. DoneBy(m, WriteSteps) \/ Reworked(m)
            BY <2>2 DEF ReworkInv, AnswersAccountedFor
        <3> QED
            BY <1>3, <1>4, <2>1, <3>1, DoneStays
    <2>3. ASSUME NEW m \in Message, NEW v \in Tasks', TaskAt(v)' = "sending", MsgOf(v)' = m
          PROVE  answered[m] = 0 \/ Reworked(m)'
        <3>1. CASE v # w
            <4>1. v \in Tasks /\ Rests(v)
                BY <1>1, <1>6, <3>1 DEF Moves
            <4>2. answered[m] = 0 \/ Reworked(m)
                BY <2>3, <4>1 DEF Rests, ReworkInv, AnswersAccountedFor
            <4> QED
                BY <1>4, <4>2 DEF Reworked, ExcusesStay
        <3>2. CASE v = w
            <4>1. m = MsgOf(w) /\ CustomerOf[m] = CustOf(w)
                BY <1>2, <2>3, <3>2 DEF CustOf
            <4>2. answered[m] \in Nat
                BY DEF WebhookInv, TypeOK, StoreTypeOK
            <4>3. CASE answered[m] > 0 /\ ~ Reworked(m)
                <5>1. m \notin processed
                    BY <1>2, <4>1, <4>3 DEF ReworkInv, WorkIsFresh
                <5>2. PICK u \in Tasks : MsgOf(u) = m /\ TaskAt(u) \in WriteSteps
                    BY <4>3, <5>1 DEF ReworkInv, AnswersAccountedFor, DoneBy
                <5>3. u \in Working /\ CustOf(u) = CustOf(w)
                    BY <4>1, <5>2 DEF Working, CustOf
                <5> QED
                    BY <1>9, <4>1, <5>3 DEF Reworked
            <4> QED
                BY <1>4, <4>2, <4>3 DEF Reworked, ExcusesStay
        <3> QED
            BY <3>1, <3>2
    <2>4. AnswersAccountedFor'
        BY <1>3, <2>2, <2>3 DEF AnswersAccountedFor
    <2> QED
        BY <1>3, <1>4, <2>4 DEF ReworkInv, AnsweredAgainOnlyByRework, ExcusesStay
<1>14. HandoffsAccountedFor'
    <2>1. \A v \in Tasks : TaskAt(v) \in AfterHandoff =>
               v \in Tasks' /\ MsgOf(v)' = MsgOf(v) /\ TaskAt(v)' \in AfterHandoff
        BY <1>1, <1>2, <1>5, <1>6 DEF Rests, Moves
    <2> QED
        BY <1>3, <1>4, <2>1, HandoffsStay
<1> QED
    BY <1>10, <1>11, <1>12, <1>13, <1>14 DEF ReworkInv

(* The provider takes an answer: nobody answered the message before, or    *)
(* it is being worked on again.                                            *)
LEMMA SendResolvesRework ==
    ASSUME WebhookInv, ReworkInv, NEW w \in Tasks, NEW accepted \in BOOLEAN,
           SendResolves(w, accepted)
    PROVE  ReworkInv'
<1>1. /\ Moves(w, "inbound") /\ TaskAt(w) = "sending" /\ SessionOf(w)' = SessionOf(w)
      /\ MsgOf(w) \in Message
    BY SendResolvesMoves, InvIsShape, TaskTypes DEF Shape
<1>2. /\ UNCHANGED << processed, session, handoffs, overlapped, interrupted >>
      /\ answered' = IF accepted THEN [answered EXCEPT ![MsgOf(w)] = @ + 1] ELSE answered
    BY DEF SendResolves, store
<1>3. ExcusesStay
    BY <1>2 DEF ExcusesStay
<1>4. /\ "inbound" \in WriteSteps /\ "sending" \in WorkSteps /\ "inbound" \in WorkSteps
      /\ "sending" \notin AfterHandoff /\ "sending" \notin WriteSteps
      /\ "sending" \in BeforeSave /\ "inbound" \in BeforeSave /\ "inbound" \notin AfterSave
    BY DEF WriteSteps, StoreSteps, WorkSteps, AfterHandoff, BeforeSave, AfterSave, AfterEvidence
<1>5. \A v \in Tasks : MsgOf(v)' = MsgOf(v) /\ CustOf(v)' = CustOf(v) /\ (v # w => Rests(v))
    BY <1>1 DEF Moves, Rests, CustOf
<1>6. w \in Working /\ Working \subseteq Tasks /\ Working' = Working
    BY <1>1, <1>4, <1>5 DEF Working, Moves, Rests
<1>7. OverlapsSeen'
    BY <1>3, <1>5, <1>6, OverlapsStay DEF ReworkInv
<1>8. TurnsLostOnlyByOverlap' /\ \A v \in Working' : TurnKept(v)'
    <2>1. TurnKept(w) /\ TaskAt(w)' = "inbound" /\ CustOf(w)' = CustOf(w)
          /\ MsgOf(w)' = MsgOf(w)
        BY <1>1, <1>5, <1>6 DEF ReworkInv, Moves
    <2>2. TurnKept(w)'
        BY <1>1, <1>2, <1>4, <2>1 DEF TurnKept
    <2> QED
        BY <1>1, <1>2, <1>3, <2>2, TurnsGoOn
<1>9. WorkIsFresh'
    <2>1. ASSUME NEW v \in Tasks', TaskAt(v)' \in WorkSteps
          PROVE  (MsgOf(v) \notin processed \/ Reworked(MsgOf(v)))'
        <3>1. v \in Tasks /\ TaskAt(v) \in WorkSteps
            BY <1>1, <1>4, <1>5, <2>1 DEF Moves, Rests
        <3> QED
            BY <1>2, <1>3, <1>5, <3>1, FreshStays DEF ReworkInv
    <2> QED
        BY <2>1 DEF WorkIsFresh, WorkSteps
<1>10. /\ answered \in [Message -> Nat] /\ answered' \in [Message -> Nat]
       /\ answered'[MsgOf(w)] <= answered[MsgOf(w)] + 1
       /\ \A m \in Message : m # MsgOf(w) => answered'[m] = answered[m]
    BY <1>1, <1>2 DEF WebhookInv, TypeOK, StoreTypeOK
<1>11. answered[MsgOf(w)] = 0 \/ Reworked(MsgOf(w))
    BY <1>1 DEF ReworkInv, AnswersAccountedFor
<1>12. AnswersAccountedFor'
    <2>1. ASSUME NEW m \in Message, answered'[m] > 0
          PROVE  DoneBy(m, WriteSteps)' \/ Reworked(m)'
        <3>1. CASE m = MsgOf(w)
            BY <1>1, <1>4, <3>1 DEF DoneBy, Moves
        <3>2. CASE m # MsgOf(w)
            <4>1. DoneBy(m, WriteSteps) \/ Reworked(m)
                BY <1>10, <2>1, <3>2 DEF ReworkInv, AnswersAccountedFor
            <4>2. \A v \in Tasks : TaskAt(v) \in WriteSteps =>
                    v \in Tasks' /\ MsgOf(v)' = MsgOf(v) /\ TaskAt(v)' \in WriteSteps
                BY <1>1, <1>4, <1>5 DEF Rests, Moves
            <4> QED
                BY <1>2, <1>3, <4>1, <4>2, DoneStays
        <3> QED
            BY <3>1, <3>2
    <2>2. ASSUME NEW m \in Message, NEW v \in Tasks', TaskAt(v)' = "sending", MsgOf(v)' = m
          PROVE  answered'[m] = 0 \/ Reworked(m)'
        <3>1. v # w /\ v \in Tasks /\ Rests(v) /\ MsgOf(v) = m /\ TaskAt(v) = "sending"
            BY <1>1, <1>5, <2>2 DEF Moves, Rests
        <3>2. CASE m # MsgOf(w)
            <4>1. answered[m] = 0 \/ Reworked(m)
                BY <3>1 DEF ReworkInv, AnswersAccountedFor
            <4> QED
                BY <1>3, <1>10, <3>2, <4>1 DEF Reworked, ExcusesStay
        <3>3. CASE m = MsgOf(w)
            <4>1. v \in Working /\ CustOf(v) = CustOf(w)
                BY <3>1, <3>3 DEF Working, CustOf
            <4>2. CustOf(w) \in overlapped
                BY <1>6, <3>1, <4>1 DEF ReworkInv, OverlapsSeen
            <4> QED
                BY <1>3, <3>3, <4>2 DEF Reworked, CustOf, ExcusesStay
        <3> QED
            BY <3>2, <3>3
    <2> QED
        BY <2>1, <2>2 DEF AnswersAccountedFor
<1>13. AnsweredAgainOnlyByRework'
    <2>1. ASSUME NEW m \in Message, answered'[m] > 1
          PROVE  Reworked(m)
        <3>1. CASE m = MsgOf(w)
            BY <1>10, <1>11, <2>1, <3>1
        <3>2. CASE m # MsgOf(w)
            BY <1>10, <2>1, <3>2 DEF ReworkInv, AnsweredAgainOnlyByRework, Reworked
        <3> QED
            BY <3>1, <3>2
    <2> QED
        BY <1>3, <2>1 DEF AnsweredAgainOnlyByRework, Reworked, ExcusesStay
<1>14. HandoffsAccountedFor'
    <2>1. \A v \in Tasks : TaskAt(v) \in AfterHandoff =>
               v \in Tasks' /\ MsgOf(v)' = MsgOf(v) /\ TaskAt(v)' \in AfterHandoff
        BY <1>1, <1>4, <1>5 DEF Rests, Moves
    <2> QED
        BY <1>2, <1>3, <2>1, HandoffsStay
<1> QED
    BY <1>7, <1>8, <1>9, <1>12, <1>13, <1>14 DEF ReworkInv

(* A write of the burst other than the session and the mark.               *)
LEMMA WriteRework ==
    ASSUME WebhookInv, ReworkInv, NEW w, NEW from \in WriteSteps, Running(w, from),
           NEW step \in WriteSteps, Proceed(w, step),
           from \in AfterSave \/ (from \in BeforeSave /\ step \in BeforeSave),
           from \in AfterSave => step \in AfterSave,
           from \in AfterHandoff => step \in AfterHandoff,
           \A m \in DOMAIN handoffs' \ DOMAIN handoffs :
               m = MsgOf(w) /\ step \in AfterHandoff,
           UNCHANGED << processed, session, answered, overlapped, interrupted >>
    PROVE  ReworkInv'
<1>1. /\ w \in Tasks /\ TaskAt(w) = from /\ Moves(w, step)
      /\ SessionOf(w)' = SessionOf(w)
    BY Proceeds, InvIsShape DEF WriteSteps
<1>2. ExcusesStay
    BY DEF ExcusesStay
<1>3. step \notin {"sending", "load"}
    BY DEF WriteSteps, StoreSteps
<1>4. /\ OverlapsSeen' /\ WorkIsFresh' /\ AnswersAccountedFor'
      /\ AnsweredAgainOnlyByRework' /\ HandoffsAccountedFor'
    BY <1>1, <1>2, <1>3, WorkGoesOn
<1>5. TurnKept(w)'
    <2>1. TurnKept(w)
        BY <1>1 DEF ReworkInv, Working
    <2>2. MsgOf(w)' = MsgOf(w) /\ CustOf(w)' = CustOf(w) /\ TaskAt(w)' = step
        BY <1>1 DEF Moves, CustOf
    <2>3. ~ (step \in BeforeSave /\ from \in AfterSave) /\ ~ (step \in AfterSave /\ from \in BeforeSave)
        BY DEF BeforeSave, AfterSave, AfterEvidence, AfterHandoff
    <2> QED
        BY <1>1, <2>1, <2>2, <2>3 DEF TurnKept
<1>6. TurnsLostOnlyByOverlap' /\ \A v \in Working' : TurnKept(v)'
    BY <1>1, <1>2, <1>5, TurnsGoOn
<1> QED
    BY <1>4, <1>6 DEF ReworkInv

(* The writes of the burst, one by one.                                    *)
LEMMA WritesRework ==
    ASSUME WebhookInv, ReworkInv, NEW w,
           \/ SaveInboundEvent(w) \/ SaveOutboundEvent(w) \/ SaveHandoffEvent(w)
           \/ SaveEvidence(w) \/ SaveHandoff(w)
    PROVE  ReworkInv'
<1> USE DEF AfterSave, AfterEvidence, AfterHandoff, BeforeSave, WriteSteps, StoreSteps
<1>1. CASE SaveInboundEvent(w)
    <2>1. /\ Running(w, "inbound") /\ Proceed(w, "outbound")
          /\ UNCHANGED << processed, session, handoffs, answered, overlapped, interrupted >>
        BY <1>1 DEF SaveInboundEvent, SaveEvent
    <2> QED
        BY <2>1, WriteRework
<1>2. CASE SaveOutboundEvent(w)
    <2>1. /\ Running(w, "outbound") /\ Proceed(w, "session")
          /\ UNCHANGED << processed, session, handoffs, answered, overlapped, interrupted >>
        BY <1>2 DEF SaveOutboundEvent, SaveEvent
    <2> QED
        BY <2>1, WriteRework
<1>3. CASE SaveHandoffEvent(w)
    <2>1. /\ Running(w, "handoffEvent") /\ Proceed(w, "mark")
          /\ UNCHANGED << processed, session, handoffs, answered, overlapped, interrupted >>
        BY <1>3 DEF SaveHandoffEvent, SaveEvent
    <2> QED
        BY <2>1, WriteRework
<1>4. CASE SaveEvidence(w)
    <2>1. PICK step \in {"handoff", "mark"} : Proceed(w, step)
        BY <1>4 DEF SaveEvidence
    <2>2. /\ Running(w, "evidence")
          /\ UNCHANGED << processed, session, handoffs, answered, overlapped, interrupted >>
        BY <1>4 DEF SaveEvidence
    <2> QED
        BY <2>1, <2>2, WriteRework
<1>5. CASE SaveHandoff(w)
    <2>1. /\ Running(w, "handoff") /\ Proceed(w, "handoffEvent")
          /\ DOMAIN handoffs' = DOMAIN handoffs \cup {MsgOf(w)}
          /\ UNCHANGED << processed, session, answered, overlapped, interrupted >>
        BY <1>5 DEF SaveHandoff
    <2> QED
        BY <2>1, WriteRework
<1> QED
    BY <1>1, <1>2, <1>3, <1>4, <1>5

(* The session is saved: it has the turns of the one it replaces, or       *)
(* another callback works for the customer too, which is an overlap.       *)
LEMMA SaveSessionRework ==
    ASSUME WebhookInv, ReworkInv, NEW w, SaveSession(w)
    PROVE  ReworkInv'
<1>1. /\ Running(w, "session") /\ Proceed(w, "evidence") /\ "evidence" \in StoreSteps
      /\ session' = [session EXCEPT ![CustOf(w)] = SessionOf(w)]
      /\ UNCHANGED << processed, handoffs, answered, overlapped, interrupted >>
    BY DEF SaveSession, SessionOf, StoreSteps
<1>2. /\ w \in Tasks /\ TaskAt(w) = "session" /\ Moves(w, "evidence")
      /\ SessionOf(w)' = SessionOf(w)
    BY <1>1, Proceeds, InvIsShape
<1>3. CustOf(w) \in Customer /\ MsgOf(w) \in Message
    BY <1>2, InvIsShape, TaskTypes DEF Shape
<1>4. ExcusesStay
    BY <1>1 DEF ExcusesStay
<1>5. /\ "session" \in WriteSteps /\ "evidence" \in WriteSteps /\ "session" \in BeforeSave
      /\ "session" \notin AfterHandoff /\ "evidence" \notin BeforeSave
      /\ "evidence" \in AfterSave
    BY DEF WriteSteps, StoreSteps, AfterHandoff, BeforeSave, AfterSave, AfterEvidence
<1>6. /\ OverlapsSeen' /\ WorkIsFresh' /\ AnswersAccountedFor'
      /\ AnsweredAgainOnlyByRework' /\ HandoffsAccountedFor'
    BY <1>1, <1>2, <1>4, <1>5, WorkGoesOn
<1>7. w \in Working
    BY <1>2, <1>5 DEF Working
<1>8. CustOf(w) \notin overlapped => session[CustOf(w)] \cup {MsgOf(w)} \subseteq SessionOf(w)
    BY <1>2, <1>5, <1>7 DEF ReworkInv, TurnKept
<1>9. /\ session'[CustOf(w)] = SessionOf(w)
      /\ \A c \in Customer : c # CustOf(w) => session'[c] = session[c]
    BY <1>1, <1>3 DEF WebhookInv, TypeOK, StoreTypeOK
<1>10. TurnsLostOnlyByOverlap'
    <2>1. ASSUME NEW m \in processed, CustomerOf[m] \notin overlapped
          PROVE  m \in session'[CustomerOf[m]]
        <3>1. m \in session[CustomerOf[m]] /\ CustomerOf[m] \in Customer
            BY <2>1, WebhookAssumption
               DEF ReworkInv, TurnsLostOnlyByOverlap, WebhookInv, TypeOK, StoreTypeOK
        <3> QED
            BY <1>8, <1>9, <2>1, <3>1
    <2> QED
        BY <1>1, <2>1 DEF TurnsLostOnlyByOverlap
<1>11. ASSUME NEW v \in Working'
       PROVE  TurnKept(v)'
    <2>1. CASE v = w
        <3>1. CustOf(w)' = CustOf(w) /\ MsgOf(w)' = MsgOf(w) /\ TaskAt(w)' = "evidence"
            BY <1>2 DEF Moves, CustOf
        <3> QED
            BY <1>1, <1>5, <1>8, <1>9, <2>1, <3>1 DEF TurnKept
    <2>2. CASE v # w
        <3>1. v \in Working /\ Rests(v) /\ CustOf(v)' = CustOf(v)
            BY <1>2, <2>2 DEF Working, Moves, Rests, CustOf
        <3>2. CASE CustOf(v) = CustOf(w)
            BY <1>1, <1>7, <2>2, <3>1, <3>2 DEF ReworkInv, OverlapsSeen, TurnKept
        <3>3. CASE CustOf(v) # CustOf(w)
            <4>1. CustOf(v) \in Customer
                BY <3>1, InvIsShape, TaskTypes DEF Shape, Working
            <4>2. TurnKept(v) /\ session'[CustOf(v)] = session[CustOf(v)]
                BY <1>9, <3>1, <3>3, <4>1 DEF ReworkInv
            <4> QED
                BY <1>1, <3>1, <4>2 DEF TurnKept, Rests
        <3> QED
            BY <3>2, <3>3
    <2> QED
        BY <2>1, <2>2
<1> QED
    BY <1>6, <1>10, <1>11 DEF ReworkInv

(* The message is marked: another callback on it would be an overlap.      *)
LEMMA MarkProcessedRework ==
    ASSUME WebhookInv, ReworkInv, NEW w, MarkProcessed(w)
    PROVE  ReworkInv'
<1>1. /\ loop # << >> /\ w = Head(loop) /\ TaskAt(w) = "mark" /\ Settle(w, "settled")
      /\ processed' = processed \cup {MsgOf(w)}
      /\ UNCHANGED << session, handoffs, answered, overlapped, interrupted >>
    BY DEF MarkProcessed, Running
<1>2. w \in Tasks /\ Moves(w, "settled")
    BY <1>1, Settles, InvIsShape
<1>3. ExcusesStay
    BY <1>1 DEF ExcusesStay
<1>4. /\ "mark" \in WriteSteps /\ "mark" \in AfterSave /\ "settled" \notin WorkSteps
      /\ "load" \in StoreSteps /\ "load" \notin {"dedupe", "inbound"}
      /\ WriteSteps \subseteq WorkSteps /\ AfterHandoff \subseteq WorkSteps
      /\ "sending" \in WorkSteps
    BY DEF WriteSteps, StoreSteps, WorkSteps, AfterSave, AfterEvidence, AfterHandoff
<1>5. \A v \in Tasks : MsgOf(v)' = MsgOf(v) /\ (v # w => Rests(v))
    BY <1>2 DEF Moves, Rests
<1>6. w \in Working /\ Working' \subseteq Working \ {w} /\ Working \subseteq Tasks
    BY <1>1, <1>2, <1>4, <1>5 DEF Working, Moves, Rests, WorkSteps
<1>7. OverlapsSeen'
    BY <1>3, <1>5, <1>6, OverlapsStay DEF ReworkInv
<1>8. TurnsLostOnlyByOverlap'
    <2>1. CustOf(w) \notin overlapped => MsgOf(w) \in session[CustOf(w)]
        BY <1>1, <1>4, <1>6 DEF ReworkInv, TurnKept
    <2> QED
        BY <1>1, <2>1 DEF ReworkInv, TurnsLostOnlyByOverlap, CustOf
<1>9. ASSUME NEW v \in Working'
      PROVE  TurnKept(v)'
    <2>1. v \in Working /\ Rests(v) /\ CustOf(v)' = CustOf(v)
        BY <1>5, <1>6 DEF Rests, CustOf
    <2> QED
        BY <1>1, <2>1 DEF ReworkInv, TurnKept, Rests
<1>10. WorkIsFresh'
    <2>1. ASSUME NEW v \in Tasks', TaskAt(v)' \in WorkSteps
          PROVE  (MsgOf(v) \notin processed \/ Reworked(MsgOf(v)))'
        <3>1. v # w /\ v \in Tasks /\ Rests(v) /\ TaskAt(v) \in WorkSteps
            BY <1>2, <1>4, <1>5, <2>1 DEF Moves, Rests
        <3>2. CASE MsgOf(v) # MsgOf(w)
            BY <1>1, <1>3, <3>1, <3>2 DEF ReworkInv, WorkIsFresh, WorkSteps, Rests,
                                         Reworked, ExcusesStay
        <3>3. CASE MsgOf(v) = MsgOf(w)
            <4>1. TaskAt(v) # "load"
                <5> SUFFICES ASSUME TaskAt(v) = "load"
                             PROVE  FALSE
                    OBVIOUS
                <5>1. PICK k \in DOMAIN loop : v = loop[k]
                    BY <1>4, <3>1 DEF WebhookInv, LoopInv
                <5>2. k = 1
                    BY <1>4, <5>1 DEF WebhookInv, LoopInv
                <5> QED
                    BY <1>1, <3>1, <5>1, <5>2 DEF WebhookInv, TypeOK
            <4>2. v \in Working /\ CustOf(v) = CustOf(w)
                BY <3>1, <3>3, <4>1 DEF Working, WorkSteps, CustOf
            <4>3. CustOf(w) \in overlapped
                BY <1>6, <3>1, <4>2 DEF ReworkInv, OverlapsSeen
            <4> QED
                BY <1>1, <3>1, <3>3, <4>3 DEF Rests, Reworked, CustOf
        <3> QED
            BY <3>2, <3>3
    <2> QED
        BY <2>1 DEF WorkIsFresh, WorkSteps
<1>11. \A n \in processed : n \in processed'
    BY <1>1
<1>12. AnswersAccountedFor' /\ AnsweredAgainOnlyByRework'
    <2>1. \A v \in Tasks : TaskAt(v) \in WriteSteps =>
               \/ v \in Tasks' /\ MsgOf(v)' = MsgOf(v) /\ TaskAt(v)' \in WriteSteps
               \/ MsgOf(v) \in processed'
        BY <1>1, <1>2, <1>5 DEF Rests, Moves
    <2>2. \A v \in Tasks' : TaskAt(v)' = "sending" =>
               v \in Tasks /\ MsgOf(v)' = MsgOf(v) /\ TaskAt(v) = "sending"
        BY <1>2, <1>4, <1>5 DEF Rests, Moves
    <2> QED
        BY <1>1, <1>3, <1>11, <2>1, <2>2, AnswersStay
<1>13. HandoffsAccountedFor'
    <2>1. \A v \in Tasks : TaskAt(v) \in AfterHandoff =>
               \/ v \in Tasks' /\ MsgOf(v)' = MsgOf(v) /\ TaskAt(v)' \in AfterHandoff
               \/ MsgOf(v) \in processed'
        BY <1>1, <1>2, <1>5 DEF Rests, Moves
    <2> QED
        BY <1>1, <1>3, <1>11, <2>1, HandoffsStay
<1> QED
    BY <1>7, <1>8, <1>9, <1>10, <1>12, <1>13 DEF ReworkInv

(* A statement fails: its message may be worked on again.                  *)
LEMMA StoreThrowsRework ==
    ASSUME WebhookInv, ReworkInv, StoreThrows
    PROVE  ReworkInv'
<1>0. PICK w \in Tasks : w = Head(loop)
    BY DEF StoreThrows, WebhookInv, TypeOK
<1>1. /\ loop # << >> /\ Settle(w, "rejected")
      /\ interrupted' = interrupted \cup {MsgOf(w)}
      /\ UNCHANGED << processed, session, handoffs, answered, overlapped >>
    BY <1>0 DEF StoreThrows, store
<1>2. Moves(w, "rejected")
    BY <1>0, <1>1, Settles, InvIsShape
<1>3. ExcusesStay /\ MsgOf(w) \in interrupted'
    BY <1>1 DEF ExcusesStay
<1>4. "rejected" \notin WriteSteps
    BY DEF WriteSteps, StoreSteps
<1>5. /\ OverlapsSeen' /\ WorkIsFresh' /\ AnswersAccountedFor'
      /\ AnsweredAgainOnlyByRework' /\ HandoffsAccountedFor'
    BY <1>1, <1>2, <1>3, <1>4, WorkGoesOn
<1>6. TurnsLostOnlyByOverlap' /\ \A v \in Working' : TurnKept(v)'
    BY <1>1, <1>2, <1>3, <1>4, TurnsGoOn
<1> QED
    BY <1>5, <1>6 DEF ReworkInv

(* The process dies: what it was working on may be worked on again, and    *)
(* what it had marked if the marks died with it.                           *)
LEMMA CrashRework ==
    ASSUME WebhookInv, ReworkInv, Crash
    PROVE  ReworkInv'
<1>1. Tasks' = {}
    BY CrashMoves, InvIsShape
<1>2. /\ ExcusesStay /\ answered' = answered
      /\ \A v \in Tasks : MsgOf(v) \in interrupted'
      /\ \A n \in processed : n \in processed' \/ n \in interrupted'
      /\ processed' \subseteq processed
      /\ DOMAIN handoffs' \subseteq DOMAIN handoffs
    BY CrashStore DEF ExcusesStay
<1>3. TurnsLostOnlyByOverlap'
    BY CrashStore DEF ReworkInv, TurnsLostOnlyByOverlap
<1>4. AnswersAccountedFor' /\ AnsweredAgainOnlyByRework' /\ HandoffsAccountedFor'
    BY <1>1, <1>2, AnswersStay, HandoffsStay
<1> QED
    BY <1>1, <1>3, <1>4 DEF ReworkInv, Working, OverlapsSeen, WorkIsFresh

(* At the start nothing was done and nobody overlaps.                      *)
LEMMA InitReworkInv == Init => ReworkInv
<1> SUFFICES ASSUME Init
             PROVE  ReworkInv
    OBVIOUS
<1>1. Tasks = {}
    BY DEF Init, Tasks, Open, Unused
<1>2. OverlapsSeen /\ WorkIsFresh /\ \A w \in Working : TurnKept(w)
    BY <1>1 DEF OverlapsSeen, WorkIsFresh, Working
<1>3. TurnsLostOnlyByOverlap
    BY DEF Init, TurnsLostOnlyByOverlap
<1>4. AnswersAccountedFor /\ AnsweredAgainOnlyByRework
    BY <1>1 DEF Init, AnswersAccountedFor, AnsweredAgainOnlyByRework
<1>5. HandoffsAccountedFor
    BY DEF Init, HandoffsAccountedFor
<1> QED
    BY <1>2, <1>3, <1>4, <1>5 DEF ReworkInv

(* Every step keeps overlaps seen and work accounted for.                  *)
LEMMA NextReworkInv ==
    ASSUME WebhookInv, ReworkInv, [Next]_vars
    PROVE  ReworkInv'
<1>1. ASSUME NEW d \in Delivery, NEW arrival \in Arrival, Receive(d, arrival)
      PROVE  ReworkInv'
    <2>1. UNCHANGED << processed, session, handoffs, answered, overlapped, interrupted >>
        BY <1>1 DEF Receive, store
    <2> QED
        BY <1>1, <2>1, Receives, NobodyMoves, InvIsShape
<1>2. CASE Turn
    <2>1. PICK w \in Tasks : Work(w)
        BY <1>2, TurnIsWork, InvIsShape
    <2> QED
        BY <2>1, CheckDuplicateRework, LoadDuplicateSessionRework, LoadSessionRework,
           WritesRework, SaveSessionRework, MarkProcessedRework DEF Work
<1>3. ASSUME NEW w \in Tasks, NEW accepted \in BOOLEAN, SendResolves(w, accepted)
      PROVE  ReworkInv'
    BY <1>3, SendResolvesRework
<1>4. ASSUME NEW d \in Delivery, Respond(d)
      PROVE  ReworkInv'
    <2>1. UNCHANGED << processed, session, handoffs, answered, overlapped, interrupted >>
        BY <1>4 DEF Respond, store
    <2> QED
        BY <1>4, <2>1, RespondMoves, NobodyMoves, InvIsShape
<1>5. ASSUME NEW m \in Message, handleCloseWhatsAppHandoff(m)
      PROVE  ReworkInv'
    <2>1. /\ DOMAIN handoffs' = DOMAIN handoffs
          /\ UNCHANGED << processed, session, answered, overlapped, interrupted >>
        BY <1>5 DEF handleCloseWhatsAppHandoff
    <2> QED
        BY <1>5, <2>1, CloseMoves, NobodyMoves
<1>6. CASE UNCHANGED vars
    <2>1. UNCHANGED << processed, session, handoffs, del, answered, overlapped,
                       interrupted >>
        BY <1>6 DEF vars, store
    <2>2. Tasks' = Tasks /\ \A v \in Tasks : Rests(v)
        BY <2>1 DEF Tasks, Open, Rests, MsgOf, TaskAt, SessionOf
    <2> QED
        BY <2>1, <2>2, NobodyMoves
<1> QED
    BY <1>1, <1>2, <1>3, <1>4, <1>5, <1>6, StoreThrowsRework, CrashRework DEF Next

(* Every overlap is seen, no turn goes missing without one, and whatever   *)
(* was done for a message was done once, unless there is an excuse.        *)
THEOREM ReworkInvariant == Spec => []ReworkInv
<1>1. Init => ReworkInv
    BY InitReworkInv
<1>2. WebhookInv /\ ReworkInv /\ [Next]_vars => ReworkInv'
    BY NextReworkInv
<1> QED
    BY <1>1, <1>2, WebhookInvariant, PTL DEF Spec

(* Whatever is received, fails or crashes, saveSession drops a processed   *)
(* turn only after two callbacks worked for the customer at a time.        *)
THEOREM TurnsOnlyLostByOverlap == Spec => []TurnsLostOnlyByOverlap
<1>1. ReworkInv => TurnsLostOnlyByOverlap
    BY DEF ReworkInv
<1> QED
    BY <1>1, ReworkInvariant, PTL

(* send is called a second time for a message only after an overlap, a     *)
(* burst that was cut off or a store that died with its process.           *)
THEOREM AnswersOnlyByRework == Spec => []AnsweredAgainOnlyByRework
<1>1. ReworkInv => AnsweredAgainOnlyByRework
    BY DEF ReworkInv
<1> QED
    BY <1>1, ReworkInvariant, PTL

(* Only saveHandoff puts a closed record back to open, and it comes to a   *)
(* record that is there already only when the message is worked on again.  *)
LEMMA StepReopens ==
    ASSUME WebhookInv, ReworkInv, [Next]_vars, NEW m \in DOMAIN handoffs,
           m \in handleListWhatsAppHandoffs', handoffs[m] = "closed"
    PROVE  Reworked(m)
<1>0. handoffs' # handoffs /\ m \in DOMAIN handoffs' /\ handoffs'[m] = "open"
    BY DEF handleListWhatsAppHandoffs
<1>1. \A d \in Delivery, arrival \in Arrival : ~ Receive(d, arrival)
    BY <1>0 DEF Receive, store
<1>2. \A w \in Tasks, accepted \in BOOLEAN : ~ SendResolves(w, accepted)
    BY <1>0 DEF SendResolves, store
<1>3. \A d \in Delivery : ~ Respond(d)
    BY <1>0 DEF Respond, store
<1>4. \A n \in Message : ~ handleCloseWhatsAppHandoff(n)
    BY <1>0 DEF handleCloseWhatsAppHandoff
<1>5. ~ StoreThrows /\ ~ Crash /\ ~ UNCHANGED vars
    BY <1>0 DEF StoreThrows, Crash, vars, store
<1>6. PICK w \in Tasks : loop # << >> /\ w = Head(loop) /\ Work(w)
    BY <1>1, <1>2, <1>3, <1>4, <1>5, TurnIsWork, InvIsShape DEF Next
<1>7. SaveHandoff(w)
    BY <1>0, <1>6 DEF Work, CheckDuplicate, LoadDuplicateSession, LoadSession,
                      SaveInboundEvent, SaveOutboundEvent, SaveHandoffEvent, SaveEvent,
                      SaveSession, SaveEvidence, MarkProcessed, store
<1>8. MsgOf(w) = m /\ TaskAt(w) = "handoff"
    BY <1>0, <1>7 DEF SaveHandoff, Running
<1>9. /\ "handoff" \in WriteSteps /\ AfterHandoff \subseteq WriteSteps
      /\ "handoff" \notin AfterHandoff
    BY DEF WriteSteps, StoreSteps, AfterHandoff
<1>10. CASE m \in processed
    BY <1>8, <1>9, <1>10 DEF ReworkInv, WorkIsFresh
<1>11. CASE \E v \in Tasks : MsgOf(v) = m /\ TaskAt(v) \in AfterHandoff
    <2>1. PICK v \in Tasks : MsgOf(v) = m /\ TaskAt(v) \in AfterHandoff
        BY <1>11
    <2>2. v \in Working /\ w \in Working /\ v # w /\ CustOf(v) = CustOf(w)
        BY <1>8, <1>9, <2>1 DEF Working, CustOf
    <2> QED
        BY <1>8, <2>2 DEF ReworkInv, OverlapsSeen, Reworked, CustOf
<1> QED
    BY <1>10, <1>11 DEF ReworkInv, HandoffsAccountedFor, DoneBy

(* A handoff an operator closed (handleCloseWhatsAppHandoff) is listed as  *)
(* open again only when its message is worked on a second time.            *)
THEOREM ReopensOnlyByRework == Spec => ReopenedOnlyByRework
<1>1. WebhookInv /\ ReworkInv /\ [Next]_vars =>
        [\A m \in DOMAIN handoffs :
            (m \in handleListWhatsAppHandoffs' /\ handoffs[m] = "closed")
                => CustomerOf[m] \in overlapped \/ m \in interrupted]_vars
    BY StepReopens DEF Reworked
<1> QED
    BY <1>1, WebhookInvariant, ReworkInvariant, PTL DEF Spec, ReopenedOnlyByRework

-----------------------------------------------------------------------------
(* The transcript.                                                         *)

Inbound(m) == << m, "inbound" >>
Outbound(m) == << m, "outbound" >>
Handoff(m) == << m, "handoff" >>

(* m's burst has come to an event of m that others follow.                 *)
Burst(m) == InBurst(m, UntilOutbound) \/ InBurst(m, UntilHandoff)

(* What holds of the events of a message outside its burst.                *)
Placed(m) ==
    /\ Adjacent(Inbound(m), Outbound(m)) /\ Adjacent(Outbound(m), Handoff(m))
    /\ Inbound(m) \in DOMAIN events => Outbound(m) \in DOMAIN events \/ m \in interrupted
    /\ (Outbound(m) \in DOMAIN events /\ m \in HandoffMessage) =>
          Handoff(m) \in DOMAIN events \/ m \in interrupted
    /\ Handoff(m) \in DOMAIN events => m \in HandoffMessage

(* Outside its burst nothing excuses an event out of its place.            *)
LEMMA QuietIsPlaced ==
    ASSUME NEW m, ~ Burst(m)
    PROVE  Transcribed(m) <=> Placed(m)
<1>1. ~ InBurst(m, UntilOutbound) /\ ~ InBurst(m, UntilHandoff)
      /\ ~ InBurst(m, UntilOutbound \cup UntilHandoff)
    BY DEF Burst, InBurst
<1> QED
    BY <1>1 DEF Transcribed, Placed, Inbound, Outbound, Handoff

(* Away from the statements of a burst no message is in its burst.         *)
LEMMA NoBurstIsQuiet ==
    ASSUME NoBurst, NEW m
    PROVE  ~ Burst(m)
BY DEF NoBurst, Burst, InBurst, UntilOutbound, UntilHandoff

(* Only the message of the callback that runs is in its burst.             *)
LEMMA QuietAt ==
    ASSUME NEW w, loop # << >>, w = Head(loop), NEW m,
           MsgOf(w) # m \/ TaskAt(w) \notin UntilOutbound \cup UntilHandoff
    PROVE  ~ Burst(m)
BY DEF Burst, InBurst

(* Which message's burst it is, and where, is up to the callback that runs. *)
LEMMA BurstAfter ==
    ASSUME NEW w \in Tasks, NEW step, Moves(w, step), loop' # << >>, Head(loop') = w,
           NEW m, NEW steps
    PROVE  InBurst(m, steps)' <=> MsgOf(w) = m /\ step \in steps
<1>1. MsgOf(w)' = MsgOf(w) /\ TaskAt(w)' = step
    BY DEF Moves
<1> QED
    BY <1>1 DEF InBurst, MsgOf, TaskAt

(* The events of a message stay in place while none is stored.             *)
LEMMA PlacedStays ==
    ASSUME NEW m, Placed(m), events' = events, interrupted \subseteq interrupted'
    PROVE  Placed(m)'
BY DEF Placed, Adjacent, Inbound, Outbound, Handoff

(* Storing an event does not come between two events of another message,   *)
(* nor between two of its own.                                             *)
LEMMA AdjacentStays ==
    ASSUME StoreTypeOK, HasLast, NEW event \in ConversationEvent,
           events' = Stored(event), NEW e, NEW f, e # event, f # event,
           Adjacent(e, f), interrupted' = interrupted
    PROVE  Adjacent(e, f)'
<1>1. /\ DOMAIN events' = DOMAIN events \cup {event}
      /\ events' \in [DOMAIN events' -> Nat]
      /\ \A x \in DOMAIN events : x # event => events'[x] = events[x]
      /\ \/ \A x \in DOMAIN events : events[x] < events'[event]
         \/ events' = events
    BY StoredRow
<1>2. \A x \in DOMAIN events : events[x] \in Nat
    BY DEF StoreTypeOK
<1>3. \A x \in DOMAIN events' : events'[x] \in Nat
    BY <1>1
<1> SUFFICES ASSUME f \in DOMAIN events'
             PROVE  /\ e \in DOMAIN events' /\ events'[e] < events'[f]
                    /\ e[1] \notin interrupted =>
                         ~ \E g \in DOMAIN events' :
                               events'[e] < events'[g] /\ events'[g] < events'[f]
    BY DEF Adjacent
<1>4. f \in DOMAIN events /\ e \in DOMAIN events
      /\ events'[f] = events[f] /\ events'[e] = events[e] /\ events[e] < events[f]
    BY <1>1 DEF Adjacent
<1>5. ASSUME e[1] \notin interrupted, NEW g \in DOMAIN events',
             events'[e] < events'[g], events'[g] < events'[f]
      PROVE  FALSE
    <2>1. CASE g # event
        BY <1>1, <1>4, <1>5, <2>1 DEF Adjacent
    <2>2. CASE g = event /\ \A x \in DOMAIN events : events[x] < events'[event]
        BY <1>2, <1>3, <1>4, <1>5, <2>2
    <2>3. CASE events' = events
        BY <1>4, <1>5, <2>3 DEF Adjacent
    <2> QED
        BY <1>1, <2>1, <2>2, <2>3
<1> QED
    BY <1>1, <1>4, <1>5

(* Storing an event of one message leaves the others in place.             *)
LEMMA OthersStayPlaced ==
    ASSUME StoreTypeOK, HasLast, NEW n \in Message, NEW kind \in {"inbound", "outbound", "handoff"},
           events' = Stored(<< n, kind >>), interrupted' = interrupted,
           NEW m, m # n, Placed(m)
    PROVE  Placed(m)'
<1> DEFINE event == << n, kind >>
<1>1. event \in ConversationEvent
    BY DEF ConversationEvent
<1>2. Inbound(m) # event /\ Outbound(m) # event /\ Handoff(m) # event
    BY DEF Inbound, Outbound, Handoff
<1>3. DOMAIN events' = DOMAIN events \cup {event}
    BY <1>1, StoredRow
<1> HIDE DEF event
<1>e. events' = Stored(event)
    BY DEF event
<1>4. Adjacent(Inbound(m), Outbound(m))'
    <2>1. Adjacent(Inbound(m), Outbound(m))
        BY DEF Placed
    <2>2. PICK e, f : e = Inbound(m) /\ f = Outbound(m)
        OBVIOUS
    <2>3. Adjacent(e, f)'
        BY <1>1, <1>2, <1>e, <2>1, <2>2, AdjacentStays
    <2> QED
        BY <2>2, <2>3 DEF Inbound, Outbound
<1>5. Adjacent(Outbound(m), Handoff(m))'
    <2>1. Adjacent(Outbound(m), Handoff(m))
        BY DEF Placed
    <2>2. PICK e, f : e = Outbound(m) /\ f = Handoff(m)
        OBVIOUS
    <2>3. Adjacent(e, f)'
        BY <1>1, <1>2, <1>e, <2>1, <2>2, AdjacentStays
    <2> QED
        BY <2>2, <2>3 DEF Handoff, Outbound
<1> QED
    BY <1>2, <1>3, <1>4, <1>5 DEF Placed, Inbound, Outbound, Handoff

(* The row of an event that was stored at the end comes after every other. *)
LEMMA StoredLast ==
    ASSUME StoreTypeOK, HasLast, NEW event \in ConversationEvent,
           events' = Stored(event),
           mode.store = "memory" \/ event \notin DOMAIN events
    PROVE  IsLast(event)'
<1>1. /\ DOMAIN events' = DOMAIN events \cup {event}
      /\ events' \in [DOMAIN events' -> Nat]
      /\ \A x \in DOMAIN events : x # event => events'[x] = events[x]
      /\ \A x \in DOMAIN events : events[x] < events'[event]
    BY StoredRow
<1>2. \A x \in DOMAIN events : events[x] \in Nat
    BY DEF StoreTypeOK
<1>3. \A x \in DOMAIN events' : events'[x] \in Nat
    BY <1>1
<1> QED
    BY <1>1, <1>2, <1>3 DEF IsLast

(* An event stored after the last one stands next to it.                   *)
LEMMA StoredNext ==
    ASSUME StoreTypeOK, HasLast, NEW f \in ConversationEvent,
           events' = Stored(f), mode.store = "memory" \/ f \notin DOMAIN events,
           NEW e \in DOMAIN events, e # f, interrupted' = interrupted,
           IsLast(e) \/ e[1] \in interrupted
    PROVE  Adjacent(e, f)'
<1>1. /\ DOMAIN events' = DOMAIN events \cup {f}
      /\ events' \in [DOMAIN events' -> Nat]
      /\ \A x \in DOMAIN events : x # f => events'[x] = events[x]
      /\ \A x \in DOMAIN events : events[x] < events'[f]
    BY StoredRow
<1>2. \A x \in DOMAIN events : events[x] \in Nat
    BY DEF StoreTypeOK
<1>3. \A x \in DOMAIN events' : events'[x] \in Nat
    BY <1>1
<1>4. e \in DOMAIN events' /\ events'[e] = events[e] /\ events'[e] < events'[f]
    BY <1>1
<1>5. ASSUME e[1] \notin interrupted, NEW g \in DOMAIN events',
             events'[e] < events'[g], events'[g] < events'[f]
      PROVE  FALSE
    <2>1. g # f
        BY <1>3, <1>5
    <2>2. g \in DOMAIN events /\ events'[g] = events[g] /\ events[g] <= events[e]
        BY <1>1, <1>5, <2>1 DEF IsLast
    <2> QED
        BY <1>2, <1>4, <1>5, <2>2
<1> QED
    BY <1>4, <1>5 DEF Adjacent

(* saveConversationEvent of the message that came in.                      *)
LEMMA SaveInboundTranscribed ==
    ASSUME WebhookInv, NEW w, SaveInboundEvent(w), NEW m, m = MsgOf(w), Transcribed(m)
    PROVE  Transcribed(m)'
<1> DEFINE i == << m, "inbound" >>
           o == << m, "outbound" >>
           h == << m, "handoff" >>
<1>1. /\ Running(w, "inbound") /\ Proceed(w, "outbound")
      /\ events' = Stored(i)
      /\ mode' = mode /\ interrupted' = interrupted
    BY DEF SaveInboundEvent, SaveEvent
<1>2. /\ w \in Tasks /\ TaskAt(w) = "inbound" /\ Moves(w, "outbound")
      /\ loop # << >> /\ w = Head(loop) /\ loop' # << >> /\ Head(loop') = w
    BY <1>1, Proceeds, InvIsShape DEF StoreSteps
<1>3. i \in ConversationEvent /\ StoreTypeOK /\ HasLast
    BY <1>2, InvIsShape, TaskTypes DEF Shape, ConversationEvent
<1>4. Placed(m)
    <2>1. ~ Burst(m)
        BY <1>2, QuietAt DEF UntilOutbound, UntilHandoff
    <2> QED
        BY <2>1, QuietIsPlaced
<1>5. /\ Adjacent(i, o) /\ Adjacent(o, h)
      /\ i \in DOMAIN events => o \in DOMAIN events \/ m \in interrupted
      /\ (o \in DOMAIN events /\ m \in HandoffMessage) =>
            h \in DOMAIN events \/ m \in interrupted
      /\ h \in DOMAIN events => m \in HandoffMessage
    BY <1>4 DEF Placed, Inbound, Outbound, Handoff
<1>6. /\ \A steps : InBurst(m, steps)' <=> "outbound" \in steps
    BY <1>2, BurstAfter
<1>7. /\ InBurst(m, UntilOutbound)' /\ InBurst(m, UntilOutbound \cup UntilHandoff)'
      /\ ~ InBurst(m, UntilHandoff)'
    BY <1>6 DEF UntilOutbound, UntilHandoff
<1>8. i # o /\ i # h /\ o # h /\ i[1] = m
    OBVIOUS
<1> HIDE DEF i, o, h
<1>9. DOMAIN events' = DOMAIN events \cup {i}
    BY <1>1, <1>3, StoredRow
<1>10. CASE mode.store = "memory"
    <2>1. IsLast(i)'
        BY <1>1, <1>3, <1>10, StoredLast
    <2>2. Leads(i, o)'
        BY <1>9, <2>1 DEF Leads, IsLast
    <2> QED
        BY <1>1, <1>5, <1>7, <1>8, <1>9, <1>10, <2>2 DEF Transcribed, i, o, h
<1>11. CASE mode.store # "memory" /\ i \notin DOMAIN events
    <2>1. o \notin DOMAIN events /\ h \notin DOMAIN events
        BY <1>5, <1>11 DEF Adjacent
    <2>2. Adjacent(i, o)' /\ Adjacent(o, h)'
        BY <1>8, <1>9, <2>1 DEF Adjacent
    <2>3. IsLast(i)'
        BY <1>1, <1>3, <1>11, StoredLast
    <2>4. Leads(i, o)'
        BY <1>9, <2>3 DEF Leads, IsLast
    <2> QED
        BY <1>5, <1>7, <1>8, <1>9, <2>1, <2>2, <2>4 DEF Transcribed, i, o, h
<1>12. CASE mode.store # "memory" /\ i \in DOMAIN events
    <2>1. events' = events
        BY <1>1, <1>3, <1>12, StoredRow
    <2>2. Adjacent(i, o)' /\ Adjacent(o, h)'
        BY <1>1, <1>5, <2>1 DEF Adjacent
    <2>3. Leads(i, o)'
        BY <1>1, <1>5, <1>8, <1>12, <2>1 DEF Leads
    <2> QED
        BY <1>1, <1>5, <1>7, <2>1, <2>2, <2>3 DEF Transcribed, i, o, h
<1> QED
    BY <1>10, <1>11, <1>12

(* saveConversationEvent of the answer.                                    *)
LEMMA SaveOutboundTranscribed ==
    ASSUME WebhookInv, NEW w, SaveOutboundEvent(w), NEW m, m = MsgOf(w), Transcribed(m)
    PROVE  Transcribed(m)'
<1> DEFINE i == << m, "inbound" >>
           o == << m, "outbound" >>
           h == << m, "handoff" >>
<1>1. /\ Running(w, "outbound") /\ Proceed(w, "session")
      /\ events' = Stored(o)
      /\ mode' = mode /\ interrupted' = interrupted
    BY DEF SaveOutboundEvent, SaveEvent
<1>2. /\ w \in Tasks /\ TaskAt(w) = "outbound" /\ Moves(w, "session")
      /\ loop # << >> /\ w = Head(loop) /\ loop' # << >> /\ Head(loop') = w
    BY <1>1, Proceeds, InvIsShape DEF StoreSteps
<1>3. o \in ConversationEvent /\ StoreTypeOK /\ HasLast
    BY <1>2, InvIsShape, TaskTypes DEF Shape, ConversationEvent
<1>4. InBurst(m, UntilOutbound) /\ ~ InBurst(m, UntilHandoff)
    BY <1>2 DEF InBurst, UntilOutbound, UntilHandoff
<1>5. /\ Adjacent(i, o) \/ mode.store = "memory"
      /\ Adjacent(o, h) \/ mode.store = "memory"
      /\ Leads(i, o)
      /\ (o \in DOMAIN events /\ m \in HandoffMessage) =>
            h \in DOMAIN events \/ m \in interrupted
      /\ h \in DOMAIN events => m \in HandoffMessage
    BY <1>4 DEF Transcribed
<1>6. \A steps : InBurst(m, steps)' <=> "session" \in steps
    BY <1>2, BurstAfter
<1>7. /\ InBurst(m, UntilHandoff)' /\ InBurst(m, UntilOutbound \cup UntilHandoff)'
      /\ ~ InBurst(m, UntilOutbound)'
    BY <1>6 DEF UntilOutbound, UntilHandoff
<1>8. i # o /\ i # h /\ o # h /\ i[1] = m /\ o[1] = m
    OBVIOUS
<1> HIDE DEF i, o, h
<1>9. DOMAIN events' = DOMAIN events \cup {o} /\ i \in DOMAIN events
    BY <1>1, <1>3, <1>5, StoredRow DEF Leads
<1>10. CASE mode.store = "memory" \/ o \notin DOMAIN events
    <2>1. IsLast(i) \/ m \in interrupted
        BY <1>5, <1>10 DEF Leads, i
    <2>2. Adjacent(i, o)'
        BY <1>1, <1>3, <1>8, <1>9, <1>10, <2>1, StoredNext
    <2>3. IsLast(o)'
        BY <1>1, <1>3, <1>10, StoredLast
    <2>4. Leads(o, h)'
        BY <1>9, <2>3 DEF Leads, IsLast
    <2>5. Adjacent(o, h)' \/ mode'.store = "memory"
        <3>1. CASE mode.store = "memory"
            BY <1>1, <3>1
        <3>2. CASE mode.store # "memory"
            <4>1. h \notin DOMAIN events'
                BY <1>5, <1>8, <1>9, <1>10, <3>2 DEF Adjacent
            <4> QED
                BY <4>1 DEF Adjacent
        <3> QED
            BY <3>1, <3>2
    <2>6. h \in DOMAIN events' => m \in HandoffMessage
        BY <1>5, <1>8, <1>9
    <2> QED
        BY <1>7, <1>9, <2>2, <2>4, <2>5, <2>6 DEF Transcribed, i, o, h
<1>11. CASE mode.store # "memory" /\ o \in DOMAIN events
    <2>1. events' = events
        BY <1>1, <1>3, <1>11, StoredRow
    <2>2. Adjacent(i, o)' /\ Adjacent(o, h)'
        BY <1>1, <1>5, <1>11, <2>1 DEF Adjacent
    <2>3. m \in HandoffMessage => Leads(o, h)'
        BY <1>1, <1>5, <1>8, <1>11, <2>1 DEF Leads
    <2> QED
        BY <1>1, <1>5, <1>7, <1>11, <2>1, <2>2, <2>3 DEF Transcribed, i, o, h
<1> QED
    BY <1>10, <1>11

(* saveConversationEvent of the handoff.                                   *)
LEMMA SaveHandoffEventTranscribed ==
    ASSUME WebhookInv, NEW w, SaveHandoffEvent(w), NEW m, m = MsgOf(w), Transcribed(m)
    PROVE  Transcribed(m)'
<1> DEFINE i == << m, "inbound" >>
           o == << m, "outbound" >>
           h == << m, "handoff" >>
<1>1. /\ Running(w, "handoffEvent") /\ Proceed(w, "mark")
      /\ events' = Stored(h)
      /\ mode' = mode /\ interrupted' = interrupted
    BY DEF SaveHandoffEvent, SaveEvent
<1>2. /\ w \in Tasks /\ TaskAt(w) = "handoffEvent" /\ Moves(w, "mark")
      /\ loop # << >> /\ w = Head(loop) /\ loop' # << >> /\ Head(loop') = w
    BY <1>1, Proceeds, InvIsShape DEF StoreSteps
<1>3. h \in ConversationEvent /\ StoreTypeOK /\ HasLast
    BY <1>2, InvIsShape, TaskTypes DEF Shape, ConversationEvent
<1>m. m \in HandoffMessage
    BY <1>2 DEF WebhookInv, WorkStored
<1>4. InBurst(m, UntilHandoff) /\ ~ InBurst(m, UntilOutbound)
    BY <1>2 DEF InBurst, UntilOutbound, UntilHandoff
<1>5. /\ Adjacent(i, o)
      /\ Adjacent(o, h) \/ mode.store = "memory"
      /\ Leads(o, h)
      /\ i \in DOMAIN events => o \in DOMAIN events \/ m \in interrupted
    BY <1>4, <1>m DEF Transcribed
<1>6. \A steps : InBurst(m, steps)' <=> "mark" \in steps
    BY <1>2, BurstAfter
<1>7. /\ ~ InBurst(m, UntilHandoff)' /\ ~ InBurst(m, UntilOutbound \cup UntilHandoff)'
      /\ ~ InBurst(m, UntilOutbound)'
    BY <1>6 DEF UntilOutbound, UntilHandoff
<1>8. i # o /\ i # h /\ o # h /\ i[1] = m /\ o[1] = m
    OBVIOUS
<1> HIDE DEF i, o, h
<1>9. DOMAIN events' = DOMAIN events \cup {h} /\ o \in DOMAIN events
    BY <1>1, <1>3, <1>5, StoredRow DEF Leads
<1>10. Adjacent(i, o)'
    BY <1>1, <1>3, <1>5, <1>8, AdjacentStays
<1>11. Adjacent(o, h)'
    <2>1. CASE mode.store = "memory" \/ h \notin DOMAIN events
        <3>1. IsLast(o) \/ m \in interrupted
            BY <1>5, <2>1 DEF Leads, o
        <3> QED
            BY <1>1, <1>3, <1>8, <1>9, <2>1, <3>1, StoredNext
    <2>2. CASE mode.store # "memory" /\ h \in DOMAIN events
        <3>1. events' = events
            BY <1>1, <1>3, <2>2, StoredRow
        <3> QED
            BY <1>1, <1>5, <2>2, <3>1 DEF Adjacent
    <2> QED
        BY <2>1, <2>2
<1> QED
    BY <1>1, <1>5, <1>7, <1>8, <1>9, <1>10, <1>11, <1>m DEF Transcribed, i, o, h

(* The writes between the answer and the handoff event.                    *)
LEMMA BetweenTranscribed ==
    ASSUME WebhookInv, NEW w, NEW from \in UntilHandoff, Running(w, from),
           NEW step \in UntilHandoff \cup {"mark"}, Proceed(w, step),
           step = "mark" => MsgOf(w) \notin HandoffMessage,
           UNCHANGED << mode, events, interrupted >>,
           NEW m, m = MsgOf(w), Transcribed(m)
    PROVE  Transcribed(m)'
<1> DEFINE i == << m, "inbound" >>
           o == << m, "outbound" >>
           h == << m, "handoff" >>
<1>1. step \in StoreSteps
    BY DEF UntilHandoff, StoreSteps
<1>2. /\ w \in Tasks /\ TaskAt(w) = from /\ Moves(w, step)
      /\ loop # << >> /\ w = Head(loop) /\ loop' # << >> /\ Head(loop') = w
    BY <1>1, Proceeds, InvIsShape
<1>4. InBurst(m, UntilHandoff) /\ ~ InBurst(m, UntilOutbound)
    BY <1>2 DEF InBurst, UntilOutbound, UntilHandoff
<1>5. /\ Adjacent(i, o)
      /\ Adjacent(o, h) \/ mode.store = "memory"
      /\ m \in HandoffMessage => Leads(o, h)
      /\ i \in DOMAIN events => o \in DOMAIN events \/ m \in interrupted
      /\ h \in DOMAIN events => m \in HandoffMessage
    BY <1>4 DEF Transcribed
<1>6. \A steps : InBurst(m, steps)' <=> step \in steps
    BY <1>2, BurstAfter
<1> HIDE DEF i, o, h
<1>7. Adjacent(i, o)' /\ (Adjacent(o, h) => Adjacent(o, h)') /\ (Leads(o, h) => Leads(o, h)')
    <2>1. Adjacent(i, o)'
        BY <1>5 DEF Adjacent
    <2>2. Adjacent(o, h) => Adjacent(o, h)'
        BY DEF Adjacent
    <2>3. Leads(o, h) => Leads(o, h)'
        BY DEF Leads, IsLast
    <2> QED
        BY <2>1, <2>2, <2>3
<1>8. ~ InBurst(m, UntilOutbound)'
    BY <1>6 DEF UntilOutbound, UntilHandoff
<1>9. CASE step \in UntilHandoff
    <2>1. InBurst(m, UntilHandoff)' /\ InBurst(m, UntilOutbound \cup UntilHandoff)'
        BY <1>6, <1>9
    <2> QED
        BY <1>5, <1>7, <1>8, <2>1 DEF Transcribed, i, o, h
<1>10. CASE step = "mark"
    <2>1. ~ InBurst(m, UntilHandoff)' /\ ~ InBurst(m, UntilOutbound \cup UntilHandoff)'
        BY <1>6, <1>10 DEF UntilOutbound, UntilHandoff
    <2>2. m \notin HandoffMessage /\ h \notin DOMAIN events
        BY <1>5, <1>10
    <2>3. Adjacent(o, h)'
        BY <2>2 DEF Adjacent
    <2> QED
        BY <1>5, <1>7, <1>8, <2>1, <2>2, <2>3 DEF Transcribed, i, o, h
<1> QED
    BY <1>9, <1>10

(* Nothing is stored and no burst runs before the step or after it.        *)
LEMMA QuietStep ==
    ASSUME TranscriptInv, events' = events, interrupted \subseteq interrupted',
           NEW m \in Message, ~ Burst(m), ~ Burst(m)'
    PROVE  Transcribed(m)'
<1>1. Placed(m)
    BY QuietIsPlaced DEF TranscriptInv
<1>2. Placed(m)'
    BY <1>1, PlacedStays
<1> QED
    BY <1>2, QuietIsPlaced, PTL

(* Outside its burst a message's events are in place.                      *)
LEMMA QuietAfter ==
    ASSUME NEW m, ~ Burst(m)', Placed(m)'
    PROVE  Transcribed(m)'
BY QuietIsPlaced, PTL

(* A burst goes on: the other messages stay where they are.                *)
LEMMA OthersTranscribed ==
    ASSUME WebhookInv, TranscriptInv, NEW w, NEW from, Running(w, from),
           NEW step \in StoreSteps, Proceed(w, step), interrupted' = interrupted,
           \/ events' = events
           \/ \E kind \in {"inbound", "outbound", "handoff"} :
                 events' = Stored(<< MsgOf(w), kind >>),
           NEW m \in Message, m # MsgOf(w)
    PROVE  Transcribed(m)'
<1>1. /\ w \in Tasks /\ Moves(w, step)
      /\ loop # << >> /\ w = Head(loop) /\ loop' # << >> /\ Head(loop') = w
    BY Proceeds, InvIsShape
<1>2. Placed(m)
    <2>1. ~ Burst(m)
        BY <1>1, QuietAt
    <2> QED
        BY <2>1, QuietIsPlaced DEF TranscriptInv
<1>3. ~ Burst(m)'
    <2>1. \A steps : ~ InBurst(m, steps)'
        BY <1>1, BurstAfter
    <2> QED
        BY <2>1 DEF Burst, UntilOutbound, UntilHandoff
<1>4. Placed(m)'
    <2>1. CASE events' = events
        BY <1>2, <2>1, PlacedStays
    <2>2. CASE \E kind \in {"inbound", "outbound", "handoff"} :
                  events' = Stored(<< MsgOf(w), kind >>)
        <3>1. MsgOf(w) \in Message /\ StoreTypeOK /\ HasLast
            BY <1>1, InvIsShape, TaskTypes DEF Shape
        <3> QED
            BY <1>2, <2>2, <3>1, OthersStayPlaced
    <2> QED
        BY <2>1, <2>2
<1> QED
    BY <1>3, <1>4, QuietAfter

(* The writes of a burst, each for its own message and for the others.     *)
LEMMA WritesTranscribed ==
    ASSUME WebhookInv, TranscriptInv, NEW w,
           \/ SaveInboundEvent(w) \/ SaveOutboundEvent(w) \/ SaveHandoffEvent(w)
           \/ SaveSession(w) \/ SaveEvidence(w) \/ SaveHandoff(w),
           NEW m \in Message
    PROVE  Transcribed(m)'
<1>0. Transcribed(m)
    BY DEF TranscriptInv
<1>1. CASE SaveInboundEvent(w)
    <2>1. /\ Running(w, "inbound") /\ Proceed(w, "outbound") /\ "outbound" \in StoreSteps
          /\ events' = Stored(<< MsgOf(w), "inbound" >>) /\ interrupted' = interrupted
        BY <1>1 DEF SaveInboundEvent, SaveEvent, StoreSteps
    <2> QED
        BY <1>0, <1>1, <2>1, SaveInboundTranscribed, OthersTranscribed
<1>2. CASE SaveOutboundEvent(w)
    <2>1. /\ Running(w, "outbound") /\ Proceed(w, "session") /\ "session" \in StoreSteps
          /\ events' = Stored(<< MsgOf(w), "outbound" >>) /\ interrupted' = interrupted
        BY <1>2 DEF SaveOutboundEvent, SaveEvent, StoreSteps
    <2> QED
        BY <1>0, <1>2, <2>1, SaveOutboundTranscribed, OthersTranscribed
<1>3. CASE SaveHandoffEvent(w)
    <2>1. /\ Running(w, "handoffEvent") /\ Proceed(w, "mark") /\ "mark" \in StoreSteps
          /\ events' = Stored(<< MsgOf(w), "handoff" >>) /\ interrupted' = interrupted
        BY <1>3 DEF SaveHandoffEvent, SaveEvent, StoreSteps
    <2> QED
        BY <1>0, <1>3, <2>1, SaveHandoffEventTranscribed, OthersTranscribed
<1>4. CASE SaveSession(w)
    <2>1. /\ Running(w, "session") /\ Proceed(w, "evidence") /\ "evidence" \in StoreSteps
          /\ "session" \in UntilHandoff /\ "evidence" \in UntilHandoff
          /\ UNCHANGED << mode, events, interrupted >>
        BY <1>4 DEF SaveSession, StoreSteps, UntilHandoff
    <2> QED
        BY <1>0, <2>1, BetweenTranscribed, OthersTranscribed
<1>5. CASE SaveEvidence(w)
    <2>1. PICK step \in {"handoff", "mark"} :
             Proceed(w, step) /\ (step = "mark" => MsgOf(w) \notin HandoffMessage)
        BY <1>5 DEF SaveEvidence
    <2>2. /\ Running(w, "evidence") /\ "evidence" \in UntilHandoff
          /\ step \in StoreSteps /\ step \in UntilHandoff \cup {"mark"}
          /\ UNCHANGED << mode, events, interrupted >>
        BY <1>5, <2>1 DEF SaveEvidence, StoreSteps, UntilHandoff
    <2> QED
        BY <1>0, <2>1, <2>2, BetweenTranscribed, OthersTranscribed
<1>6. CASE SaveHandoff(w)
    <2>1. /\ Running(w, "handoff") /\ Proceed(w, "handoffEvent")
          /\ "handoffEvent" \in StoreSteps
          /\ "handoff" \in UntilHandoff /\ "handoffEvent" \in UntilHandoff
          /\ UNCHANGED << mode, events, interrupted >>
        BY <1>6 DEF SaveHandoff, StoreSteps, UntilHandoff
    <2> QED
        BY <1>0, <2>1, BetweenTranscribed, OthersTranscribed
<1> QED
    BY <1>1, <1>2, <1>3, <1>4, <1>5, <1>6

(* The other steps of a callback run outside a burst.                      *)
LEMMA ReadsTranscribed ==
    ASSUME WebhookInv, TranscriptInv, NEW w,
           \/ CheckDuplicate(w) \/ LoadDuplicateSession(w) \/ LoadSession(w)
           \/ MarkProcessed(w),
           NEW m \in Message
    PROVE  Transcribed(m)'
<1>1. events' = events /\ interrupted' = interrupted
    BY DEF CheckDuplicate, LoadDuplicateSession, LoadSession, MarkProcessed, store
<1>2. ~ Burst(m)
    <2>1. /\ loop # << >> /\ w = Head(loop)
          /\ TaskAt(w) \in {"dedupe", "duplicateSession", "load", "mark"}
        BY DEF CheckDuplicate, LoadDuplicateSession, LoadSession, MarkProcessed, Running
    <2> QED
        BY <2>1, QuietAt DEF UntilOutbound, UntilHandoff
<1>3. CASE CheckDuplicate(w)
    <2>1. PICK step \in {"duplicateSession", "load"} : Proceed(w, step)
        BY <1>3 DEF CheckDuplicate
    <2>2. step \in StoreSteps /\ Running(w, "dedupe")
        BY <1>3, <2>1 DEF CheckDuplicate, StoreSteps
    <2>3. /\ w \in Tasks /\ Moves(w, step)
          /\ loop' # << >> /\ Head(loop') = w
        BY <2>1, <2>2, Proceeds, InvIsShape
    <2>4. \A steps : InBurst(m, steps)' => step \in steps
        BY <2>3, BurstAfter
    <2>5. ~ Burst(m)'
        BY <2>1, <2>4 DEF Burst, UntilOutbound, UntilHandoff
    <2> QED
        BY <1>1, <1>2, <2>5, QuietStep
<1>4. CASE NoBurst'
    <2>1. ~ Burst(m)'
        BY <1>4, NoBurstIsQuiet, PTL
    <2> QED
        BY <1>1, <1>2, <2>1, QuietStep
<1>5. LoadDuplicateSession(w) => NoBurst'
    BY Settles, InvIsShape DEF LoadDuplicateSession, Running
<1>6. LoadSession(w) => NoBurst'
    BY Loads, InvIsShape
<1>7. MarkProcessed(w) => NoBurst'
    BY Settles, InvIsShape DEF MarkProcessed, Running
<1> QED
    BY <1>3, <1>4, <1>5, <1>6, <1>7

(* Between turns there is no burst.                                        *)
LEMMA IdleTranscribed ==
    ASSUME TranscriptInv, loop = << >>, NoBurst', events' = events,
           interrupted' = interrupted, NEW m \in Message
    PROVE  Transcribed(m)'
<1>1. ~ Burst(m)
    BY DEF Burst, InBurst
<1>2. ~ Burst(m)'
    BY NoBurstIsQuiet, PTL
<1> QED
    BY <1>1, <1>2, QuietStep

(* A burst that is cut off leaves the events it stored in place; the       *)
(* missing ones are excused.                                               *)
LEMMA CutOffTranscribed ==
    ASSUME TranscriptInv, NoBurst', NEW m \in Message, mode.store # "memory",
           events' = events, interrupted \subseteq interrupted',
           loop # << >> => MsgOf(Head(loop)) \in interrupted'
    PROVE  Transcribed(m)'
<1>1. CASE ~ Burst(m)
    <2>1. ~ Burst(m)'
        BY NoBurstIsQuiet, PTL
    <2> QED
        BY <1>1, <2>1, QuietStep
<1>2. CASE Burst(m)
    <2>1. m \in interrupted'
        BY <1>2 DEF Burst, InBurst
    <2>2. /\ Adjacent(Inbound(m), Outbound(m)) /\ Adjacent(Outbound(m), Handoff(m))
          /\ Handoff(m) \in DOMAIN events => m \in HandoffMessage
        BY DEF TranscriptInv, Transcribed, Inbound, Outbound, Handoff
    <2>3. Placed(m)'
        BY <2>1, <2>2 DEF Placed, Adjacent, Inbound, Outbound, Handoff
    <2>4. ~ Burst(m)'
        BY NoBurstIsQuiet, PTL
    <2> QED
        BY <2>3, <2>4, QuietAfter
<1> QED
    BY <1>1, <1>2

(* A statement of sqlite throws within a burst.                            *)
LEMMA StoreThrowsTranscribed ==
    ASSUME WebhookInv, TranscriptInv, StoreThrows
    PROVE  TranscriptInv'
<1>1. PICK w \in Tasks : w = Head(loop)
    BY DEF StoreThrows, WebhookInv, TypeOK
<1>2. /\ loop # << >> /\ Settle(w, "rejected") /\ mode.store = "sqlite"
      /\ interrupted' = interrupted \cup {MsgOf(w)} /\ events' = events
    BY <1>1 DEF StoreThrows, store
<1>3. NoBurst'
    BY <1>1, <1>2, Settles, InvIsShape
<1>4. MsgOf(Head(loop)) \in interrupted'
    BY <1>1, <1>2
<1> QED
    BY <1>2, <1>3, <1>4, CutOffTranscribed DEF TranscriptInv

(* The process dies within a burst; the store in memory with it.           *)
LEMMA CrashTranscribed ==
    ASSUME WebhookInv, TranscriptInv, Crash
    PROVE  TranscriptInv'
<1>1. NoBurst' /\ (loop # << >> => Head(loop) \in Tasks)
    BY CrashMoves, InvIsShape DEF WebhookInv, TypeOK
<1>2. CASE mode.store # "memory"
    <2>1. events' = events /\ interrupted \subseteq interrupted'
          /\ (loop # << >> => MsgOf(Head(loop)) \in interrupted')
        BY <1>1, <1>2, CrashStore
    <2> QED
        BY <1>1, <1>2, <2>1, CutOffTranscribed DEF TranscriptInv
<1>3. CASE mode.store = "memory"
    <2>1. DOMAIN events' = {}
        BY <1>3, CrashStore
    <2>2. ASSUME NEW m \in Message
          PROVE  Transcribed(m)'
        <3>1. Placed(m)'
            BY <2>1 DEF Placed, Adjacent
        <3>2. ~ Burst(m)'
            BY <1>1, NoBurstIsQuiet, PTL
        <3> QED
            BY <3>1, <3>2, QuietAfter
    <2> QED
        BY <2>2 DEF TranscriptInv
<1> QED
    BY <1>2, <1>3

(* At the start no event is stored.                                        *)
LEMMA InitTranscriptInv == Init => TranscriptInv
<1> SUFFICES ASSUME Init, NEW m \in Message
             PROVE  Transcribed(m)
    BY DEF TranscriptInv
<1>1. DOMAIN events = {} /\ loop = << >>
    BY DEF Init
<1>2. Placed(m) /\ ~ Burst(m)
    BY <1>1 DEF Placed, Adjacent, Burst, InBurst
<1> QED
    BY <1>2, QuietIsPlaced

(* Every step keeps the events in place.                                   *)
LEMMA NextTranscriptInv ==
    ASSUME WebhookInv, TranscriptInv, [Next]_vars
    PROVE  TranscriptInv'
<1>1. ASSUME NEW d \in Delivery, NEW arrival \in Arrival, Receive(d, arrival)
      PROVE  TranscriptInv'
    <2>1. events' = events /\ interrupted' = interrupted
        BY <1>1 DEF Receive, store
    <2>2. loop = << >> /\ NoBurst'
        BY <1>1, Receives, InvIsShape
    <2> QED
        BY <2>1, <2>2, IdleTranscribed DEF TranscriptInv
<1>2. CASE Turn
    <2>1. PICK w \in Tasks : Work(w)
        BY <1>2, TurnIsWork, InvIsShape
    <2>2. \A m \in Message : Transcribed(m)'
        BY <2>1, WritesTranscribed, ReadsTranscribed DEF Work
    <2> QED
        BY <2>2 DEF TranscriptInv
<1>3. ASSUME NEW w \in Tasks, NEW accepted \in BOOLEAN, SendResolves(w, accepted)
      PROVE  TranscriptInv'
    <2>1. events' = events /\ interrupted' = interrupted
        BY <1>3 DEF SendResolves, store
    <2>2. loop = << >> /\ NoBurst'
        BY <1>3, SendResolvesMoves, InvIsShape
    <2> QED
        BY <2>1, <2>2, IdleTranscribed DEF TranscriptInv
<1>4. ASSUME NEW d \in Delivery, Respond(d)
      PROVE  TranscriptInv'
    <2>1. events' = events /\ interrupted' = interrupted
        BY <1>4 DEF Respond, store
    <2>2. loop = << >> /\ NoBurst'
        BY <1>4, RespondMoves, InvIsShape
    <2> QED
        BY <2>1, <2>2, IdleTranscribed DEF TranscriptInv
<1>5. ASSUME NEW m \in Message, handleCloseWhatsAppHandoff(m)
      PROVE  TranscriptInv'
    <2>1. events' = events /\ interrupted' = interrupted /\ loop = << >> /\ loop' = loop
        BY <1>5 DEF handleCloseWhatsAppHandoff, Idle
    <2>2. NoBurst'
        BY <2>1 DEF NoBurst
    <2> QED
        BY <2>1, <2>2, IdleTranscribed DEF TranscriptInv
<1>6. CASE UNCHANGED vars
    <2>1. UNCHANGED << mode, events, del, loop, interrupted >>
        BY <1>6 DEF vars, store
    <2>2. ASSUME NEW m \in Message
          PROVE  Transcribed(m)'
        <3>1. \A steps : InBurst(m, steps)' <=> InBurst(m, steps)
            BY <2>1 DEF InBurst, MsgOf, TaskAt
        <3>2. Transcribed(m)
            BY DEF TranscriptInv
        <3>3. \A e, f : (Adjacent(e, f)' <=> Adjacent(e, f)) /\ (Leads(e, f)' <=> Leads(e, f))
            BY <2>1 DEF Adjacent, Leads, IsLast
        <3> QED
            BY <2>1, <3>1, <3>2, <3>3 DEF Transcribed
    <2> QED
        BY <2>2 DEF TranscriptInv
<1> QED
    BY <1>1, <1>2, <1>3, <1>4, <1>5, <1>6, StoreThrowsTranscribed, CrashTranscribed DEF Next

(* Each event of a message is stored next to the one before it, or the     *)
(* burst was cut off, or it is running and its next statement puts it so.  *)
THEOREM TranscriptInvariant == Spec => []TranscriptInv
<1>1. Init => TranscriptInv
    BY InitTranscriptInv
<1>2. WebhookInv /\ TranscriptInv /\ [Next]_vars => TranscriptInv'
    BY NextTranscriptInv
<1> QED
    BY <1>1, <1>2, WebhookInvariant, PTL DEF Spec

(* Between turns the rows are in turns: also by the time of arrival, which *)
(* is the same for the events of a message.                                *)
LEMMA PlacedInTurns ==
    ASSUME TypeOK, TranscriptInv
    PROVE  TranscriptInTurns
<1> SUFFICES ASSUME loop = << >>, NEW e \in DOMAIN events, e[2] # "inbound"
             PROVE  \E f \in DOMAIN events :
                       /\ f = << e[1], IF e[2] = "handoff" THEN "outbound" ELSE "inbound" >>
                       /\ Before(f, e)
                       /\ e[1] \notin interrupted =>
                            ~ \E g \in DOMAIN events :
                                 /\ CustomerOf[g[1]] = CustomerOf[e[1]]
                                 /\ Before(f, g) /\ Before(g, e)
    BY DEF TranscriptInTurns
<1>0. \A x \in DOMAIN events : events[x] \in Nat
    BY DEF TypeOK, StoreTypeOK
<1>1. e \in Message \X {"inbound", "outbound", "handoff"}
    BY DEF TypeOK, StoreTypeOK, ConversationEvent
<1>2. PICK m \in Message : e = << m, "outbound" >> \/ e = << m, "handoff" >>
    BY <1>1
<1>3. Placed(m)
    BY QuietIsPlaced DEF TranscriptInv, Burst, InBurst
<1>4. PICK f : /\ f = << e[1], IF e[2] = "handoff" THEN "outbound" ELSE "inbound" >>
               /\ f[1] = e[1] /\ e[1] = m
               /\ Adjacent(f, e)
    BY <1>2, <1>3 DEF Placed, Inbound, Outbound, Handoff
<1>5. f \in DOMAIN events /\ events[f] < events[e]
    BY <1>4 DEF Adjacent
<1>6. TimeOf[m] \in Nat /\ \A x \in DOMAIN events : TimeOf[x[1]] \in Nat
    BY WebhookAssumption DEF TypeOK, StoreTypeOK, ConversationEvent
<1>7. Before(f, e)
    BY <1>4, <1>5 DEF Before
<1>8. ASSUME e[1] \notin interrupted, NEW g \in DOMAIN events, Before(f, g), Before(g, e)
      PROVE  FALSE
    <2>1. events[f] < events[g] /\ events[g] < events[e]
        BY <1>4, <1>6, <1>8 DEF Before
    <2> QED
        BY <1>4, <1>8, <2>1 DEF Adjacent
<1> QED
    BY <1>4, <1>5, <1>7, <1>8

(* The transcript that operators and replays read (listed by time, then    *)
(* rowid) has each answer and each handoff after what it follows, and no   *)
(* other event of the customer in between unless the burst was cut off.    *)
THEOREM TranscriptAlwaysInTurns == Spec => []TranscriptInTurns
<1>1. TypeOK /\ TranscriptInv => TranscriptInTurns
    BY PlacedInTurns
<1> QED
    BY <1>1, TypesAreOK, TranscriptInvariant, PTL
=============================================================================
