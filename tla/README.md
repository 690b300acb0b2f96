# A verification project for deterministic-agent-system

TLA+ modules for the stateful core of this repository, the TLC runs that check
them and the theorems TLAPS proves about them. Paths below are relative to the
repository, so `src/journal/hash.ts` is the file in its `src` directory.

## The system

One Node.js process serves HTTP. A request handler is a JavaScript function
that runs alone until it awaits something that really waits (a Postgres query,
an HTTP call, a browser step); other handlers run then. Several server
processes may share one Postgres database.

| Part | State | Operations | What is hard |
|---|---|---|---|
| Execution journal (`src/journal/`) | per session, a chain of events: sequence, hashPrev, hashSelf; in Postgres or in memory | appendEvent, verifyChain, getSessionJournal | appendEvent is two queries without a transaction; lost replies; retries; tampering |
| Async WhatsApp webhook (`src/http/handlers/whatsapp-webhook-async.ts`) over the WhatsApp stores (`src/channels/whatsapp/`) | processed message ids, sessions, evidence, conversation events, handoffs; the handler's locals | deliver a payload: per message received event, duplicate check, agent, send, saves, handoff, mark, processed event | overlapping and repeated deliveries, a send awaited between check and mark, a crash or failed query between any two writes |
| Runs (`src/http/runs/registry.ts`, `src/http/handlers/runs.ts`, `run-execute.ts`, `src/enterprise/state-manager.ts`) | run records, snapshots, execute handlers in flight | create, start, complete, fail, cancel, execute (mock, local) | the retry loop awaits the plan and restores a snapshot over whatever clients did meanwhile |
| Sync WhatsApp webhook (`src/http/handlers/whatsapp-webhook.ts`) and the operators' handlers | the same store, synchronous; callbacks in flight | payload in parallel, list events, list and close handoffs | callbacks of one payload interleave at the send; a burst of writes without a transaction; a handoff closed while its message is reworked |
| Browser sandbox, async executor (`src/enterprise/`, `src/agent/executor-async.ts`) | one shared browser, sessions by id | open, click, type, extract, close, shutdown | shared by all executions, lazy launch, shutdown by one under another |
| Deterministic agent core (`src/agent/`) | none between calls | validate, canonicalise, execute, trace chain, replay | order independence, hash chain of the trace |
| Agent runs (`src/http/handlers/agent-run.ts`, `src/agent-run/`, `src/queue/`) | the request being planned | from a goal to a plan, run it, answer | capabilities, inserted prerequisites, references and step ids have to fit |
| Live planner (`src/agent-run/planner-llm-live.ts`, `llm-live-cache.ts`, `llm-live-planner-bridge.ts`, `src/planner/`, `src/prompts/planner/`) | cache files, shared by all processes of a directory | plan from a text, from the cache, by the mock provider, by a model | a model that answers late, anything or never; a save of three system calls; four layers of validation |
| Verified planner journal (`src/agent-run/verified-planner-observability.ts`, `src/journal/verified-planner-journal-sink*.ts`) | one process-wide sink | install, emit, restore | overlapping scopes, appends nobody awaits |
| Journal replay (`src/replay/`, `src/http/handlers/whatsapp-conversation-replay.ts`) | none | full, bounded and what-if replay; who may read it | a journal that grows meanwhile; a hash that must tell overrides apart; events written by another component |
| Conversation (`src/customer-service-api/`, `src/customer-service-agent/`, `src/conversation-orchestrator/`, `src/session-state/`, `src/session-store/`) | sessions by id, the session a customer id was last seen in | take a turn for a session or for a customer: intent, entities, what is missing, hand-over, closing | long sequences of turns; replies that look like other intents; two maps that any message can relate |
| HTTP frame, storage, core (`src/http/`, `src/storage/`, `src/core/`) | rate-limit buckets, migrations table | route, limit, migrate | window boundary, two servers migrating at once |
| Tools, verticals, prompts, integrations, CLI | none | formatting, lookups, I/O | nothing a model checker adds to |

What makes the parts that are modelled correct:

* journal: a session's chain verifies at all times, an event id is stored once,
  what was acknowledged stays, a changed row is noticed where it now is, and a lost
  one unless it was a session's last;
* webhooks: what counts as processed is fully recorded, what the provider was
  told 200 for is processed, the journal and the transcript tell the story in
  order, nobody is answered twice and no closed handoff reopened where the code
  prevents it, and every request ends;
* replay: what was replayed once is replayed the same for ever, and its hash
  tells what was tried;
* agent run: a plan made from any goal that fits into a plan runs to its end, what
  the layers behind the verifier refuse of a verified planner output is known and
  nothing else is, the order a model lists steps in is irrelevant, a recording
  replays, the cache holds whole plans and answers the question asked, planner events
  reach the right session, and every request is answered;
* browser: what the shared sandbox holds belongs to an execution in flight, no
  session reaches a later execution, an execution alone is undisturbed and leaves
  nothing running, every execution ends;
* conversation: a session waits for what it misses and for nothing else, the
  hand-over matches what was asked for, a reply is taken as the reply, a customer's
  requests reach the customer's own conversation, and every turn has an answer;
* runs: a run is executed once, the status an execute request answered stands,
  terminal statuses change only under the executing handler, every execute
  request is answered.

## Modules

| Module | What it is |
|---|---|
| `JournalChain` | the hash chain and the arithmetic of its rows (`hash.ts` and the row both adapters build); operators only |
| `JournalChain_proofs` | lemmas about chains that both journals' proofs use |
| `EventLog` | abstract specification: per session an append-only log with unique event ids, and receipts for entries that are there |
| `PostgresExecutionJournal` | `postgres-execution-journal.ts`: appendEvent as SELECT, INSERT and return, by concurrent callers; implements `EventLog` |
| `PostgresExecutionJournal_proofs` | its theorems |
| `WhatsAppWebhookAsync` | the async handler over store and journal, composed with `JournalChain`; provider, sender, failures and crashes |
| `WhatsAppWebhookAsync_proofs` | its theorems |
| `JournalReplay` | the replay engine: bounded and what-if replays of a chain, operators only |
| `WhatsAppConversationReplay` | the operators' journal and replay endpoints on the journal `WhatsAppWebhookAsync` is writing |
| `WhatsAppWebhookSync` | the default runtime's handler over the synchronous store, and the operators' endpoints |
| `WhatsAppWebhookSync_proofs` | its theorems |
| `AgentTools`, `AgentPlan`, `AgentExecution` | the agent core as operators: tools and steps; policies, canonical plans, step dependencies; execution, hashes, replay |
| `GoalPlanner` | from a goal to a plan: intent, capabilities, every planner that makes its own plan |
| `PlannerPrompt` | from a model's text to a plan: contract, verifier, bridge, both formats |
| `PlanCache` | the cache directory: a save as its system calls |
| `PlannerSink` | the process-wide sink of planner events |
| `AgentRun` | POST /agent/run, composed of the modules above |
| `AgentRun_proofs` | its theorems and those of `PlanCache` |
| `RunLifecycle` | registry, snapshots and the execute handlers |
| `RunLifecycle_proofs` | its theorems |
| `BrowserSandbox` | the one `PlaywrightSandbox` of the process under concurrent plan executions in mode local |
| `BrowserSandbox_proofs` | its theorems |
| `ConversationSession` | the customer-service API: a turn of the agent over the session and index maps |
| `ConversationSession_proofs` | its theorems |
| `MC...` | the instances TLC checks |

Operators named `...Without...`, `...Ignored`, `...Forever` and the like, marked
"Mutant" in their comment, are variants of a definition with a plausible bug.
No specification uses them: each is substituted for the definition below it to
see that some property then fails.

### JournalChain

The rows of a session are a function from sequence numbers to events, as the
primary key makes them. SHA-256 over canonical JSON is taken to be collision
free: a digest *is* the hashed content, so equal digests mean equal content and
no digest can be produced for other content. Timestamp, type, payload and
metadata, which this code copies and hashes but never inspects, are one field
`body`. `LoadSessionEvents` sorts by sequence as the SQL does, also when rows
are missing, and `VerifyJournalEventChain` then checks position, link and digest
of every event.

### PostgresExecutionJournal

`table` is the Postgres table, `call[c]` the place of one appendEvent call
between its queries with the event it computed, `acknowledged` the events some
call resolved with.

| Action | Code |
|---|---|
| `SelectLatest` | `SELECT ... ORDER BY sequence DESC LIMIT 1`, then sequence, hashPrev and hashSelf from the answer |
| `InsertRow` | the INSERT commits: neither (session, sequence) nor (session, event id) is taken |
| `InsertConflict` | the INSERT violates one of the two keys; appendEvent rejects |
| `Resolve` | appendEvent returns the stored event |
| `GiveUp` | a query rejects or the process dies before or after the INSERT; the same event may be tried again |

The refinement mapping to `EventLog` drops the columns: the log of a session is
its rows in sequence order, a receipt names session, position and entry.

### WhatsAppWebhookAsync

One handler per request `r` with a program counter `req[r].at`, one action per
awaited call in the order of the code: received event, duplicate check, (session
and duplicate event, or) session and agent, send, inbound and outbound
conversation events, session, evidence, handoff record and event and journal
event when the agent handed off, mark, processed event, next message, 200.
`bridge.session`, the session loaded before the send and saved after it, is kept
in `req[r].session`; a customer's session is the set of messages it took in.

`mode` is fixed at start, as in `resolveAsyncWhatsAppRuntime`: store `memory` or
`sqlite` with the in-memory journal, `postgres` with the Postgres journal;
delivery `http` or `skipped`. Delivery mode `mock` is `http` whose send never
waits or fails.

*Interleaving.* The memory and sqlite stores (`DatabaseSync`) and the in-memory
journal are synchronous code behind `async` methods: awaiting them resumes the
handler before the event loop turns to another request. `HasEventLoop` says so:
in these modes another handler runs only while the current one is in the send;
on Postgres at every await. A crash may come between any two steps.

*Failures.* `SendAnswer` lets the provider accept or not independently of
anything else; the sender never throws and a timeout may report failure for an
accepted message, and the handler goes on the same way in either case.
`QueryFails` makes a store or journal query reject, which nothing catches before
the router's 500. `Crash` ends every handler without an answer and drops what
was in memory, including the journal when the store is sqlite. The provider may
deliver any payload any number of times, also while it is being handled.

Left out: verification handshake, signature and validation (they change no
state), response bodies, the text and intent of messages (whether the agent
hands off is a property of the message), the configuration without a store.

### JournalReplay, WhatsAppConversationReplay

`ReplayInternal` is the engine: verify the chain, cut at a sequence number, apply
overrides, reduce, hash. An override is its targets (a sequence number, an event
id, both or none: only one is legal) and the content it puts in place; an event
takes the override of its sequence number before that of its id, and a list fails
when some override matches nothing. An override that another one shadows still
counts as matched. The hash is over everything the result says, as an injective
function. The endpoints read the journal and change nothing, so they are
operators on its state of the moment. They read it twice, once for the ownership
check and once for the replay; since rows never change, an append in between makes
no difference to a session that is refused, and `ReplayIsStable` says what it does
to one that is not. Identity and scopes are `CreateRequestIdentity` and
`HasRequestScope`; `PayloadFields` are the fields the webhook really writes.

### WhatsAppWebhookSync

The default runtime (`WHATSAPP_RUNTIME_MODE` unset, `src/http/server.ts`).
`Receive` is the whole handler up to `Promise.all`: status checks, then one
callback per message, all started at once. A callback runs without interruption
up to the await of its send and from there to its end, so `loop` holds the
callbacks of the current turn of the event loop, the running one first. Skipped
delivery awaits nothing, a mock send resolves in the same turn (the callback goes to
the end of `loop`), an HTTP send resolves in a later turn, sends of one payload in
any order (`SendResolves`). Each store call is an action, because sqlite may throw
there (`StoreThrows`: the callback rejects, the others go on) and the process may
die there (`Crash`). `Respond` is the settling of `Promise.all`: 200 when all
callbacks settled, the router's 500 as soon as one rejected, while others still
wait for the provider.

`events` gives each conversation event its row number: sqlite's upsert keeps the row
an event has, the memory store takes the event out and appends it anew. `Before` is
the order the events endpoint lists. `handleCloseWhatsAppHandoff` saves the record
as closed, `SaveHandoff` saves it as open, whatever it was. The Postgres backend
cannot be configured here (`store-factory.ts`: its synchronous store throws).
`overlapped` and `interrupted` are history variables.

### AgentTools, AgentPlan, AgentExecution, GoalPlanner, PlannerPrompt

Pure operators, with the names of the functions they model. Values are their JSON
shape; a string carries the value it decodes to; numbers, flags and texts have no
amount or wording, since no step branches on one; a field over its maximum length is
`TooLong`. A reference is an argument of a tool: references deeper inside an argument, and
an input that is one reference as a whole, are left out. A goal is the set of words the
planners look for in it, and whether it is longer than a value of a plan may be. A model's text is what it decodes to, or what is wrong
with it. The 32-bit state hashes of the tool loop are taken to be injective, like
the SHA-256 of the trace chain. A failing step ends a run with its code, and the
tools and references fail as they do in `src/agent/tools`. An id is a number that
orders like the string, or that number behind blanks (`Padded`), or nothing but
blanks; `IsId` is the check that it is a string with something in it. The canonical
sort is by counting: the place of a step is how many are sorted before it. An
execution is a recursive function of the number of steps done.

### PlanCache

`tmp[k]` and `final[k]` are the two files of a key, `writer[p]` where process `p`
stands in a save: open (which creates or truncates the temporary file), write,
rename. Writing is at the start of whatever file the descriptor is on, also when
another process has renamed it away meanwhile; a rename fails when the file is
gone. A process may die between any two. Whether a partly written file parses is
left open: it counts as torn. `overlapped` are the keys two saves were after at a
time.

### PlannerSink, AgentRun

`AgentRun` has one handler per request, on the server the client sent it to; a
server's only real await is the model's answer, so requests that need no model are
one action (`AnswerOutright`, `PlanFromText`, `PlanFromCache`, ...), while a save,
though synchronous for its own server (`Awake`), is stepwise for the others that
share the directory. Its steps are conjunctions with the actions of `PlanCache`,
so what is proved there holds here. `req[r].planned` is the plan or error planning
ended with, and the answer, `sendJson`, is a function of it: `runAgent` on that
plan. `sink[s]` is the process-wide sink of server `s`, installed by a request with
a journal and restored by it; `handed` is what sinks were handed, under which
session. The model may answer with any text of a set, fail, or be given up after its
timer. Execution is in mode mock; mode local adds the browser of `BrowserSandbox`.
The session is the request's `traceId`, else its `llmVerifiedPlanId`, else one common
to all (`SessionId`).
The router calls the handler without a journal (`src/http/routes.ts`), so sinks are
installed only by embedding callers, and what the journal does with an event nobody
awaits is theirs.

### RunLifecycle

`runs[r]` is the status of a run, `checkpoint[r]` the status in its snapshot,
`exec[x]` an execute request in mode local: waiting, executing run `r` in
iteration `iter`, or answered. Registry calls are synchronous, so start, complete,
fail and cancel are one action each. `ExecuteRun` (mode mock) never awaits: start,
snapshot, loop and outcome are one step. In mode local, `BeginExecution` runs up
to the first await, and each `Iterate` is what follows one awaited plan:
`PlanEnds` (ok, or an error that is not retryable), `PlanEndsTooLate` (the same,
but the run was ended meanwhile, complete or fail throws, and the catch clause
restores the snapshot), `PlanFailsRetryable` (restore and go on). Restore and
retry, and after the last iteration restore and fail, happen without an await and
so are one step. Rejected requests change nothing and are not actions. Run
records other than the status (agent id, output, error, timestamps) are left out.

### BrowserSandbox

What happens inside one awaited plan of `RunLifecycle`: an execution `p` is one
call of `executeDeterministicPlanAsync`, and each iteration of a handler's retry
loop is an execution of its own. `browser` and `sessions` are the two fields of the
shared `PlaywrightSandbox`, `browsers` and `contexts` what Playwright really has
running, `exec[p]` the await `p` is suspended in with its locals.

| Action | Code |
|---|---|
| `Begin` | the handler calls the executor |
| `BeginStep` | a sandbox step up to its first await: the session in the map, else a context on the browser in the field, else a launch |
| `Launched`, `ContextCreated`, `PageCreated` | `ensureBrowser` and `getOrCreateSession` resume: the field, then the map, are written without a second look |
| `PageDone`, `StepFails`, `EndSteps` | the page's operation succeeded; any awaited call failed; no step is left |
| `CloseSession`, `SessionClosed` | the finally block closes the execution's own handles, by session id |
| `Shutdown`, `SweepSession`, `SessionSwept`, `ClearSessions`, `BrowserClosed` | `shutdown()`: iterate over the live map, clear it, close the browser, reset the field |

`exec[p].ahead` is the position of the shutdown's Map iterator, as the set of keys
it has yet to reach: JavaScript visits keys inserted during the iteration, skips
deleted ones, and does not come back for an overwritten one. `overlaps` is a
history variable, the pairs of executions that were in flight together. A call on
Playwright may fail whenever it is awaited and succeeds only on a browser and a
context that are still there; a close closes. The order of an execution's own
closes and of a sweep is left open. The plan's other steps touch no shared state.
An executor without an injected factory makes a sandbox of its own
(`agent-run/run.ts`): that is the case of an execution alone.

### ConversationSession

Every handler here is synchronous: one action is one call, the whole of it.
`sessions` is the session store (a session never stored reads as the initial one),
`customerIndex` the map from customer to session; both are keyed by business
context, so one context at a time is enough, and `Init` chooses it.

| Action | Code |
|---|---|
| `CustomerServiceApi` | `runCustomerServiceApi`: append the turn, let the agent take it, store the session and index it by the customer id it holds |
| `CustomerServiceApiForCustomer` | `runCustomerServiceApiForCustomer`: the indexed session or the customer's own, put the customer id in it, store, then the same |

`AgentTurn` is `runCustomerServiceAgent`: which intent the message continues or
opens (`EffectiveIntent`), what a waiting session drops when it changes intent
(`RetainCompatible`), the message's values (`UpsertSessionEntities`), and the
orchestrator's outcome (`Orchestrate`).

*Data.* A message is what the pure text functions return for it: `resolved`, the
intent of the resolver; `explicit`, whether `hasExplicitIntentSignal` holds for that
intent; `gives`, the extracted values that pass the sanitisers. The instance's
messages are texts of the repository's tests and documents (each in a comment
beside it) with what these functions return for them, and its two packs are those
of `config/business-context`, complete in everything but wording. `turns` keeps
which messages a session took in. The stage is a function of intent and missing
entities, so it is not state; it matters for `AnswerKey`, the key under which
`RESPONSE_ID_NOT_FOUND` is thrown if there is no canonical answer. The turn that
throws is not an action: `NoTurnThrows` says there is none.

Left out: wording of answers, the hand-over's reason code, values that the quote
answer reads out of the text of a product name, and clearing stored sessions, which
only tests do. The WhatsApp handlers run the same `AgentTurn` on sessions of
their own store; in `WhatsAppWebhookAsync` a session is just its set of turns.

## Runs

| Run | Instance | Shows |
|---|---|---|
| `journal` | 2 sessions, 2 event ids, 2 bodies, 3 callers; about 470,000 states | two invariants and `ImplementsEventLog` |
| `webhook` | 1 customer, 2 messages (one of them handed off), payloads of that one and of both, 2 deliveries, every configuration, 2 faults; about 113,000 states | five invariants, liveness, and two properties of replays |
| `replay_on_postgres` | one message, 2 deliveries | violation, see Findings |
| `idempotency` | one message, 2 deliveries, sqlite | violation, see Findings |
| `replay_refused` | one message, no fault | violation, see Findings |
| `sync_webhook` | 1 customer, 2 messages of one second (one handed off), 2 requests, 2 faults; about 485,000 states | four invariants, one action property, one liveness property |
| `run_lifecycle` | 2 runs, 3 execute requests, 3 iterations; about 1,900 states | two invariants, one liveness property |
| `browser` | 2 executions, 2 session ids, 2 steps; about 119,000 states | invariants, every execution ends |
| `conversation` | both configurations, 2 customers with their sessions, 12 and 8 messages, 4 distinct turns; about 257,000 states | invariants and one action property |
| `conversation_handoff` | the same, 3 distinct turns | violation, see Findings |
| `run_terminal` | the same as `run_lifecycle` | violation, see Findings |
| `agent_run` | 2 servers, 3 requests, 6 demands, 1 crash; about 40,000 states | eight invariants, one liveness property |

**journal.** `ChainVerifies`: no interleaving forks or breaks a chain, although
there is no transaction. `ImplementsEventLog`: retries never store an event twice,
and what appendEvent resolved with stays where it was reported. `ChangeIsDetected`:
after any one column of any one row was changed (`AlteredRows`: session id, sequence,
event id, content, `hash_prev` and `hash_self`), to any value the table's keys let in,
`verifyChain` answers false for the session that now has the row; after any row but a
session's last was lost, it answers false for that session. Rows are read `WHERE
session_id = $1`, so a row whose session id changed is gone from its old session and
read in the new one: the new one never verifies, the old one still does if the row
was its last, as it does whenever a session lost its *last* rows. A hash may be altered
to that of any other row or to one no event has (`Digest`), a sequence to a number
before or after the rows' (`Number`). Content is altered to content that reads as
another event: an `event_type` the code does not know makes `verifyChain` throw, and
SQL NULL and a JSON null in `metadata_json` are read alike. Three callers are enough for two to race while a third
abandons or repeats; two sessions show that sessions do not disturb each other.
Event ids unique per session bound the table to two rows per session, enough for
first row, linked row, and a stale one.

**webhook.** `ProcessedIsRecorded`: the mark comes last, so a marked message has all
its records, whatever failed. `AnsweredMeansProcessed`: the provider is only told
200 when every message of the payload is marked and, on Postgres, its outcome
journaled. `JournalTellsTheStory`: in a customer's chain the outcome follows the
arrival and the handoff. `AtMostOneAnswerOnPostgres`: on the Postgres runtime the
unique received event makes a message be answered at most once.
`TurnsLostOnlyByOverlap`: a turn may be missing from a stored session only if two
deliveries worked for that customer at once (it can then, because the session is
read before the send and written after). `EveryDeliveryFinishes` and
`DeliveredIsProcessed`: every handler ends, and where no key refuses an append every
message is processed. `ReplayIsStable`: whatever is appended later, a replay up to a
sequence number that was there gives the same result and hash.
`ReplayHashTellsOverrides`: two override lists the engine accepts have one hash
exactly when they replace the same events by the same contents; it is tried with
every list of up to two overrides on the first and last event of every journal the
run reaches. One customer is enough since nothing in the handler relates two
customers but the set of processed ids; two messages give payloads with a next
message and overlapping turns; two deliveries are a message and its repetition, at
the same time or later; two faults are one in each of them.

**sync_webhook.** `ProcessedIsRecorded`, `TurnsLostOnlyByOverlap` as above, where an
overlap may now be two callbacks of one payload. `AnsweredAgainOnlyByRework`: a
customer gets a second answer only after an overlap, a burst that was cut off, or a
store lost with its process. `TranscriptInTurns`: in what the events endpoint lists
an answer follows its message and a handoff its answer, with no other event of the
customer between them unless the burst was cut off; both messages arrive in one
second, so that only the order of storing tells. `ReopenedOnlyByRework`: a closed
handoff is open again only when its message was worked on again.
`EveryPayloadAnswered`: every payload taken is answered although sends resolve in any
order and callbacks fail. The bounds are those of `webhook`.

**run_lifecycle.** `ExecutedOnce`, `AnswerStands`: restore writes a record around
`canTransition`, and still no run can be started twice and no answered status is
overwritten. `EveryExecutionAnswers`: the loop ends also when every iteration fails
because a client ended the run. Three iterations stand for the code's twenty:
a first, a middle and a last one; the theorems hold for any number.

**browser.** Two executions that overlap can lose each other's sessions, launch two
browsers and leave one running for ever; no document says they may not, and the
invariants say how far this reaches. `SharedStateIsOwned`: when nobody executes,
the fields are empty, so trouble does not stay. `AloneIsUndisturbed`: an execution
that overlaps none finds all it uses alive. `LeakOnlyByOverlap`: only an execution
that overlapped another leaves a browser behind. `EveryExecutionEnds`: also a
shutdown that iterates over a map the other execution goes on filling. Two
executions of two steps race, overlap in part or follow each other, on one session
id or on two; a third multiplies the states beyond the time a run may take, and the
theorems cover any number.

**agent_run.** Each behaviour is about one *demand*: any goal of up to three words,
or of the JSON words with some others, under every planner that makes its own plan;
two requests with the plan texts a model may produce; one with every planner output
of a set, tool lists and step bounds; three live requests that may share a key;
requests with and without a journal around one that waits for the model; a server
without a model. `BuiltPlansRun`: whatever a goal asks for, the plan made of it runs
to its end; the exceptions it names are the bound on steps, what is too long for a
plan (`HoldsTooMuch`: most planners store the goal with a `set` step, which takes 4096
characters where the request's parser takes any number, and the mock model puts the
client's `lastErrorCode` into the plan id), the missing tool a goal can ask for, and
saves that overlapped. `VerifiedPlansAreAccepted`: a planner output the verifier passed
is answered 200, and neither policy, canonicalisation nor step bound refuses the plan
made of it, unless it holds something of `BeyondTheBridge`: a plan id or a tool's name
over its length, a number JSON reads as infinite, a reference that names nothing.
The verifier looks for none of these; the bridge's `canonicalizePlan` throws a plain
error on each, which nobody maps, and the answer is 500 `INTERNAL_ERROR`. The run has a
text for each of them. `ListingOrderIsIrrelevant`: two requests whose plans differ
only in the order of their steps and the blanks around ids, under one bound on steps,
come to the same end and the same hashes. `RecordingReplays`: replaying an answer with
`verifyExecutionReplay` confirms it exactly when its final state is the one that was
hashed; that state differs from the hashed one at most in the domain result projected
into it, and not at all when no lookup found anything. (That the executor itself is
deterministic is how it is modelled, a function of the plan, and not something the run
could refute; what can go wrong here is what is added to a state after it was hashed,
and the bound on steps the replay is made under.) `CacheAnswersTheQuestion`: a
cached plan is the one the mock provider would make, or the one an earlier request
with the same question was answered with, unless two asked at once.
`EntryWholeUnlessOverlapped`: a cache entry is absent or whole unless two saves of
its key overlapped. `PlannerStoryKept`: a request with a journal leaves the whole
story of its planner output in one piece and in its own session, and no sink stays installed
unless requests with sinks overlapped. `EveryRequestAnswered`: also when the model
fails or a save's rename does. Two requests on one server and a third on another are
an overlap on each side of the cache directory; one crash leaves each kind of file
behind.

**conversation.** `WaitingMeansMissing`: however a session changed intent, dropped
and gained entities, it waits exactly while the intent it is on misses something,
and for exactly that. `HandoffIffAsked`: the mark of a hand-over is never lost and
never invented, its queue stands until the next turn on another intent.
`SharedOnlyByMention`: a request for a customer is answered in that customer's own
session unless a message of the other session named the customer; it can be then
(every save indexes whatever customer id the session holds), which no document
forbids. `NoTurnThrows`: from every reachable session every intent of the shipped
configurations finds its canonical answer. `ReplyKeepsTheTopic`: a message that
gives what was asked for, and names no other intent, keeps the conversation on its
intent and is not asked for again. What was asked for is the session's missing
entities and, for a quote, the next field of its answer; the free-form questions of
the coverage and renewal answers are not included. A message counts as naming another
intent as soon as `hasExplicitIntentSignal` holds for it, which a product's name is
enough for (`customer-service-agent.ts:427`): a reply that names a product is not what
the property is about. `MaxTurns` bounds the distinct
(session, message) pairs of a run, repetitions being free: four are an opening, a
change of subject, a reply and one more message in the same or the other session;
two customers are one whose index is redirected and one it is redirected to.

`CHECK_DEADLOCK FALSE` stands where the environment may stop: all deliveries or
requests handled, all runs ended and all execute requests answered, or all
executions done. The journal and conversation runs check deadlock, since callers may
always append and messages may always be repeated.

**Fairness.** `WF_vars(Handle(r))`: an awaited call settles and the event loop
resumes the handler. The pool sets a connection and a statement timeout
(`postgres-config.ts`), the sender aborts after ten seconds, the other stores are
synchronous. `WF_vars(Turn)`, `WF_vars(Respond(d))`, `WF_vars(Sent(d))`: a turn of
the event loop runs to its end, an answer is written, and the same timer settles a
send. `WF_vars(Iterate(x))`: browser launch, navigation and page actions
have timeouts. `WF_vars(Step(p) \/ Finally(p))`: the same, and closing returns; no
execution is ever required to begin. `WF_vars(Answers(r))`: the model adapter aborts
after thirty seconds; `WF_vars(Saves(r))`: a running process gets through its system
calls. Nothing is assumed of the provider, clients or operators: no
delivery, retry, cancel, close or crash is ever required to happen. The sent answer's
acceptance, the outcome of a plan and the model's text stay nondeterministic.

## Findings

* `ReplayIsAnsweredAsDuplicate` fails on the Postgres runtime. The received event
  is appended (line 256 of the handler) before the duplicate check (line 271);
  its id is already in the table, the unique key refuses it and the provider gets
  500. `docs/whatsapp-runtime.md` and `docs/async-whatsapp-journal-integration.md`
  promise a duplicate answer. The in-memory journal does not look at event ids,
  so tests over it do not meet this. A consequence: a message whose first delivery
  failed after its received event was stored is refused for ever.
* `IdempotentByMessageId` fails on the sqlite runtime: between the duplicate check
  and the mark lies the awaited send, so two overlapping deliveries of one message
  both answer. On Postgres the same key that causes the first finding prevents it.
* `RequestIsHandedOff` fails: "I want to speak with a broker" resolves to the
  hand-over intent, but a session that waits for an entity leaves its intent only
  when `hasExplicitIntentSignal` finds a word of its own list too (human, agent,
  representative, person, ...), and "broker" is not in it. The customer is asked
  again for what was missing, or the text is taken as a product name.
  `README.md` of the repository lists this sentence as an example and promises a
  deterministic handoff. `HandoffIffAsked` is what does hold.
* `TerminalStatesAreProtected` fails: a run cancelled (or completed, or failed) by
  a client while it executes is put back to running by the retry loop's restore,
  and may end completed. `OnlyExecutionRevives` is what does hold.
* `IntactSessionsReplay` fails: the journal and replay endpoints demand a tenant of
  every event (`tenant-replay-ownership.ts`), and the async webhook, which writes
  these sessions, names none. Every session with an event is refused with 403, also
  to a request that names a tenant.
  `docs/whatsapp-session-replay-ops-endpoint.md` says operators can replay such a
  session and shows one of the webhook's as its example.

## Proofs

The proof modules prove their theorems for any value of the constants; sets need
not be finite. The assumptions are `MaxIterations \in Nat \ {0}`, `MaxSteps \in Nat`,
that `None` (undefined) is no browser or context, and for conversations that a
configuration has the two intents the code names and asks only for entities the
extractor knows (`PackAssumption`), that the resolver answers an intent of the
context and values are not empty (`MessageAssumption`), and that ids are distinct
from the absent ones (`IdAssumption`); for both webhooks that a message has one
customer (`WebhookAssumption`); for the agent runs that the servers are the processes
that share the cache (`ServerAssumption`), that the cache has a key for every live
request (`KeyAssumption`) and room for every plan it is asked to keep
(`BodyAssumption`), that the absent request is no request (`RequestAssumption`), and
that a valid body names one of the seven planners (`PlannerAssumption`) and
a bound on steps that is a number (`InputAssumption`, which
`parseAgentRunInput` checks). `NoTurnEverThrows` alone has a hypothesis,
`PackIsComplete`: the configuration has an answer for every intent, which its loader
does not check; both shipped configurations have it.

*Journal.* The invariants are not inductive alone: that the chain verifies says
nothing about events computed but not yet inserted. `IInv` adds that the rows of a
session are numbered without gaps (`Gapless`), linked (`Linked`) and in their own
session, that a call between its queries is never ahead of the latest row and
links to the row before its own, which is still there because rows never change
(`InsertsFollowSelects`), and that a call about to return has its row
(`ReturnsAreStored`). The one hard step is `InsertRow`: the primary key admits
only a sequence number not in `1..n`, the invariant says it is at most `n + 1`, so
the row extends the chain at its end (`AllowedIsNext`). From `IInv` follow
`ChainAlwaysVerifies`, `EventIdsStayUnique`, `ReceiptsHold`, `NoStaleAppend`,
`ChangesAreDetected` (a row with one column changed no longer hashes to its digest,
whether the digest or what it was computed from has changed, and whichever session
reads it: `AlteredHashIsWrong`, `WrongHashIsDetected`; a lost row leaves a later one at
its place) and `JournalImplementsEventLog`, in which
`InsertRow` is `LogAppend`, `Resolve` is `LogAcknowledge` and every other step
stutters.

*Runs.* `RunInv` adds that a run under or after execution has left `created` for
good and that its snapshot says running (`ExecutedRunHasSnapshot`). Hence it can
never be started again, and what a restore writes is `running`, from which the
final fail is allowed. It gives `RunExecutedOnce`, `ExecuteAnswerStands` and
`RevivedOnlyByExecution`.

*Browser.* The key of `SandboxInv` is that executions in flight together are
recorded (`OverlapsRecorded`): an execution that is alone sees no step of another
(`StepOfOne`), so what holds for it (`AloneHasItsOwn`: the field's browser and the
map's sessions are alive, and it has launched no browser but the one in the field)
only has to survive its own steps. For an execution that is not alone only
ownership is kept: whatever it puts into the sandbox, its own clear is still to
come. `AheadIsOccupied` says an iterator never reaches a deleted session.

*Conversation.* Each operator on a session has a lemma that says what it does to
every field, and `TurnFields` composes them into a turn. The customer entry point
puts an id into a session before the turn, so between the two the session may hold
what it says it waits for: `WaitingMeansMissing` cannot be what a turn starts from.
`ConversationInv` therefore adds `Ready` (a waiting session is on an intent that can
be continued, never on a hand-over or a closing), which survives that and is all a
turn needs to restore the rest: nobody stays on the hand-over intent, so it is only
ever entered by a message that resolves to it. For the index it adds `Holds`: a
session that holds a customer id is that customer's or was told it.
`ReplyAlwaysKeepsTheTopic` is an action property from the same invariant.
`NoTurnEverThrows` reduces `NoTurnThrows`, which quantifies over every reachable
session, to a finite check of the configuration: what is looked up depends on a session
only in whether its intent misses something, and it can only where the intent asks for
something.

*Async webhook.* `WebhookInv` adds to `ProcessedIsRecorded` that what a handler has
behind it is in the store (`Work`), which other handlers only add to and a crash
keeps or drops together with the marks. `AtMostOneAnswerOnPostgres` needs an owner:
whoever is past the received event of its i-th message (`Holds`), or has sent its
answer, has that event in the chain (`HeldIsReceived`) and is alone in it
(`HeldByOne`), because the table takes an event id once (`RowIsWritten`) and the id
is made of the message. Nothing need be known of sequence numbers. It assumes that a
payload in the loop has a message (`WebhookAssumption`).

`TurnsOnlyLostByOverlap` follows a turn from the load of the session to its save: as
long as no two handlers of a customer overlapped, the session a handler carries is the
stored one and its own message (`TurnKept`). `StoryInv` adds to the chains being linked
that a SELECT's event follows the rows it was built from until it is inserted
(`Pending`), that what a handler has behind it is in the chain (`Told`), and that a
message a payload is through with has its outcome stored (`FinishedIsStored`), unless a
crash dropped store and handlers together; from it follow `JournalAlwaysTellsTheStory` and
`AnsweredAlwaysProcessed`. The replays rest on the journal's lemmas: a step only
extends a chain or, when a crash empties the in-memory one, drops it (`NextGrows`), the
first n rows of a gapless linked chain are what a replay up to n loads and they verify
(`ReplayOfLinked`), hence `ReplayStaysStable`; and since every row has its fields and
its number, the events an override list changed can be read off the replayed ones
(`SameReplaySameApplied`, `SameAppliedSameReplay`), hence `ReplayHashAlwaysTells`.

*Sync webhook.* `WebhookInv` is the types, what the event loop's turn looks like
(`LoopInv`: a callback stands in it once, only the first may be in the middle of its
burst), and that what a callback has behind it is in the store (`WorkStored`). It gives
`ProcessedIsAlwaysRecorded`. Event rows are numbered from the largest number stored, and
that a non-empty table has a largest number is induction over data; so `HasLast` says
it, and each step keeps it because its new row is above all. `ReworkInv` adds that two
callbacks of a customer at work are in `overlapped` (`OverlapsSeen`), that what a
callback is about to save takes nothing away from the stored session unless they
overlapped (`TurnKept`), that a message at work is not marked yet (`WorkIsFresh`), and
that an answer or a handoff was the work of a callback still at it or of the one that
marked the message (`AnswersAccountedFor`, `HandoffsAccountedFor`) - except for messages
that overlapped or were cut off. It gives `TurnsOnlyLostByOverlap`,
`AnswersOnlyByRework` and the action property `ReopensOnlyByRework`. `TranscriptInv` is
about the order of rows: a message's events are next to one another (`Adjacent`), or its
burst is under way and its latest event is the last row (`InBurst`, `Leads`). The memory
store moves an event it stores again to the end, sqlite keeps its row: hence the cases
on the store. It gives `TranscriptAlwaysInTurns`.

*Plan cache.* `CacheInv` is the types, the property itself and what makes it
inductive: of a key that no two saves were after at a time, at most one save is in
flight (`OneSaveAtATime`), and that save's descriptor is on the temporary file of its
key (`SaveOwnsItsFile`), so what it renames is what it wrote. It gives
`EntryAlwaysWhole` and `EntriesChangeBySave`, for any number of processes and keys.

*Agent run.* `AgentInv` ties the handlers to the cache: a server saves for at most one
request, which stands at its save, and what is being written is that request's plan
under that request's key. It gives the types, and that every behaviour of the agent
runs is one of `PlanCache` (`CacheIsUsedAsSpecified`: Spec => CacheSpec, every step a
step of the cache or a stutter), so what is proved there holds here
(`EntryAlwaysWholeInRun`).

`QuestionInv` is behind `CacheAlwaysAnswersTheQuestion`. What is saved or cached under a
mock provider's question is the mock provider's plan (`MockPlansAreCached`). For the
model, which may answer one question differently each time, it follows a key that no
two requests planned for at once: one request plans at most (`OnePlans`), and then there
is no entry yet (`EntryIsAwaited`); once a request has its plan, that plan is the entry
and nobody plans any more (`EntryIsTheAnswer`), in particular nobody who arrived later
(`AnsweredBefore`). So who finds an entry finds an earlier answer. Saves that overlap
are saves of requests that planned at once (`overlapped \subseteq contended`).

`StoryInv` is behind `PlannerStoryAlwaysKept`: where no two requests with sinks
overlapped, the installed sink is that of the request that waits, the only one with a
sink (`SinkIsOwned`), and nothing was handed over for a request that has not arrived.

`PlansAreMade` says that a request which is not left to the model (it has a text for
`llm-live`, or the mock provider, or a planner that never waits) has, whatever the cache
and other requests do, the plan made of its text or goal, unless its save was hit by an
overlap. It turns all of these but `RecordingsAlwaysReplay` into facts about the agent
core, proved for any plan and any goal:

* `ListingOrderIsAlwaysIrrelevant`: the place of a step in the sort is the number of
  smaller ids in the *set* of steps (`BeforeCountsItems`), the places of n different ids
  are 1..n (`PlacesAreOneEach`), so lists of one set are sorted to one list
  (`SortedIsOfItems`), and are refused for the same reasons.
* `VerifiedPlansAreAlwaysAccepted`: a verified output names known tools under distinct
  ids within the bound, the bridge keeps that (`BridgedPlansPass`), and plans of tool
  calls pass policy and canonicalization (`CallPlansPass`). The bridge takes a verified
  output exactly when it holds nothing of `BeyondTheBridge` (`BridgeTakes`); what it does
  not take ends as the internal error.
* `RecordingsAlwaysReplay`: canonicalizing is a function of the plan, a finished run
  does not depend on the bound (`FinishedExecutions`), and `projectDomainResult` adds at
  most two keys (`ProjectionAdds`).

* `BuiltPlansAlwaysRun`: below.

`BuiltPlansAlwaysRun` holds for every set of words a goal may be of, a long one's too,
where the run takes goals of up to three; a goal over the length of a value has a plan
that canonicalization refuses, which is the one exception the proof has to name beside
those of the run's requests; that a request names one of the seven planners
(`PlannerAssumption`) and a number of steps (`InputAssumption`) is what
`parseAgentRunInput` lets through. The argument has three parts:

* *Steps that fit.* A step `Fits` with a set of keys if, under whatever id, policy and
  canonicalization take it, and from a state that has those keys it goes through and
  leaves what it produces. A list is `Good` if each of its steps fits with what the
  steps before it produce; such lists compose (`GoodThen`), an execution of one runs to
  its end (`StepsRun`), and so does the plan of one whose steps got their ids in order,
  because that is the order canonicalization sorts them into (`PlannedRuns`).
* *Fixed plans.* `MockPlanner`, `DeterministicPlanner`, `DetToolsPlanner`, the mock model
  and the intents of the mock provider put their steps together from such pieces. A goal
  with `missingtool` has a piece that may end in `tool_not_found`; `det-replan2` is told
  of that error and makes a plan without it (`Replanned2Runs`).
* *Pipelines.* `CapsIn` is what a half-built pipeline keeps: its steps are good, they pass
  `validateStepDependencies`, the keys they produce are those of the capabilities used so
  far, and each step refers to the derived input if there is one (`Obeys`, what
  `validateRequiredDerivedInputs` looks for). That last part is not kept by an arbitrary
  next capability: a `json.extract` already there would have to read what a later
  `text.normalize` produces. `Ready` says which capability may come next, and
  `NextCapability` that its step then keeps `CapsIn`. The list
  `insertRequiredCapabilities` makes asks for capabilities in an order in which each is
  ready (`InOrder`, `PipelineBuilds`), and the ids of the finished plan (the log of what
  was inserted has the id `z`) leave its steps in the order they were pushed (`Pushed`).

`executeSteps` is a recursive function of the number of steps. That it is defined
(`RunExists`) and what it keeps (`ExecutionKeepsRun`), and that every path and every list
of capabilities can be followed to its end (`PathExists`, `StepsOfExist`), are inductions
carried out as arguments about a least place at which the claim fails (`LeastOf`, from
the well-foundedness of the numbers), since the library's induction rules take an
operator.

Some of these results no run checks again: `EventIdsUnique`, `AcknowledgedIsStored`
and `StaleAppendCannotCommit` of the journal, `NothingCarriedOver` of the browser,
`OnlyExecutionRevives`, `EntryChangesBySave`, the invariants a proof adds, and the type
invariants but those of `BrowserSandbox` and `AgentRun`.

*Only model-checked.* Liveness (`EveryRequestAnswered`, `EveryExecutionEnds` and the
like), which needs fairness and ENABLED: the prover handles neither. Every safety
property a passing run checks is also a theorem.

## Not modelled, and the plan

Modules that could follow, in this order:

1. The rate limiter of the WhatsApp routes (a fixed window per client, no await
   inside) and the migrations of two servers that start at once.
2. `src/agent-run/run-tools.ts` with its loop and planner, `src/core/bounded-loop.ts`
   and `src/agent-run/registry.ts`: loops and maps like those modelled, which nothing
   under `src/src` calls.
3. `verifyExecutionReplay` as an operation: only a test calls it; `RecordingReplays`
   says what it would answer.

A theorem worth proving next: the refinement of the webhook's journal calls to
`EventLog`.

Left out for good: string work (intent and entity patterns, templates, JSON and
environment parsing, URL checks of the browser tools, formatting, logging), which has
no state and would be its own reference; replay bundle files, demos, CLI and scripts,
which read or write files once; vertical packs and tenants' configuration, which are
data.
