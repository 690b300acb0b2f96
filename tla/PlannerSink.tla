---------------------------- MODULE PlannerSink -----------------------------
(***************************************************************************)
(* The structured events of the verified planner and the process-wide sink *)
(* they go to: agent-run/verified-planner-observability.ts and             *)
(* journal/verified-planner-journal-*.ts.  A request that is given a       *)
(* journal installs a sink for as long as it runs and then restores        *)
(* whatever sink it found; while it waits, other requests of its server    *)
(* run.  The journal itself is the caller's: what is modelled is what the  *)
(* sink hands to it, in which order, and under which session and event id. *)
(***************************************************************************)
EXTENDS Naturals, Sequences

CONSTANTS Server,       \* processes
          Request       \* requests

VARIABLES sink,         \* sink[s]: the request whose sink is installed in s
          handed,       \* what sinks handed to the journal, in order
          mixed         \* servers in which two requests with a sink ran at once

sinkVars == << sink, handed, mixed >>

Nobody == "nobody"

SinkInit ==
    /\ sink = [s \in Server |-> Nobody]
    /\ handed = << >>
    /\ mixed = {}

(* buildAgentRunVerifiedPlannerJournalSessionIdFromBody.                   *)
SessionId(traceId, verifiedPlanId) ==
    CASE traceId # "" -> << "agent-run", traceId >>
      [] traceId = "" /\ verifiedPlanId # "" -> << "agent-run", verifiedPlanId >>
      [] OTHER -> << "agent-run", "verified-planner" >>

EventId(traceId, sessionId, event) ==
    << "verified-planner", IF traceId = "" THEN sessionId ELSE traceId, event >>

(* What a sink makes of an event that request r emits.                     *)
JournalEvent(r, traceId, sessionId, event) ==
    [by |-> r, sessionId |-> sessionId, type |-> event,
     eventId |-> EventId(traceId, sessionId, event)]

(* emitVerifiedPlannerStructuredEvent, once per event: the installed sink  *)
(* hands it over before the emitter goes on.                               *)
Emit(r, traceId, sessionId, events) ==
    handed' = handed \o [i \in DOMAIN events |-> JournalEvent(r, traceId, sessionId, events[i])]

(* setVerifiedPlannerStructuredEventSink, for a request that will wait.    *)
Install(s, r) ==
    /\ sink' = [sink EXCEPT ![s] = r]
    /\ mixed' = mixed \cup {t \in {s} : sink[s] # Nobody}

(* Mutant of Restore: the sink stays installed.                            *)
RestoreNothing(s, previous) == UNCHANGED sink

Restore(s, previous) == sink' = [sink EXCEPT ![s] = previous]
=============================================================================
