---------------------------- MODULE JournalReplay ----------------------------
(***************************************************************************)
(* The replay engine over a journal session,                               *)
(* src/replay/journal-replay-engine.ts: a verified chain, possibly cut off *)
(* at a sequence number or with the content of some events replaced, and   *)
(* the hash that identifies what was replayed.                             *)
(*                                                                         *)
(* As in JournalChain the fields payload and metadata are one, body.  An   *)
(* override names its events by its targets, a set of keys; no sequence    *)
(* number (0) and no overrides (the empty sequence) stand for a plain      *)
(* replay.                                                                 *)
(***************************************************************************)
EXTENDS JournalChain

Failure(code) == [ok |-> FALSE, error |-> code]

KeysOf(event) == {<< "sequence", event.sequence >>, << "eventId", event.eventId >>}

(* An override specifies exactly one of sequence or eventId.               *)
BuildOverrideKey(override) == Cardinality(override.targets) = 1

(* Every override has a key, and no two have the same.                     *)
IndexOverrides(overrides) ==
    /\ \A i \in DOMAIN overrides : BuildOverrideKey(overrides[i])
    /\ \A i, j \in DOMAIN overrides :
          overrides[i].targets = overrides[j].targets => i = j

(* The override of an event: one by its sequence before one by its id.     *)
OverridesFor(event, overrides) ==
    LET Naming(key) == {i \in DOMAIN overrides : overrides[i].targets = {key}}
        bySequence == Naming(<< "sequence", event.sequence >>)
    IN  IF bySequence # {} THEN bySequence
        ELSE Naming(<< "eventId", event.eventId >>)

(* Which events are replayed with another content, and with which.         *)
Applied(events, overrides) ==
    UNION {{<< event, overrides[i].body >> : i \in OverridesFor(event, overrides)} :
             event \in {events[k] : k \in DOMAIN events}}

WithOverrides(events, overrides) ==
    [k \in DOMAIN events |->
        IF OverridesFor(events[k], overrides) = {} THEN events[k]
        ELSE [events[k] EXCEPT !.body =
                overrides[CHOOSE i \in OverridesFor(events[k], overrides) : TRUE].body]]

(* Each override names at least one of the replayed events.                *)
AllMatched(events, overrides) ==
    \A i \in DOMAIN overrides : \E k \in DOMAIN events :
        overrides[i].targets \subseteq KeysOf(events[k])

(* Mutant of ComputeReplayHash: the stored hashes stand for the events.    *)
ComputeReplayHashOfHashes(sessionId, until, events, applied) ==
    << sessionId, until, [k \in DOMAIN events |-> events[k].hashSelf],
       {entry[1].sequence : entry \in applied} >>

(* The final state adds to the events which of them were overridden; its   *)
(* counts and its last event are functions of the events.                  *)
ComputeReplayHash(sessionId, until, events, applied) ==
    << sessionId, until, events, {entry[1].sequence : entry \in applied} >>

(* Mutant of Through: the bound is only checked.                           *)
ThroughUnbounded(events, until) == events

Through(events, until) ==
    LET Kept == {k \in DOMAIN events : events[k].sequence <= until}
    IN  InOrder([k \in Kept |-> events[k]])

LastSequence(events) == IF events = << >> THEN 0 ELSE events[Len(events)].sequence

Replayed(sessionId, events, until, overrides) ==
    IF ~ (IndexOverrides(overrides) /\ AllMatched(events, overrides))
    THEN Failure("INVALID_REPLAY_OVERRIDE")
    ELSE [ok |-> TRUE, error |-> "none", replayedUntilSequence |-> until,
          events |-> WithOverrides(events, overrides),
          replayHash |-> ComputeReplayHash(sessionId, until,
                             WithOverrides(events, overrides),
                             Applied(events, overrides))]

ReplayInternal(sessionId, events, until, overrides) ==
    IF ~ VerifyJournalEventChain(events)
    THEN Failure("JOURNAL_INTEGRITY_CHECK_FAILED")
    ELSE IF until # 0 /\ until \notin {events[k].sequence : k \in DOMAIN events}
    THEN Failure("REPLAY_SEQUENCE_NOT_FOUND")
    ELSE IF until # 0
    THEN Replayed(sessionId, Through(events, until), until, overrides)
    ELSE Replayed(sessionId, events, LastSequence(events), overrides)

(* The three entry points; a session is read in sequence order.            *)
ReplaySession(sessionId, rows) ==
    ReplayInternal(sessionId, LoadSessionEvents(rows), 0, << >>)
ReplayUntilSequence(sessionId, rows, until) ==
    ReplayInternal(sessionId, LoadSessionEvents(rows), until, << >>)
ReplayWithOverride(sessionId, rows, overrides) ==
    ReplayInternal(sessionId, LoadSessionEvents(rows), 0, overrides)
=============================================================================
