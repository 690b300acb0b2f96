---------------------------- MODULE JournalChain ----------------------------
(***************************************************************************)
(* The hash chain of the execution journal (src/journal/hash.ts) and the   *)
(* row arithmetic both journal adapters share: which sequence number and   *)
(* which previous hash the next event of a session gets.                   *)
(*                                                                         *)
(* The rows of one session are a function from sequence numbers to stored  *)
(* events: the primary key (session_id, sequence) of the Postgres table,   *)
(* the array position of the in-memory adapter.  The fields timestamp,     *)
(* type, payload and metadata are only copied and hashed by this code:     *)
(* they are folded into one field, body.                                   *)
(***************************************************************************)
EXTENDS Naturals, Sequences, FiniteSets

(* hashPrev of the first event of a session: null. *)
NoHash == << >>

(* Mutant of HashJournalEventContent: type, payload, timestamp and metadata *)
(* left out of the hashed content.                                         *)
HashWithoutBody(event) ==
    << event.sessionId, event.sequence, event.eventId, event.hashPrev >>

(* SHA-256 over canonical JSON is modelled as collision free: the digest   *)
(* is the hashed content itself.  hashSelf is not part of the content.     *)
HashJournalEventContent(event) ==
    << event.sessionId, event.sequence, event.eventId, event.body,
       event.hashPrev >>

(* The walk over a session's events in sequence order that recomputes the  *)
(* chain.                                                                  *)
VerifyJournalEventChain(events) ==
    \A i \in DOMAIN events :
        /\ events[i].sequence = i
        /\ events[i].hashPrev = IF i = 1 THEN NoHash ELSE events[i - 1].hashSelf
        /\ events[i].hashSelf = HashJournalEventContent(events[i])

-----------------------------------------------------------------------------

(* SELECT sequence, hash_self ... ORDER BY sequence DESC LIMIT 1.          *)
LatestSequence(rows) ==
    IF DOMAIN rows = {} THEN 0
    ELSE CHOOSE n \in DOMAIN rows : \A m \in DOMAIN rows : m <= n

LatestHash(rows) ==
    IF DOMAIN rows = {} THEN NoHash ELSE rows[LatestSequence(rows)].hashSelf

(* The stored event appendEvent builds for an input, given the rows it has *)
(* read for that session.                                                  *)
NextStoredEvent(rows, sessionId, eventId, body) ==
    LET content == [ sessionId |-> sessionId,
                     sequence  |-> LatestSequence(rows) + 1,
                     eventId   |-> eventId,
                     body      |-> body,
                     hashPrev  |-> LatestHash(rows) ]
    IN  [ sessionId |-> sessionId,
          sequence  |-> content.sequence,
          eventId   |-> eventId,
          body      |-> body,
          hashPrev  |-> content.hashPrev,
          hashSelf  |-> HashJournalEventContent(content) ]

(* The rows once the event is written under its sequence number.           *)
WithRow(rows, event) ==
    [ n \in DOMAIN rows \cup {event.sequence} |->
        IF n = event.sequence THEN event ELSE rows[n] ]

(* The rows one after the other, by their numbers.                         *)
InOrder(rows) ==
    LET Rank(n) == Cardinality({m \in DOMAIN rows : m <= n})
    IN  [ i \in 1..Cardinality(DOMAIN rows) |->
            rows[CHOOSE n \in DOMAIN rows : Rank(n) = i] ]

(* loadSessionEvents: SELECT ... ORDER BY sequence ASC, of the rows WHERE  *)
(* session_id = $1: a table keeps each row under its session_id.           *)
LoadSessionEvents(rows) == InOrder(rows)

EventIds(rows) == { rows[n].eventId : n \in DOMAIN rows }

-----------------------------------------------------------------------------
(* What the journals' rows are like, and an event between its SELECT and   *)
(* its INSERT: whole events without gaps, each linked to the one before.   *)

HasFields(event) ==
    DOMAIN event = {"sessionId", "sequence", "eventId", "body", "hashPrev", "hashSelf"}

Gapless(rows) ==
    /\ LatestSequence(rows) \in Nat
    /\ DOMAIN rows = 1..LatestSequence(rows)

Linked(rows) ==
    \A n \in DOMAIN rows :
        /\ rows[n].sequence = n
        /\ rows[n].hashPrev = IF n = 1 THEN NoHash ELSE rows[n - 1].hashSelf
        /\ rows[n].hashSelf = HashJournalEventContent(rows[n])

PendingFollowsSelect(rows, event) ==
    /\ event.hashSelf = HashJournalEventContent(event)
    /\ event.sequence - 1 <= LatestSequence(rows)
    /\ event.hashPrev = IF event.sequence = 1 THEN NoHash
                        ELSE rows[event.sequence - 1].hashSelf
=============================================================================
