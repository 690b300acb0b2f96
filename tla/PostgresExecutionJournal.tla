---------------------- MODULE PostgresExecutionJournal ----------------------
(***************************************************************************)
(* The durable journal adapter, src/journal/postgres-execution-journal.ts, *)
(* under concurrent appends.  appendEvent awaits two queries: it SELECTs   *)
(* the latest row of the session, then INSERTs a row whose sequence and    *)
(* hashPrev it computed from the first answer.  The two run on a pool,     *)
(* outside any transaction, so appends of other requests and of other      *)
(* server processes may commit in between.  All that stands between that   *)
(* race and a forked chain is the table's primary key.                     *)
(*                                                                         *)
(* A caller is one appendEvent call at a time.  A caller whose connection  *)
(* or process is lost gives up between any two of its steps; an INSERT     *)
(* that reaches the database after its process died is the interleaving in *)
(* which the caller gives up late.                                         *)
(***************************************************************************)
EXTENDS JournalChain, Integers

CONSTANTS Session,      \* journal session ids
          EventId,      \* event ids the callers build
          Body,         \* timestamp, type, payload and metadata of an event
          Caller,       \* concurrent appendEvent calls
          Number,       \* sequence numbers a stored row may be altered to
          Digest        \* hashes a stored row may be altered to

ASSUME NumberAssumption == Number \subseteq Int

VARIABLES table,        \* table[s]: rows whose session_id is s, by sequence
          call,         \* call[c]: where the appendEvent call of c stands
          acknowledged  \* stored events appendEvent resolved with

vars == << table, call, acknowledged >>

Idle == [at |-> "idle"]
Inserting(event) == [at |-> "insert", event |-> event]
Returning(event) == [at |-> "return", event |-> event]

Init ==
    /\ table = [s \in Session |-> << >>]
    /\ call = [c \in Caller |-> Idle]
    /\ acknowledged = {}

(* The first query: read the latest row and build the event after it.      *)
SelectLatest(c, s, id, body) ==
    /\ call[c].at = "idle"
    /\ call' = [call EXCEPT ![c] =
                    Inserting(NextStoredEvent(table[s], s, id, body))]
    /\ UNCHANGED << table, acknowledged >>

(* Mutant of InsertAllowed: the table without its primary key.             *)
InsertAllowedWithoutPrimaryKey(rows, event) == event.eventId \notin EventIds(rows)

(* PRIMARY KEY (session_id, sequence), UNIQUE (session_id, event_id).      *)
InsertAllowed(rows, event) ==
    /\ event.sequence \notin DOMAIN rows
    /\ event.eventId \notin EventIds(rows)

(* The second query commits.                                               *)
InsertRow(c) ==
    /\ call[c].at = "insert"
    /\ LET event == call[c].event IN
        /\ InsertAllowed(table[event.sessionId], event)
        /\ table' = [table EXCEPT ![event.sessionId] = WithRow(@, event)]
        /\ call' = [call EXCEPT ![c] = Returning(event)]
    /\ UNCHANGED acknowledged

(* Mutant of InsertConflict: ON CONFLICT DO NOTHING.                        *)
InsertConflictIgnored(c) ==
    /\ call[c].at = "insert"
    /\ ~ InsertAllowed(table[call[c].event.sessionId], call[c].event)
    /\ call' = [call EXCEPT ![c] = Returning(call[c].event)]
    /\ UNCHANGED << table, acknowledged >>

(* The second query violates a constraint: appendEvent rejects.            *)
InsertConflict(c) ==
    /\ call[c].at = "insert"
    /\ ~ InsertAllowed(table[call[c].event.sessionId], call[c].event)
    /\ call' = [call EXCEPT ![c] = Idle]
    /\ UNCHANGED << table, acknowledged >>

(* appendEvent resolves with the event it stored.                          *)
Resolve(c) ==
    /\ call[c].at = "return"
    /\ acknowledged' = acknowledged \cup {call[c].event}
    /\ call' = [call EXCEPT ![c] = Idle]
    /\ UNCHANGED table

(* A query rejects, or the process dies, before the INSERT or after it     *)
(* committed: no receipt, the same event may be tried again.               *)
GiveUp(c) ==
    /\ call[c].at \in {"insert", "return"}
    /\ call' = [call EXCEPT ![c] = Idle]
    /\ UNCHANGED << table, acknowledged >>

Next ==
    \E c \in Caller :
        \/ \E s \in Session, id \in EventId, body \in Body :
              SelectLatest(c, s, id, body)
        \/ InsertRow(c)
        \/ InsertConflict(c)
        \/ Resolve(c)
        \/ GiveUp(c)

Spec == Init /\ [][Next]_vars

-----------------------------------------------------------------------------

IsStoredEvent(event) ==
    /\ event = [ sessionId |-> event.sessionId, sequence |-> event.sequence,
                 eventId |-> event.eventId, body |-> event.body,
                 hashPrev |-> event.hashPrev, hashSelf |-> event.hashSelf ]
    /\ event.sessionId \in Session
    /\ event.sequence \in Nat \ {0}
    /\ event.eventId \in EventId
    /\ event.body \in Body

(* Type invariant: rows are stored events kept under positive sequence     *)
(* numbers, and a call past its SELECT holds a complete stored event.      *)
TypeOK ==
    /\ DOMAIN table = Session
    /\ \A s \in Session : \A n \in DOMAIN table[s] :
          n \in Nat \ {0} /\ IsStoredEvent(table[s][n])
    /\ DOMAIN call = Caller
    /\ \A c \in Caller :
          \/ call[c] = Idle
          \/ \E event \in {call[c].event} :
                IsStoredEvent(event) /\ call[c] \in {Inserting(event), Returning(event)}
    /\ \A event \in acknowledged : IsStoredEvent(event)

(* verifyChain: the rows WHERE session_id = $1, in sequence order.         *)
verifyChain(rows, s) == VerifyJournalEventChain(LoadSessionEvents(rows[s]))

(* verifyChain answers true for every session in every state, although     *)
(* appendEvent reads the chain's end and extends it in two separate        *)
(* queries with no transaction around them.                                *)
ChainVerifies == \A s \in Session : verifyChain(table, s)

(* A session never holds two rows with the same event id, however often    *)
(* and concurrently a caller retries an append.                            *)
EventIdsUnique ==
    \A s \in Session : \A m, n \in DOMAIN table[s] :
        table[s][m].eventId = table[s][n].eventId => m = n

IsRow(tables, event) ==
    /\ event.sequence \in DOMAIN tables[event.sessionId]
    /\ tables[event.sessionId][event.sequence] = event

(* An event appendEvent resolved with stays the session's row of that      *)
(* sequence, field by field: a receipt is never for a lost or replaced row.*)
AcknowledgedIsStored ==
    \A event \in acknowledged : IsRow(table, event)

(* A row computed from an outdated SELECT cannot commit: whenever the      *)
(* constraints let an INSERT through, its row is the one a SELECT made at  *)
(* that very moment would have produced.                                   *)
StaleAppendCannotCommit ==
    \A c \in Caller : call[c].at = "insert" =>
        LET event == call[c].event IN
        InsertAllowed(table[event.sessionId], event) =>
            event = NextStoredEvent(table[event.sessionId], event.sessionId,
                                    event.eventId, event.body)

(* A row as it might read after one of its columns was changed, to a hash  *)
(* of another row too; only hash_prev may be NULL.  Another body is one    *)
(* that reads as another event of a known type: an unknown event_type      *)
(* makes verifyChain throw, and NULL metadata reads as a JSON null does.   *)
AlteredRows(row) ==
    LET Hash == Digest \cup
                UNION {{table[s][n].hashSelf : n \in DOMAIN table[s]} : s \in Session}
    IN  {[row EXCEPT !.sessionId = s] : s \in Session \ {row.sessionId}}
        \cup {[row EXCEPT !.sequence = n] : n \in Number \ {row.sequence}}
        \cup {[row EXCEPT !.eventId = id] : id \in EventId \ {row.eventId}}
        \cup {[row EXCEPT !.body = body] : body \in Body \ {row.body}}
        \cup {[row EXCEPT !.hashPrev = h] : h \in (Hash \cup {NoHash}) \ {row.hashPrev}}
        \cup {[row EXCEPT !.hashSelf = h] : h \in Hash \ {row.hashSelf}}

(* The table without a row, and with a row under its own key: a row whose  *)
(* session_id changed is another session's.                                *)
WithoutRow(rows, s, n) ==
    [rows EXCEPT ![s] = [m \in DOMAIN rows[s] \ {n} |-> rows[s][m]]]

WithRowOf(rows, row) == [rows EXCEPT ![row.sessionId] = WithRow(@, row)]

(* After any one column of any one row was changed, to any value the       *)
(* table's constraints let in, verifyChain answers false for the session   *)
(* that now has the row.  After any row but a session's last was lost, or  *)
(* went to another session, it answers false for the session that had it.  *)
(* (It cannot see that the last rows of a session are missing.)            *)
ChangeIsDetected ==
    \A s \in Session : \A n \in DOMAIN table[s] :
        LET rest == WithoutRow(table, s, n) IN
        /\ \A altered \in AlteredRows(table[s][n]) :
             InsertAllowed(rest[altered.sessionId], altered) =>
               ~ verifyChain(WithRowOf(rest, altered), altered.sessionId)
        /\ n < LatestSequence(table[s]) => ~ verifyChain(rest, s)

-----------------------------------------------------------------------------
(* The journal implements EventLog: columns dropped, receipts named by     *)
(* session and position.                                                   *)

EntryOf(event) == [eventId |-> event.eventId, body |-> event.body]

LogOfTable ==
    [s \in Session |-> [n \in DOMAIN table[s] |-> EntryOf(table[s][n])]]

ReceiptsOf ==
    {<< event.sessionId, event.sequence, EntryOf(event) >> : event \in acknowledged}

Log == INSTANCE EventLog WITH log <- LogOfTable, receipts <- ReceiptsOf

(* Every step of the two-query appendEvent is an append of EventLog at the *)
(* end of one session's log, a receipt for an entry that is there, or no   *)
(* step of it at all.                                                      *)
ImplementsEventLog == Log!LogSpec

(* What makes the invariants inductive: the rows of a session are gapless, *)
(* link up, and carry their own session id and sequence; a call between    *)
(* its queries either still has the latest row or finds its sequence       *)
(* taken; a call about to resolve has its row in the table.                *)
RowsLinked ==
    \A s \in Session :
        /\ Gapless(table[s])
        /\ Linked(table[s])
        /\ \A n \in DOMAIN table[s] : table[s][n].sessionId = s

InsertsFollowSelects ==
    \A c \in Caller : call[c].at = "insert" =>
        PendingFollowsSelect(table[call[c].event.sessionId], call[c].event)

ReturnsAreStored ==
    \A c \in Caller : call[c].at = "return" => IsRow(table, call[c].event)

IInv ==
    /\ TypeOK
    /\ RowsLinked
    /\ InsertsFollowSelects
    /\ ReturnsAreStored
    /\ AcknowledgedIsStored
    /\ EventIdsUnique
=============================================================================
