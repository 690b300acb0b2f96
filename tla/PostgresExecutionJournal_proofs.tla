------------------- MODULE PostgresExecutionJournal_proofs -------------------
(***************************************************************************)
(* For any sets of sessions, event ids, bodies and concurrent callers: the *)
(* chain of every session verifies in every state, event ids stay unique,  *)
(* receipts name rows that are there, no stale append commits, and the two *)
(* queries of appendEvent implement the atomic append of EventLog.         *)
(***************************************************************************)
EXTENDS PostgresExecutionJournal, JournalChain_proofs, SequenceTheorems

-----------------------------------------------------------------------------
(* The event between its SELECT and its INSERT.                            *)

(* The event appendEvent builds after reading rows 1..n.                   *)
LEMMA NextEventOfGapless ==
    ASSUME NEW rows, Gapless(rows), NEW s \in Session, NEW id \in EventId,
           NEW body \in Body
    PROVE  /\ IsStoredEvent(NextStoredEvent(rows, s, id, body))
           /\ NextStoredEvent(rows, s, id, body).sessionId = s
           /\ PendingFollowsSelect(rows, NextStoredEvent(rows, s, id, body))
<1> DEFINE event == NextStoredEvent(rows, s, id, body)
<1>1. /\ event.sessionId = s /\ event.eventId = id /\ event.body = body
      /\ event.sequence = LatestSequence(rows) + 1
      /\ PendingFollowsSelect(rows, event)
    BY NextFollowsSelect
<1>2. LatestSequence(rows) \in Nat
    BY DEF Gapless
<1>3. event = [ sessionId |-> event.sessionId, sequence |-> event.sequence,
                eventId |-> event.eventId, body |-> event.body,
                hashPrev |-> event.hashPrev, hashSelf |-> event.hashSelf ]
    BY DEF NextStoredEvent
<1> HIDE DEF event
<1>4. IsStoredEvent(event)
    BY <1>1, <1>2, <1>3 DEF IsStoredEvent
<1> QED
    BY <1>1, <1>4 DEF event

(* The primary key lets an INSERT through only under the sequence number   *)
(* right after the last row.                                               *)
LEMMA AllowedIsNext ==
    ASSUME NEW rows, Gapless(rows), NEW event, IsStoredEvent(event),
           PendingFollowsSelect(rows, event), InsertAllowed(rows, event)
    PROVE  event.sequence = LatestSequence(rows) + 1
BY FreeIsNext DEF IsStoredEvent, InsertAllowed

-----------------------------------------------------------------------------
(* The invariant is inductive.                                             *)

(* An empty table with no call under way satisfies the invariant.          *)
LEMMA InitIInv == Init => IInv
<1> SUFFICES ASSUME Init PROVE IInv
    OBVIOUS
<1>1. \A s \in Session : DOMAIN table[s] = {}
    BY DEF Init
<1>2. \A s \in Session : LatestSequence(table[s]) = 0
    BY <1>1 DEF LatestSequence
<1>3. TypeOK
    BY <1>1 DEF Init, TypeOK
<1>4. RowsLinked
    <2>1. \A s \in Session : Gapless(table[s])
        <3> TAKE s \in Session
        <3>1. LatestSequence(table[s]) = 0 /\ 0 \in Nat
            BY <1>2
        <3>2. DOMAIN table[s] = 1..0
            BY <1>1
        <3> QED
            BY <3>1, <3>2, Zenon DEF Gapless
    <2>2. \A s \in Session : Linked(table[s])
        BY <1>1 DEF Linked
    <2> QED
        BY <1>1, <2>1, <2>2 DEF RowsLinked
<1>5. InsertsFollowSelects /\ ReturnsAreStored
    BY DEF Init, Idle, InsertsFollowSelects, ReturnsAreStored
<1>6. AcknowledgedIsStored
    BY DEF Init, AcknowledgedIsStored
<1>7. EventIdsUnique
    BY <1>1 DEF EventIdsUnique
<1> QED
    BY <1>3, <1>4, <1>5, <1>6, <1>7 DEF IInv

(* Steps that leave the table alone keep the facts about its rows.         *)
LEMMA TableUnchanged ==
    ASSUME IInv, UNCHANGED table
    PROVE  /\ RowsLinked'
           /\ EventIdsUnique'
BY DEF IInv, RowsLinked, EventIdsUnique

(* The first query of appendEvent: the event built from its answer follows *)
(* the latest row, so it is a fit continuation of the chain as read.       *)
LEMMA SelectKeepsIInv ==
    ASSUME IInv, NEW c \in Caller, NEW s \in Session, NEW id \in EventId,
           NEW body \in Body, SelectLatest(c, s, id, body)
    PROVE  IInv'
<1> DEFINE event == NextStoredEvent(table[s], s, id, body)
<1>1. /\ UNCHANGED << table, acknowledged >>
      /\ call' = [call EXCEPT ![c] = Inserting(event)]
    BY DEF SelectLatest
<1>2. Gapless(table[s])
    BY DEF IInv, RowsLinked
<1>3. /\ IsStoredEvent(event)
      /\ event.sessionId = s
      /\ PendingFollowsSelect(table[s], event)
    BY <1>2, NextEventOfGapless
<1> HIDE DEF event
<1>4. TypeOK'
    BY <1>1, <1>3 DEF IInv, TypeOK, Inserting
<1>5. RowsLinked' /\ EventIdsUnique'
    BY <1>1, TableUnchanged
<1>6. InsertsFollowSelects'
    BY <1>1, <1>3 DEF IInv, TypeOK, InsertsFollowSelects, Inserting
<1>7. ReturnsAreStored'
    BY <1>1 DEF IInv, TypeOK, ReturnsAreStored, IsRow, Inserting
<1>8. AcknowledgedIsStored'
    BY <1>1 DEF IInv, AcknowledgedIsStored
<1> QED
    BY <1>4, <1>5, <1>6, <1>7, <1>8 DEF IInv

(* Resolve, InsertConflict and GiveUp end a call without touching a row.   *)
LEMMA EndKeepsIInv ==
    ASSUME IInv, NEW c \in Caller, Resolve(c) \/ InsertConflict(c) \/ GiveUp(c)
    PROVE  IInv'
<1>1. /\ UNCHANGED table
      /\ call' = [call EXCEPT ![c] = Idle]
    BY DEF Resolve, InsertConflict, GiveUp
<1>2. \A event \in acknowledged' :
        event \in acknowledged \/ (event = call[c].event /\ call[c].at = "return")
    BY DEF Resolve, InsertConflict, GiveUp
<1>3. call[c].at # "idle"
    BY DEF Resolve, InsertConflict, GiveUp
<1>4. IsStoredEvent(call[c].event)
    BY <1>3 DEF IInv, TypeOK, Idle, Inserting, Returning
<1>5. TypeOK'
    BY <1>1, <1>2, <1>4 DEF IInv, TypeOK
<1>6. RowsLinked' /\ EventIdsUnique'
    BY <1>1, TableUnchanged
<1>7. InsertsFollowSelects' /\ ReturnsAreStored'
    BY <1>1 DEF IInv, TypeOK, InsertsFollowSelects, ReturnsAreStored, IsRow, Idle
<1>8. AcknowledgedIsStored'
    BY <1>1, <1>2 DEF IInv, AcknowledgedIsStored, ReturnsAreStored, IsRow
<1> QED
    BY <1>5, <1>6, <1>7, <1>8 DEF IInv

(* The INSERT that commits extends one session at its end.                 *)
LEMMA InsertKeepsIInv ==
    ASSUME IInv, NEW c \in Caller, InsertRow(c)
    PROVE  IInv'
<1> DEFINE event == call[c].event
           s == event.sessionId
           n == LatestSequence(table[s])
<1>1. /\ call[c].at = "insert"
      /\ InsertAllowed(table[s], event)
      /\ table' = [table EXCEPT ![s] = WithRow(@, event)]
      /\ call' = [call EXCEPT ![c] = Returning(event)]
      /\ UNCHANGED acknowledged
    BY DEF InsertRow
<1>2. IsStoredEvent(event) /\ s \in Session
    BY <1>1 DEF IInv, TypeOK, Idle, IsStoredEvent
<1>3. Gapless(table[s]) /\ Linked(table[s])
    BY <1>2 DEF IInv, RowsLinked
<1>4. PendingFollowsSelect(table[s], event)
    BY <1>1 DEF IInv, InsertsFollowSelects
<1>5. n \in Nat /\ DOMAIN table[s] = 1..n /\ event.sequence = n + 1
    BY <1>1, <1>2, <1>3, <1>4, AllowedIsNext DEF Gapless
<1>6. DOMAIN table = Session /\ DOMAIN call = Caller
    BY DEF IInv, TypeOK
<1>7. /\ DOMAIN table'[s] = 1..(n + 1)
      /\ table'[s][n + 1] = event
      /\ \A m \in 1..n : table'[s][m] = table[s][m]
    <2> DEFINE rows == table[s]
    <2>1. table'[s] = WithRow(rows, event)
        BY <1>1, <1>2, <1>6
    <2>2. n \in Nat /\ DOMAIN rows = 1..n /\ event.sequence = n + 1
        BY <1>5
    <2> HIDE DEF rows, n, event
    <2>3. /\ DOMAIN WithRow(rows, event) = 1..(n + 1)
          /\ WithRow(rows, event)[n + 1] = event
          /\ \A m \in 1..n : WithRow(rows, event)[m] = rows[m]
        BY ONLY <2>2, WithNextRow
    <2> QED
        BY <2>1, <2>3 DEF rows
<1>8. DOMAIN table' = Session /\ \A t \in Session \ {s} : table'[t] = table[t]
    BY <1>1, <1>6
<1>9. /\ call'[c] = Returning(event)
      /\ DOMAIN call' = Caller
      /\ \A d \in Caller \ {c} : call'[d] = call[d]
    BY <1>1, <1>6
<1> HIDE DEF event, s, n
<1>10. TypeOK'
    <2>1. \A t \in Session : \A m \in DOMAIN table'[t] :
             m \in Nat \ {0} /\ IsStoredEvent(table'[t][m])
        <3>1. \A m \in 1..(n + 1) : m = n + 1 \/ m \in 1..n
            BY <1>5
        <3>2. \A m \in DOMAIN table'[s] :
                 m \in Nat \ {0} /\ IsStoredEvent(table'[s][m])
            BY <1>2, <1>5, <1>7, <3>1 DEF IInv, TypeOK
        <3> QED
            BY <1>8, <3>2 DEF IInv, TypeOK
    <2>2. \A d \in Caller :
             \/ call'[d] = Idle
             \/ \E e \in {call'[d].event} :
                   IsStoredEvent(e) /\ call'[d] \in {Inserting(e), Returning(e)}
        <3>1. call'[c].event = event
            BY <1>9 DEF Returning
        <3> QED
            BY <1>2, <1>9, <3>1 DEF IInv, TypeOK
    <2>3. \A e \in acknowledged' : IsStoredEvent(e)
        BY <1>1 DEF IInv, TypeOK
    <2> QED
        BY <1>8, <1>9, <2>1, <2>2, <2>3 DEF TypeOK
<1>11. RowsLinked'
    <2>1. table'[s] = WithRow(table[s], event)
        BY <1>1, <1>2, <1>6 DEF s
    <2>2. Gapless(table'[s]) /\ Linked(table'[s])
        BY <1>3, <1>4, <1>5, <2>1, AppendStaysLinked DEF n, s, event
    <2>4. \A m \in DOMAIN table'[s] : table'[s][m].sessionId = s
        <3>1. \A m \in 1..n : table[s][m].sessionId = s
            BY <1>2, <1>5 DEF IInv, RowsLinked
        <3> QED
            BY <1>5, <1>7, <3>1 DEF s
    <2> QED
        BY <1>8, <2>2, <2>4 DEF IInv, RowsLinked
<1>12. \A e : IsRow(table, e) /\ e.sessionId \in Session => IsRow(table', e)
    BY <1>2, <1>5, <1>7, <1>8 DEF IsRow
<1>13. InsertsFollowSelects'
    <2> SUFFICES ASSUME NEW d \in Caller, call'[d].at = "insert"
                 PROVE  PendingFollowsSelect(table'[call'[d].event.sessionId],
                                             call'[d].event)
        BY DEF InsertsFollowSelects
    <2> DEFINE pending == call[d].event
    <2>1. d # c /\ call'[d] = call[d]
        BY <1>9 DEF Returning
    <2>2. /\ PendingFollowsSelect(table[pending.sessionId], pending)
          /\ IsStoredEvent(pending)
        BY <2>1 DEF IInv, TypeOK, InsertsFollowSelects, Idle
    <2> SUFFICES PendingFollowsSelect(table'[pending.sessionId], pending)
        BY <2>1
    <2> HIDE DEF pending
    <2>3. CASE pending.sessionId = s
        <3>1. pending.sequence \in Nat \ {0}
            BY <2>2 DEF IsStoredEvent
        <3>2. table'[s] = WithRow(table[s], event)
            BY <1>1, <1>2, <1>6 DEF s
        <3> QED
            BY <1>3, <1>5, <2>2, <2>3, <3>1, <3>2, PendingOutlivesAppend DEF n
    <2>4. CASE pending.sessionId # s
        BY <1>8, <2>2, <2>4 DEF IsStoredEvent
    <2> QED
        BY <2>3, <2>4
<1>14. ReturnsAreStored'
    <2>1. IsRow(table', event)
        BY <1>5, <1>7 DEF IsRow, s
    <2>2. ASSUME NEW d \in Caller, d # c, call'[d].at = "return"
          PROVE  IsRow(table', call'[d].event)
        <3>1. IsRow(table, call[d].event) /\ IsStoredEvent(call[d].event)
            BY <1>9, <2>2 DEF IInv, TypeOK, ReturnsAreStored, Idle
        <3>2. IsRow(table', call[d].event)
            BY <1>12, <3>1 DEF IsStoredEvent
        <3> QED
            BY <1>9, <2>2, <3>2
    <2>3. call'[c].event = event
        BY <1>9 DEF Returning
    <2> QED
        BY <2>1, <2>2, <2>3 DEF ReturnsAreStored
<1>15. AcknowledgedIsStored'
    BY <1>1, <1>12 DEF IInv, TypeOK, IsStoredEvent, AcknowledgedIsStored, IsRow
<1>16. EventIdsUnique'
    <2>1. \A m \in 1..n : table[s][m].eventId # event.eventId
        BY <1>1, <1>5 DEF InsertAllowed, EventIds, event, s
    <2>2. ASSUME NEW l \in DOMAIN table'[s], NEW m \in DOMAIN table'[s],
                 table'[s][l].eventId = table'[s][m].eventId
          PROVE  l = m
        <3>1. /\ l \in 1..n \/ l = n + 1
              /\ m \in 1..n \/ m = n + 1
            BY <1>5, <1>7
        <3>2. \A k \in 1..n : table'[s][k].eventId = table[s][k].eventId
            BY <1>5, <1>7
        <3>3. table'[s][n + 1].eventId = event.eventId
            BY <1>7
        <3>4. CASE l \in 1..n /\ m \in 1..n
            BY <1>2, <1>5, <2>2, <3>2, <3>4 DEF IInv, EventIdsUnique
        <3> QED
            BY <2>1, <2>2, <3>1, <3>2, <3>3, <3>4
    <2> QED
        BY <1>8, <2>2 DEF IInv, EventIdsUnique
<1> QED
    BY <1>10, <1>11, <1>13, <1>14, <1>15, <1>16 DEF IInv

(* Every step of every caller keeps the invariant.                         *)
LEMMA StepKeepsIInv == IInv /\ [Next]_vars => IInv'
<1> SUFFICES ASSUME IInv, [Next]_vars PROVE IInv'
    OBVIOUS
<1>1. CASE UNCHANGED vars
    BY <1>1 DEF vars, IInv, TypeOK, RowsLinked, InsertsFollowSelects,
                ReturnsAreStored, AcknowledgedIsStored, EventIdsUnique
<1>2. ASSUME NEW c \in Caller, NEW s \in Session, NEW id \in EventId,
             NEW body \in Body, SelectLatest(c, s, id, body)
      PROVE  IInv'
    BY <1>2, SelectKeepsIInv
<1>3. ASSUME NEW c \in Caller, InsertRow(c)
      PROVE  IInv'
    BY <1>3, InsertKeepsIInv
<1>4. ASSUME NEW c \in Caller, Resolve(c) \/ InsertConflict(c) \/ GiveUp(c)
      PROVE  IInv'
    BY <1>4, EndKeepsIInv
<1> QED
    BY <1>1, <1>2, <1>3, <1>4 DEF Next

(* The inductive invariant holds in every reachable state: rows gapless and*)
(* linked, calls between their queries never ahead of the latest row, calls*)
(* about to resolve and receipts given out backed by a row.                *)
THEOREM InvariantHolds == Spec => []IInv
<1> QED
    BY InitIInv, StepKeepsIInv, PTL DEF Spec

-----------------------------------------------------------------------------
(* What the invariant gives.                                               *)

(* Rows, calls and receipts keep their types.                              *)
THEOREM TypeCorrect == Spec => []TypeOK
<1>1. IInv => TypeOK
    BY DEF IInv
<1> QED
    BY <1>1, InvariantHolds, PTL

(* verifyChain answers true for every session at any time: appendEvent     *)
(* needs no transaction, the primary key alone keeps racing appends from   *)
(* forking a chain.                                                        *)
THEOREM ChainAlwaysVerifies == Spec => []ChainVerifies
<1>1. IInv => ChainVerifies
    <2> SUFFICES ASSUME IInv, NEW s \in Session
                 PROVE  VerifyJournalEventChain(LoadSessionEvents(table[s]))
        BY DEF ChainVerifies, verifyChain
    <2> QED
        BY LinkedVerifies DEF IInv, RowsLinked
<1> QED
    BY <1>1, InvariantHolds, PTL

(* However often appends of one event id race or are retried, a session    *)
(* holds the id once.                                                      *)
THEOREM EventIdsStayUnique == Spec => []EventIdsUnique
<1>1. IInv => EventIdsUnique
    BY DEF IInv
<1> QED
    BY <1>1, InvariantHolds, PTL

(* What appendEvent resolved with stays in the table.                      *)
THEOREM ReceiptsHold == Spec => []AcknowledgedIsStored
<1>1. IInv => AcknowledgedIsStored
    BY DEF IInv
<1> QED
    BY <1>1, InvariantHolds, PTL

(* A row built from an outdated SELECT never commits.                      *)
THEOREM NoStaleAppend == Spec => []StaleAppendCannotCommit
<1>1. IInv => StaleAppendCannotCommit
    <2> SUFFICES ASSUME IInv, NEW c \in Caller, call[c].at = "insert",
                        InsertAllowed(table[call[c].event.sessionId], call[c].event)
                 PROVE  call[c].event =
                          NextStoredEvent(table[call[c].event.sessionId],
                                          call[c].event.sessionId,
                                          call[c].event.eventId, call[c].event.body)
        BY DEF StaleAppendCannotCommit
    <2> DEFINE event == call[c].event
               rows == table[event.sessionId]
    <2>1. IsStoredEvent(event)
        BY DEF IInv, TypeOK, Idle
    <2>2. Gapless(rows) /\ PendingFollowsSelect(rows, event)
        BY <2>1 DEF IInv, RowsLinked, InsertsFollowSelects, IsStoredEvent
    <2> HIDE DEF rows, event
    <2>3. event.sequence = LatestSequence(rows) + 1
        BY <2>1, <2>2, AllowedIsNext DEF rows, event
    <2>4. /\ LatestSequence(rows) \in Nat
          /\ event.hashPrev = LatestHash(rows)
        BY <2>2, <2>3 DEF Gapless, PendingFollowsSelect, LatestHash
    <2>5. event.hashSelf = HashJournalEventContent(event)
        BY <2>2 DEF PendingFollowsSelect
    <2>6. event = NextStoredEvent(rows, event.sessionId, event.eventId, event.body)
        BY <2>1, <2>3, <2>4, <2>5
           DEF IsStoredEvent, NextStoredEvent, HashJournalEventContent
    <2> QED
        BY <2>6 DEF rows, event
<1> QED
    BY <1>1, InvariantHolds, PTL

(* Rows with one row gone, not the last: reading in sequence order puts a  *)
(* later row at the lost row's place.                                      *)
LEMMA LoadWithoutRow ==
    ASSUME NEW rows, NEW l \in Nat, DOMAIN rows = 1..l,
           NEW n \in 1..l, n < l,
           NEW left, left = [m \in DOMAIN rows \ {n} |-> rows[m]]
    PROVE  /\ n \in DOMAIN LoadSessionEvents(left)
           /\ LoadSessionEvents(left)[n] = rows[n + 1]
<1> DEFINE Rank(k) == Cardinality({m \in DOMAIN left : m <= k})
<1>1. DOMAIN left = (1..l) \ {n} /\ \A m \in (1..l) \ {n} : left[m] = rows[m]
    OBVIOUS
<1>2. Cardinality(DOMAIN left) = l - 1
    <2>1. IsFiniteSet(1..l) /\ Cardinality(1..l) = l
        BY FS_Interval
    <2>2. Cardinality((1..l) \ {n}) = Cardinality(1..l) - 1
        BY <2>1, FS_RemoveElement
    <2> QED
        BY <1>1, <2>1, <2>2
<1>3. \A k \in (1..l) \ {n} : Rank(k) = IF k < n THEN k ELSE k - 1
    <2> TAKE k \in (1..l) \ {n}
    <2>1. IsFiniteSet(1..k) /\ Cardinality(1..k) = k
        <3>1. k \in Nat /\ k >= 1
            OBVIOUS
        <3> QED
            BY <3>1, FS_Interval, SMTT(30)
    <2>2. CASE k < n
        <3>1. {m \in DOMAIN left : m <= k} = 1..k
            BY <1>1, <2>2
        <3> QED
            BY <2>1, <2>2, <3>1
    <2>3. CASE ~(k < n)
        <3>1. {m \in DOMAIN left : m <= k} = (1..k) \ {n}
            BY <1>1, <2>3
        <3>2. n \in 1..k
            BY <2>3
        <3>3. Cardinality((1..k) \ {n}) = Cardinality(1..k) - 1
            BY <2>1, <3>2, FS_RemoveElement
        <3> QED
            BY <2>1, <2>3, <3>1, <3>3
    <2> QED
        BY <2>2, <2>3
<1>4. (CHOOSE k \in DOMAIN left : Rank(k) = n) = n + 1
    <2>1. n + 1 \in DOMAIN left /\ Rank(n + 1) = n
        BY <1>1, <1>3
    <2>2. \A k \in DOMAIN left : Rank(k) = n => k = n + 1
        BY <1>1, <1>3
    <2> HIDE DEF Rank
    <2> QED
        BY <2>1, <2>2
<1>5. LoadSessionEvents(left) =
        [i \in 1..(l - 1) |-> left[CHOOSE k \in DOMAIN left : Rank(k) = i]]
    BY <1>2 DEF LoadSessionEvents, InOrder
<1>6. n \in 1..(l - 1) /\ n + 1 \in (1..l) \ {n}
    OBVIOUS
<1>7. left[CHOOSE k \in DOMAIN left : Rank(k) = n] = rows[n + 1]
    BY ONLY <1>1, <1>4, <1>6
<1> HIDE DEF Rank
<1> QED
    BY ONLY <1>5, <1>6, <1>7

(* Reading in sequence order leaves no row out.                            *)
LEMMA LoadReadsEveryRow ==
    ASSUME NEW rows, IsFiniteSet(DOMAIN rows), DOMAIN rows \subseteq Int,
           NEW k \in DOMAIN rows
    PROVE  \E i \in DOMAIN LoadSessionEvents(rows) :
             LoadSessionEvents(rows)[i] = rows[k]
<1> DEFINE Upto(n) == {m \in DOMAIN rows : m <= n}
           Rank(n) == Cardinality(Upto(n))
           Place(i) == CHOOSE n \in DOMAIN rows : Rank(n) = i
<1>1. \A n \in DOMAIN rows :
        /\ IsFiniteSet(Upto(n))
        /\ Rank(n) \in 1..Cardinality(DOMAIN rows)
    <2> TAKE n \in DOMAIN rows
    <2>1. Upto(n) \in SUBSET DOMAIN rows
        OBVIOUS
    <2>2. n \in Upto(n)
        OBVIOUS
    <2> HIDE DEF Upto
    <2>3. IsFiniteSet(Upto(n)) /\ Rank(n) <= Cardinality(DOMAIN rows)
        BY <2>1, FS_Subset
    <2>4. Rank(n) \in Nat /\ Cardinality(DOMAIN rows) \in Nat
        BY <2>3, FS_CardinalityType
    <2>5. Rank(n) # 0
        BY <2>2, <2>3, FS_EmptySet
    <2> QED
        BY <2>3, <2>4, <2>5
<1>2. ASSUME NEW m \in DOMAIN rows, NEW n \in DOMAIN rows, Rank(m) = Rank(n)
      PROVE  m = n
    <2>1. Upto(m) \subseteq Upto(n) \/ Upto(n) \subseteq Upto(m)
        OBVIOUS
    <2>2. m \in Upto(m) /\ n \in Upto(n)
        OBVIOUS
    <2>3. Upto(m) = Upto(n)
        <3> HIDE DEF Upto
        <3> QED
            BY <1>1, <1>2, <2>1, FS_Subset
    <2>4. m \in Upto(n) /\ n \in Upto(m)
        BY ONLY <2>2, <2>3
    <2> QED
        BY <2>4
<1>3. Place(Rank(k)) = k
    <2>1. \E n \in DOMAIN rows : Rank(n) = Rank(k)
        OBVIOUS
    <2>2. Place(Rank(k)) \in DOMAIN rows /\ Rank(Place(Rank(k))) = Rank(k)
        <3> HIDE DEF Rank
        <3> QED
            BY <2>1
    <2> HIDE DEF Place, Rank
    <2> QED
        BY <1>2, <2>2
<1>4. LoadSessionEvents(rows) =
        [i \in 1..Cardinality(DOMAIN rows) |-> rows[Place(i)]]
    BY DEF LoadSessionEvents, InOrder
<1> HIDE DEF Place, Rank, Upto
<1> QED
    BY <1>1, <1>3, <1>4

(* One row whose hash is not the hash of its content is enough.            *)
LEMMA WrongHashIsDetected ==
    ASSUME NEW rows, IsFiniteSet(DOMAIN rows), DOMAIN rows \subseteq Int,
           NEW k \in DOMAIN rows,
           rows[k].hashSelf # HashJournalEventContent(rows[k])
    PROVE  ~ VerifyJournalEventChain(LoadSessionEvents(rows))
<1>1. PICK i \in DOMAIN LoadSessionEvents(rows) :
           LoadSessionEvents(rows)[i] = rows[k]
    BY LoadReadsEveryRow
<1>2. LoadSessionEvents(rows)[i].hashSelf #
        HashJournalEventContent(LoadSessionEvents(rows)[i])
    BY <1>1
<1> QED
    BY <1>2 DEF VerifyJournalEventChain

(* A row with one column changed hashes to something else than it says.    *)
LEMMA AlteredHashIsWrong ==
    ASSUME NEW row, IsStoredEvent(row),
           row.hashSelf = HashJournalEventContent(row),
           NEW altered \in AlteredRows(row)
    PROVE  /\ altered.hashSelf # HashJournalEventContent(altered)
           /\ altered.sessionId \in Session
           /\ altered.sequence \in Int
<1>1. PICK hash : hash = row.hashSelf
    OBVIOUS
<1>2. /\ \/ /\ altered.hashSelf = row.hashSelf
            /\ \/ altered.sessionId # row.sessionId
               \/ altered.sequence # row.sequence
               \/ altered.eventId # row.eventId
               \/ altered.body # row.body
               \/ altered.hashPrev # row.hashPrev
         \/ /\ altered.hashSelf # row.hashSelf
            /\ altered.sessionId = row.sessionId
            /\ altered.sequence = row.sequence
            /\ altered.eventId = row.eventId
            /\ altered.body = row.body
            /\ altered.hashPrev = row.hashPrev
      /\ altered.sessionId \in Session
      /\ altered.sequence \in Int
    BY NumberAssumption DEF AlteredRows, IsStoredEvent
<1> QED
    BY <1>2 DEF HashJournalEventContent

(* A chain the journal wrote stops verifying when one column of one row    *)
(* changes, in the session the row is then of, and when any row but a      *)
(* session's last is lost or moved away.                                   *)
THEOREM ChangesAreDetected == Spec => []ChangeIsDetected
<1>1. IInv => ChangeIsDetected
    <2> SUFFICES ASSUME IInv, NEW s \in Session, NEW n \in DOMAIN table[s]
                 PROVE  LET rest == WithoutRow(table, s, n) IN
                        /\ \A altered \in AlteredRows(table[s][n]) :
                             ~ verifyChain(WithRowOf(rest, altered), altered.sessionId)
                        /\ n < LatestSequence(table[s]) => ~ verifyChain(rest, s)
        BY DEF ChangeIsDetected
    <2> DEFINE l == LatestSequence(table[s])
               row == table[s][n]
               rest == WithoutRow(table, s, n)
    <2>1. l \in Nat /\ DOMAIN table[s] = 1..l /\ Linked(table[s]) /\ n \in 1..l
        BY DEF IInv, RowsLinked, Gapless
    <2>2. row.hashSelf = HashJournalEventContent(row) /\ IsStoredEvent(row)
        BY <2>1 DEF Linked, IInv, TypeOK
    <2>3. /\ DOMAIN rest = Session
          /\ rest[s] = [m \in (DOMAIN table[s]) \ {n} |-> table[s][m]]
          /\ \A t \in Session \ {s} : rest[t] = table[t]
        BY DEF IInv, TypeOK, WithoutRow
    <2>4. \A t \in Session : IsFiniteSet(DOMAIN rest[t]) /\ DOMAIN rest[t] \subseteq Int
        <3> TAKE t \in Session
        <3> DEFINE m == LatestSequence(table[t])
        <3>1. m \in Nat /\ DOMAIN table[t] = 1..m
            BY DEF IInv, RowsLinked, Gapless
        <3> HIDE DEF m
        <3>2. IsFiniteSet(1..m) /\ IsFiniteSet((1..m) \ {n}) /\ 1..m \subseteq Int
            <4>1. IsFiniteSet(1..m) /\ 1..m \subseteq Int
                BY <3>1, FS_Interval
            <4> QED
                BY <4>1, FS_RemoveElement
        <3>3. DOMAIN rest[t] = IF t = s THEN (1..m) \ {n} ELSE 1..m
            BY <2>3, <3>1
        <3> HIDE DEF rest
        <3> QED
            BY <3>2, <3>3
    <2>5. ASSUME NEW altered \in AlteredRows(row)
          PROVE  ~ verifyChain(WithRowOf(rest, altered), altered.sessionId)
        <3> DEFINE t == altered.sessionId
                   rows == WithRowOf(rest, altered)[t]
        <3>1. /\ altered.hashSelf # HashJournalEventContent(altered)
              /\ t \in Session
              /\ altered.sequence \in Int
            BY <2>2, AlteredHashIsWrong
        <3>2. rows = WithRow(rest[t], altered)
            BY <2>3, <3>1 DEF WithRowOf
        <3>3. /\ DOMAIN rows = DOMAIN rest[t] \cup {altered.sequence}
              /\ rows[altered.sequence] = altered
            BY <3>2 DEF WithRow
        <3>4. IsFiniteSet(DOMAIN rest[t]) /\ DOMAIN rest[t] \subseteq Int
            BY <2>4, <3>1
        <3> HIDE DEF rest, rows, t
        <3>5. IsFiniteSet(DOMAIN rows) /\ DOMAIN rows \subseteq Int
            BY <3>1, <3>3, <3>4, FS_AddElement
        <3>6. ~ VerifyJournalEventChain(LoadSessionEvents(rows))
            BY <3>1, <3>3, <3>5, WrongHashIsDetected
        <3> QED
            BY <3>6 DEF verifyChain, rows, t
    <2>6. ASSUME n < l
          PROVE  ~ verifyChain(rest, s)
        <3> DEFINE events == LoadSessionEvents(rest[s])
        <3>1. n \in DOMAIN events /\ events[n] = table[s][n + 1]
            <4> DEFINE rows == table[s]
                       left == rest[s]
            <4>1. /\ l \in Nat /\ DOMAIN rows = 1..l /\ n \in 1..l /\ n < l
                  /\ left = [m \in (DOMAIN rows) \ {n} |-> rows[m]]
                BY <2>1, <2>3, <2>6
            <4> HIDE DEF rows, left, l
            <4>2. /\ n \in DOMAIN LoadSessionEvents(left)
                  /\ LoadSessionEvents(left)[n] = rows[n + 1]
                BY ONLY <4>1, LoadWithoutRow
            <4> QED
                BY <4>2 DEF rows, left
        <3>2. table[s][n + 1].sequence # n
            <4>1. n + 1 \in DOMAIN table[s] /\ n + 1 # n
                BY <2>1, <2>6
            <4>2. table[s][n + 1].sequence = n + 1
                BY <2>1, <4>1 DEF Linked
            <4> QED
                BY <4>1, <4>2
        <3> HIDE DEF events
        <3>3. events[n].sequence # n
            BY <3>1, <3>2
        <3>4. ~ VerifyJournalEventChain(events)
            BY ONLY <3>1, <3>3 DEF VerifyJournalEventChain
        <3> QED
            BY <3>4 DEF events, verifyChain
    <2> QED
        BY <2>5, <2>6
<1> QED
    BY <1>1, InvariantHolds, PTL

-----------------------------------------------------------------------------
(* The refinement.                                                         *)

(* The empty table is the empty log.                                       *)
LEMMA InitRefines == Init => Log!LogInit
BY DEF Init, Log!LogInit, LogOfTable, ReceiptsOf

(* The committed INSERT is the append, at the end of one log, of an entry  *)
(* whose id that log does not hold.                                        *)
LEMMA InsertRefines ==
    ASSUME IInv, NEW c \in Caller, InsertRow(c)
    PROVE  \E s \in Session, entry \in Log!Entry : Log!LogAppend(s, entry)
<1> DEFINE event == call[c].event
           s == event.sessionId
           n == LatestSequence(table[s])
<1>1. /\ call[c].at = "insert"
      /\ InsertAllowed(table[s], event)
      /\ table' = [table EXCEPT ![s] = WithRow(@, event)]
      /\ UNCHANGED acknowledged
    BY DEF InsertRow
<1>2. IsStoredEvent(event) /\ s \in Session
    BY <1>1 DEF IInv, TypeOK, Idle, IsStoredEvent
<1>3. Gapless(table[s]) /\ PendingFollowsSelect(table[s], event)
    BY <1>1, <1>2 DEF IInv, RowsLinked, InsertsFollowSelects
<1>4. n \in Nat /\ DOMAIN table[s] = 1..n /\ event.sequence = n + 1
    BY <1>1, <1>2, <1>3, AllowedIsNext DEF Gapless
<1>5. DOMAIN table = Session
    BY DEF IInv, TypeOK
<1>6. table'[s] = WithRow(table[s], event) /\ \A t \in Session \ {s} : table'[t] = table[t]
    BY <1>1, <1>2, <1>5
<1>7. /\ DOMAIN table'[s] = 1..(n + 1)
      /\ table'[s][n + 1] = event
      /\ \A m \in 1..n : table'[s][m] = table[s][m]
    <2> DEFINE rows == table[s]
    <2>1. n \in Nat /\ DOMAIN rows = 1..n /\ event.sequence = n + 1
        BY <1>4
    <2> HIDE DEF rows, n, event
    <2>2. /\ DOMAIN WithRow(rows, event) = 1..(n + 1)
          /\ WithRow(rows, event)[n + 1] = event
          /\ \A m \in 1..n : WithRow(rows, event)[m] = rows[m]
        BY ONLY <2>1, WithNextRow
    <2> QED
        BY <1>6, <2>2 DEF rows
<1>8. EntryOf(event) \in Log!Entry
    <2>1. event.eventId \in EventId /\ event.body \in Body
        BY <1>2 DEF IsStoredEvent
    <2> QED
        BY ONLY <2>1 DEF EntryOf, Log!Entry
<1>9. \A i \in DOMAIN LogOfTable[s] : LogOfTable[s][i].eventId # EntryOf(event).eventId
    <2>1. DOMAIN LogOfTable[s] = 1..n
          /\ \A i \in 1..n : LogOfTable[s][i] = EntryOf(table[s][i])
        BY <1>2, <1>4 DEF LogOfTable
    <2>2. \A i \in 1..n : table[s][i].eventId # event.eventId
        <3>1. event.eventId \notin EventIds(table[s])
            BY <1>1 DEF InsertAllowed
        <3> HIDE DEF event, s, n
        <3> QED
            BY <1>4, <3>1 DEF EventIds
    <2>3. /\ \A i \in 1..n : EntryOf(table[s][i]).eventId = table[s][i].eventId
          /\ EntryOf(event).eventId = event.eventId
        BY DEF EntryOf
    <2> HIDE DEF event, s, n
    <2> QED
        BY <2>1, <2>2, <2>3
<1> HIDE DEF event, s, n
<1>10. LogOfTable' = [LogOfTable EXCEPT ![s] = Append(@, EntryOf(event))]
    <2>1. \A t \in Session : LogOfTable[t] = [m \in DOMAIN table[t] |-> EntryOf(table[t][m])]
        BY DEF LogOfTable
    <2>2. LogOfTable' = [t \in Session |-> [m \in DOMAIN table'[t] |-> EntryOf(table'[t][m])]]
        BY DEF LogOfTable
    <2>3. [m \in DOMAIN table'[s] |-> EntryOf(table'[s][m])] =
            Append(LogOfTable[s], EntryOf(event))
        <3> DEFINE old == [m \in 1..n |-> EntryOf(table[s][m])]
                   new == [m \in 1..(n + 1) |-> EntryOf(table'[s][m])]
                   E == {EntryOf(table[s][m]) : m \in 1..n} \cup {EntryOf(event)}
        <3>1. old \in Seq(E) /\ Len(old) = n /\ EntryOf(event) \in E
            BY <1>4
        <3>2. new \in Seq(E) /\ Len(new) = n + 1
            BY <1>4, <1>7
        <3>3. /\ \A m \in 1..n : new[m] = old[m]
              /\ new[n + 1] = EntryOf(event)
            BY <1>4, <1>7
        <3> HIDE DEF old, new, E
        <3>4. /\ Append(old, EntryOf(event)) \in Seq(E)
              /\ Len(Append(old, EntryOf(event))) = n + 1
              /\ \A m \in 1..n : Append(old, EntryOf(event))[m] = old[m]
              /\ Append(old, EntryOf(event))[n + 1] = EntryOf(event)
            BY <3>1, AppendProperties
        <3>5. new = Append(old, EntryOf(event))
            <4>1. \A m \in 1..(n + 1) : m = n + 1 \/ m \in 1..n
                BY <1>4
            <4>2. \A m \in 1..Len(new) : new[m] = Append(old, EntryOf(event))[m]
                BY <3>2, <3>3, <3>4, <4>1
            <4> QED
                BY <3>2, <3>4, <4>2, SeqEqual
        <3> USE DEF old, new
        <3> QED
            BY <1>2, <1>4, <1>7, <2>1, <3>5
    <2> QED
        BY <1>2, <1>6, <2>1, <2>2, <2>3 DEF LogOfTable
<1>11. ReceiptsOf' = ReceiptsOf
    BY <1>1 DEF ReceiptsOf
<1> QED
    BY <1>2, <1>8, <1>9, <1>10, <1>11 DEF Log!LogAppend

(* Resolving is the receipt for the entry at the event's sequence.         *)
LEMMA ResolveRefines ==
    ASSUME IInv, NEW c \in Caller, Resolve(c)
    PROVE  \E s \in Session : \E i \in DOMAIN LogOfTable[s] : Log!LogAcknowledge(s, i)
<1> DEFINE event == call[c].event
           s == event.sessionId
<1>1. /\ call[c].at = "return"
      /\ acknowledged' = acknowledged \cup {event}
      /\ UNCHANGED table
    BY DEF Resolve
<1>2. IsStoredEvent(event) /\ s \in Session /\ IsRow(table, event)
    BY <1>1 DEF IInv, TypeOK, ReturnsAreStored, Idle, IsStoredEvent
<1> HIDE DEF event, s
<1>3. /\ event.sequence \in DOMAIN LogOfTable[s]
      /\ LogOfTable[s][event.sequence] = EntryOf(event)
    BY <1>2 DEF LogOfTable, IsRow, s
<1>4. ReceiptsOf' = ReceiptsOf \cup {<< s, event.sequence, EntryOf(event) >>}
    BY <1>1 DEF ReceiptsOf, s
<1>5. LogOfTable' = LogOfTable
    BY <1>1 DEF LogOfTable
<1> QED
    BY <1>2, <1>3, <1>4, <1>5 DEF Log!LogAcknowledge

(* Racing, unordered, abandoned two-query appends look to every observer   *)
(* like atomic appends to one log per session.                             *)
THEOREM JournalImplementsEventLog == Spec => ImplementsEventLog
<1>1. IInv /\ [Next]_vars => [Log!LogNext]_(Log!logVars)
    <2> SUFFICES ASSUME IInv, [Next]_vars
                 PROVE  Log!LogNext \/ (UNCHANGED << LogOfTable, ReceiptsOf >>)
        BY DEF Log!logVars
    <2>1. ASSUME UNCHANGED << table, acknowledged >>
          PROVE  UNCHANGED << LogOfTable, ReceiptsOf >>
        BY <2>1 DEF LogOfTable, ReceiptsOf
    <2>2. ASSUME NEW c \in Caller, InsertRow(c) PROVE Log!LogNext
        BY <2>2, InsertRefines DEF Log!LogNext
    <2>3. ASSUME NEW c \in Caller, Resolve(c) PROVE Log!LogNext
        BY <2>3, ResolveRefines DEF Log!LogNext
    <2>4. CASE \E c \in Caller :
                  \/ \E s \in Session, id \in EventId, body \in Body :
                        SelectLatest(c, s, id, body)
                  \/ InsertConflict(c)
                  \/ GiveUp(c)
        BY <2>1, <2>4 DEF SelectLatest, InsertConflict, GiveUp
    <2>5. CASE UNCHANGED vars
        BY <2>1, <2>5 DEF vars
    <2> QED
        BY <2>2, <2>3, <2>4, <2>5 DEF Next
<1> QED
    BY <1>1, InitRefines, InvariantHolds, PTL DEF Spec, ImplementsEventLog, Log!LogSpec

=============================================================================
