-------------------------- MODULE JournalChain_proofs --------------------------
(***************************************************************************)
(* The row arithmetic of the execution journal, for any rows: what a       *)
(* session without gaps answers to the queries of appendEvent and of       *)
(* loadSessionEvents, and that an event built from the latest row          *)
(* continues its chain.                                                    *)
(***************************************************************************)
EXTENDS JournalChain, FiniteSetTheorems, TLAPS

-----------------------------------------------------------------------------
(* The row arithmetic on gapless rows.                                     *)

(* SELECT ... ORDER BY sequence DESC LIMIT 1 on rows 1..n answers row n.   *)
LEMMA LatestOfGapless ==
    ASSUME NEW rows, NEW n \in Nat, DOMAIN rows = 1..n
    PROVE  LatestSequence(rows) = n
<1>1. CASE n = 0
    BY <1>1 DEF LatestSequence
<1>2. CASE n # 0
    <2>1. n \in 1..n /\ \A m \in 1..n : m <= n
        BY <1>2
    <2>2. \A k \in 1..n : (\A m \in 1..n : m <= k) => k = n
        BY <1>2
    <2> DEFINE IsLast(k) == \A m \in DOMAIN rows : m <= k
    <2>3. PICK k \in DOMAIN rows : k = (CHOOSE j \in DOMAIN rows : IsLast(j)) /\ IsLast(k)
        BY <2>1
    <2>4. k = n
        BY <2>2, <2>3
    <2>5. DOMAIN rows # {}
        BY <2>1
    <2> QED
        BY <2>3, <2>4, <2>5 DEF LatestSequence
<1> QED
    BY <1>1, <1>2

(* Writing the event after the last row adds it at the end and leaves the  *)
(* other rows alone.                                                       *)
LEMMA WithNextRow ==
    ASSUME NEW rows, NEW n \in Nat, DOMAIN rows = 1..n,
           NEW event, event.sequence = n + 1
    PROVE  /\ DOMAIN WithRow(rows, event) = 1..(n + 1)
           /\ WithRow(rows, event)[n + 1] = event
           /\ \A m \in 1..n : WithRow(rows, event)[m] = rows[m]
<1>1. (1..n) \cup {n + 1} = 1..(n + 1)
    OBVIOUS
<1> QED
    BY <1>1 DEF WithRow

(* Rows 1..n in order: row i at place i.                                   *)
LEMMA InOrderOfGapless ==
    ASSUME NEW rows, NEW n \in Nat, DOMAIN rows = 1..n
    PROVE  InOrder(rows) = [i \in 1..n |-> rows[i]]
<1> DEFINE Rank(k) == Cardinality({m \in DOMAIN rows : m <= k})
           Place(i) == CHOOSE k \in DOMAIN rows : Rank(k) = i
<1>1. Cardinality(1..n) = n
    BY FS_Interval
<1>2. \A k \in 1..n : Rank(k) = k
    <2> TAKE k \in 1..n
    <2>1. {m \in DOMAIN rows : m <= k} = 1..k
        OBVIOUS
    <2>2. Cardinality(1..k) = k
        BY FS_Interval
    <2> QED
        BY <2>1, <2>2
<1>3. ASSUME NEW i \in 1..n
      PROVE  Place(i) = i
    <2>1. i \in DOMAIN rows /\ Rank(i) = i
        BY <1>2
    <2>2. \A k \in DOMAIN rows : Rank(k) = i => k = i
        BY <1>2
    <2> HIDE DEF Rank
    <2> QED
        BY <2>1, <2>2
<1>4. InOrder(rows) = [i \in 1..n |-> rows[Place(i)]]
    BY <1>1 DEF InOrder
<1> HIDE DEF Place
<1> QED
    BY <1>3, <1>4

(* SELECT ... ORDER BY sequence ASC on rows 1..n answers row i at place i. *)
LEMMA LoadOfGapless ==
    ASSUME NEW rows, NEW n \in Nat, DOMAIN rows = 1..n
    PROVE  /\ DOMAIN LoadSessionEvents(rows) = 1..n
           /\ \A i \in 1..n : LoadSessionEvents(rows)[i] = rows[i]
BY InOrderOfGapless DEF LoadSessionEvents

-----------------------------------------------------------------------------
(* The chain.                                                              *)

(* The event built from a SELECT on rows without gaps continues them.      *)
THEOREM NextFollowsSelect ==
    ASSUME NEW rows, Gapless(rows), NEW s, NEW id, NEW body
    PROVE  LET event == NextStoredEvent(rows, s, id, body)
           IN  /\ HasFields(event)
               /\ event.sessionId = s /\ event.eventId = id /\ event.body = body
               /\ event.sequence = LatestSequence(rows) + 1
               /\ PendingFollowsSelect(rows, event)
<1> DEFINE event == NextStoredEvent(rows, s, id, body)
<1>1. /\ HasFields(event)
      /\ event.sessionId = s /\ event.eventId = id /\ event.body = body
      /\ event.sequence = LatestSequence(rows) + 1
      /\ event.hashPrev = LatestHash(rows)
      /\ event.hashSelf = HashJournalEventContent(event)
    BY DEF NextStoredEvent, HashJournalEventContent, HasFields
<1>2. LatestSequence(rows) \in Nat /\ DOMAIN rows = 1..LatestSequence(rows)
    BY DEF Gapless
<1>3. event.hashPrev = IF event.sequence = 1 THEN NoHash
                       ELSE rows[event.sequence - 1].hashSelf
    BY <1>1, <1>2 DEF LatestHash
<1> HIDE DEF event
<1>4. PendingFollowsSelect(rows, event)
    BY <1>1, <1>2, <1>3 DEF PendingFollowsSelect
<1> QED
    BY <1>1, <1>4 DEF event

(* A sequence number that is not taken yet is the next one, if the event   *)
(* follows a SELECT on these rows or on fewer.                             *)
LEMMA FreeIsNext ==
    ASSUME NEW rows, Gapless(rows), NEW event, event.sequence \in Nat \ {0},
           PendingFollowsSelect(rows, event), event.sequence \notin DOMAIN rows
    PROVE  event.sequence = LatestSequence(rows) + 1
<1>1. /\ LatestSequence(rows) \in Nat
      /\ event.sequence \notin 1..LatestSequence(rows)
      /\ event.sequence - 1 <= LatestSequence(rows)
    BY DEF Gapless, PendingFollowsSelect
<1> QED
    BY <1>1

(* Written under the next number, an event that follows its SELECT leaves  *)
(* the rows without gaps and linked.                                       *)
LEMMA AppendStaysLinked ==
    ASSUME NEW rows, Gapless(rows), Linked(rows), NEW event,
           event.sequence = LatestSequence(rows) + 1,
           PendingFollowsSelect(rows, event)
    PROVE  /\ LatestSequence(WithRow(rows, event)) = LatestSequence(rows) + 1
           /\ Gapless(WithRow(rows, event)) /\ Linked(WithRow(rows, event))
<1> DEFINE n == LatestSequence(rows)
           after == WithRow(rows, event)
<1>1. n \in Nat /\ DOMAIN rows = 1..n /\ event.sequence = n + 1
    BY DEF Gapless
<1>2. /\ DOMAIN after = 1..(n + 1) /\ after[n + 1] = event
      /\ \A m \in 1..n : after[m] = rows[m]
    BY <1>1, WithNextRow
<1> HIDE DEF n, after
<1>3. LatestSequence(after) = n + 1
    <2>1. n + 1 \in Nat
        BY <1>1
    <2> QED
        BY <1>2, <2>1, LatestOfGapless
<1>4. Gapless(after)
    BY <1>1, <1>2, <1>3 DEF Gapless
<1>5. Linked(after)
    <2> SUFFICES ASSUME NEW m \in DOMAIN after
                 PROVE  /\ after[m].sequence = m
                        /\ after[m].hashPrev =
                             IF m = 1 THEN NoHash ELSE after[m - 1].hashSelf
                        /\ after[m].hashSelf = HashJournalEventContent(after[m])
        BY DEF Linked
    <2>1. CASE m \in 1..n
        <3>1. m # 1 => m - 1 \in 1..n
            BY <1>1, <2>1
        <3> QED
            BY <1>1, <1>2, <2>1, <3>1 DEF Linked
    <2>2. CASE m = n + 1
        <3>1. m # 1 => m - 1 \in 1..n /\ m - 1 = n
            BY <1>1, <2>2
        <3> QED
            BY <1>1, <1>2, <2>2, <3>1 DEF PendingFollowsSelect
    <2> QED
        BY <1>1, <1>2, <2>1, <2>2
<1> QED
    BY <1>3, <1>4, <1>5 DEF n, after

(* An event that follows its SELECT still does when rows were added since. *)
LEMMA PendingOutlivesAppend ==
    ASSUME NEW rows, Gapless(rows), NEW event,
           event.sequence = LatestSequence(rows) + 1,
           NEW pending, pending.sequence \in Nat \ {0},
           PendingFollowsSelect(rows, pending)
    PROVE  PendingFollowsSelect(WithRow(rows, event), pending)
<1> DEFINE n == LatestSequence(rows)
           after == WithRow(rows, event)
<1>1. n \in Nat /\ DOMAIN rows = 1..n /\ event.sequence = n + 1
    BY DEF Gapless
<1>2. DOMAIN after = 1..(n + 1) /\ \A m \in 1..n : after[m] = rows[m]
    BY <1>1, WithNextRow
<1> HIDE DEF after
<1>3. LatestSequence(after) = n + 1
    <2>1. n + 1 \in Nat
        BY <1>1
    <2> QED
        BY <1>2, <2>1, LatestOfGapless
<1>4. pending.sequence - 1 <= n
    BY DEF PendingFollowsSelect
<1> HIDE DEF n
<1>5. pending.sequence # 1 => pending.sequence - 1 \in 1..n
    BY <1>1, <1>4
<1>6. pending.sequence - 1 <= n + 1
    BY <1>1, <1>4
<1> QED
    BY <1>2, <1>3, <1>5, <1>6 DEF PendingFollowsSelect, after

(* Rows without gaps that are linked verify when they are read.            *)
THEOREM LinkedVerifies ==
    ASSUME NEW rows, Gapless(rows), Linked(rows)
    PROVE  VerifyJournalEventChain(LoadSessionEvents(rows))
<1> DEFINE n == LatestSequence(rows)
           events == LoadSessionEvents(rows)
<1>1. n \in Nat /\ DOMAIN rows = 1..n
    BY DEF Gapless
<1>2. DOMAIN events = 1..n /\ \A i \in 1..n : events[i] = rows[i]
    BY <1>1, LoadOfGapless
<1>3. \A i \in 1..n : i # 1 => i - 1 \in 1..n
    BY <1>1
<1> HIDE DEF n, events
<1> QED
    BY <1>1, <1>2, <1>3 DEF VerifyJournalEventChain, Linked, events
=============================================================================
