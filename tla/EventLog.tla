------------------------------ MODULE EventLog ------------------------------
(***************************************************************************)
(* What the journal promises its callers, without sequence columns, hashes *)
(* or SQL: per session a log that only grows at its end, in which an event *)
(* id occurs once, and a receipt for an append only when the event is in   *)
(* the log, at the position and with the content the receipt names.        *)
(***************************************************************************)
EXTENDS Naturals, Sequences

CONSTANTS Session,      \* journal session ids
          EventId,      \* event ids the callers build
          Body          \* everything else an event carries

VARIABLES log,          \* log[s]: the entries of session s, in order
          receipts      \* the appends the callers were told succeeded

logVars == << log, receipts >>

Entry == [eventId : EventId, body : Body]

LogInit ==
    /\ log = [s \in Session |-> << >>]
    /\ receipts = {}

LogAppend(s, entry) ==
    /\ \A i \in DOMAIN log[s] : log[s][i].eventId # entry.eventId
    /\ log' = [log EXCEPT ![s] = Append(@, entry)]
    /\ UNCHANGED receipts

LogAcknowledge(s, i) ==
    /\ receipts' = receipts \cup {<< s, i, log[s][i] >>}
    /\ UNCHANGED log

LogNext ==
    \E s \in Session :
        \/ \E entry \in Entry : LogAppend(s, entry)
        \/ \E i \in DOMAIN log[s] : LogAcknowledge(s, i)

LogSpec == LogInit /\ [][LogNext]_logVars
=============================================================================
