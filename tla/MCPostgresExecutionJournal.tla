--------------------- MODULE MCPostgresExecutionJournal ---------------------
(***************************************************************************)
(* Three appendEvent calls at a time over two sessions, two event ids and  *)
(* two bodies: enough for two calls to race for one sequence number while  *)
(* a third goes on, for one id to be retried with another body, and for a  *)
(* session to hold a row that is not its last.  A row's sequence may be    *)
(* altered to a number before or after those of the rows, its hashes to    *)
(* one no event has, beside those in the table.                            *)
(***************************************************************************)
EXTENDS PostgresExecutionJournal, TLC

(* The specification never tells two elements of these sets apart. *)
Symmetry == Permutations(Caller) \cup Permutations(Session)
              \cup Permutations(EventId) \cup Permutations(Body)
=============================================================================
