----------------------------- MODULE PlanCache ------------------------------
(***************************************************************************)
(* The plan cache of the live planner, src/agent-run/llm-live-cache.ts: a  *)
(* file per key, written to <key>.tmp and renamed.  Within one server a    *)
(* save is one synchronous call; servers that share the working directory  *)
(* share the files, and the name of the temporary file, so the three       *)
(* system calls of two saves may interleave.                               *)
(*                                                                         *)
(* An open file descriptor stays with its file when the file is renamed,   *)
(* so where a save writes to depends on the renames of others.             *)
(***************************************************************************)
EXTENDS Naturals

CONSTANTS Process,      \* server processes in one working directory
          Key,          \* cache keys
          Body          \* the records that are saved

VARIABLES tmp,          \* tmp[k]: the content of <k>.tmp
          final,        \* final[k]: the content of <k>.json
          writer,       \* writer[p]: the save p is in
          overlapped    \* keys two saves were under way for at once

cacheVars == << tmp, final, writer, overlapped >>

Absent == [is |-> "absent"]
Empty == [is |-> "empty"]
Torn == [is |-> "torn"]
Whole(body) == [is |-> "whole", body |-> body]

IsWhole(content) == content \in {Whole(body) : body \in Body}
Content == {Absent, Empty, Torn} \cup {Whole(body) : body \in Body}

Idle == [at |-> "idle"]
Writing(at, k, body, file) == [at |-> at, key |-> k, body |-> body, file |-> file]

Busy(p, k) == writer[p].at # "idle" /\ writer[p].key = k

CacheInit ==
    /\ tmp = [k \in Key |-> Absent]
    /\ final = [k \in Key |-> Absent]
    /\ writer = [p \in Process |-> Idle]
    /\ overlapped = {}

(* Mutant of CacheOpen: the entry itself is opened.                        *)
CacheOpenInPlace(p, k, body) ==
    /\ writer[p].at = "idle"
    /\ writer' = [writer EXCEPT ![p] = Writing("opened", k, body, "final")]
    /\ final' = [final EXCEPT ![k] = Empty]
    /\ overlapped' = overlapped \cup {j \in {k} : \E q \in Process : Busy(q, k)}
    /\ UNCHANGED tmp

(* writeFileSync opens the temporary file, which truncates it.             *)
CacheOpen(p, k, body) ==
    /\ writer[p].at = "idle"
    /\ writer' = [writer EXCEPT ![p] = Writing("opened", k, body, "tmp")]
    /\ tmp' = [tmp EXCEPT ![k] = Empty]
    /\ overlapped' = overlapped \cup {j \in {k} : \E q \in Process : Busy(q, k)}
    /\ UNCHANGED final

(* What a file holds once a body is written from its start: a longer one   *)
(* that was there keeps its tail.                                          *)
Overwritten(content, body) ==
    IF content \in {Empty, Whole(body)} THEN {Whole(body)} ELSE {Whole(body), Torn}

CacheWrite(p) ==
    /\ writer[p].at = "opened"
    /\ writer' = [writer EXCEPT ![p].at = "written"]
    /\ LET k == writer[p].key
           body == writer[p].body
       IN  /\ IF writer[p].file = "tmp"
              THEN \E content \in Overwritten(tmp[k], body) : tmp' = [tmp EXCEPT ![k] = content]
              ELSE UNCHANGED tmp
           /\ IF writer[p].file = "final"
              THEN \E content \in Overwritten(final[k], body) : final' = [final EXCEPT ![k] = content]
              ELSE UNCHANGED final
    /\ UNCHANGED overlapped

(* Where the file of a save is once <k>.tmp is renamed to <k>.json.        *)
Renamed(file) == IF file = "tmp" THEN "final" ELSE "gone"

CacheRename(p) ==
    LET k == writer[p].key IN
    /\ writer[p].at = "written"
    /\ tmp[k] # Absent
    /\ final' = [final EXCEPT ![k] = tmp[k]]
    /\ tmp' = [tmp EXCEPT ![k] = Absent]
    /\ writer' = [q \in Process |->
                     IF q = p THEN Idle
                     ELSE IF Busy(q, k) THEN [writer[q] EXCEPT !.file = Renamed(@)]
                     ELSE writer[q]]
    /\ UNCHANGED overlapped

(* Another save renamed the file first: ENOENT.                            *)
CacheRenameFails(p) ==
    /\ writer[p].at = "written"
    /\ tmp[writer[p].key] = Absent
    /\ writer' = [writer EXCEPT ![p] = Idle]
    /\ UNCHANGED << tmp, final, overlapped >>

(* The process dies: what it wrote stays where it is.                      *)
CacheDie(p) ==
    /\ writer' = [writer EXCEPT ![p] = Idle]
    /\ UNCHANGED << tmp, final, overlapped >>

CacheNext ==
    \E p \in Process :
        \/ \E k \in Key, body \in Body : CacheOpen(p, k, body)
        \/ CacheWrite(p) \/ CacheRename(p) \/ CacheRenameFails(p)
        \/ CacheDie(p)

CacheSpec == CacheInit /\ [][CacheNext]_cacheVars

-----------------------------------------------------------------------------

CacheTypeOK ==
    /\ tmp \in [Key -> Content]
    /\ final \in [Key -> Content]
    /\ writer \in [Process ->
           {Idle} \cup [at : {"opened", "written"}, key : Key, body : Body,
                        file : {"tmp", "final", "gone"}]]
    /\ overlapped \subseteq Key

(* saveCachedPlan ("atomic on same volume"): what a reader finds under a   *)
(* key is nothing or a whole record, through crashes between its system    *)
(* calls, as long as no two saves of that key were under way at once.      *)
EntryWholeUnlessOverlapped ==
    \A k \in Key \ overlapped : final[k] = Absent \/ IsWhole(final[k])

(* And an entry changes only to the record of a save that has written it:  *)
(* never back to nothing, and never to what a crashed save left behind.    *)
EntryChangesBySave ==
    [][\A k \in Key \ overlapped :
           final'[k] # final[k] =>
               \E p \in Process : /\ writer[p].at = "written"
                                  /\ writer[p].key = k
                                  /\ final'[k] = Whole(writer[p].body)]_final

(* Why it holds: a key saved by one process at a time has a temporary file *)
(* that is this save's, from its truncation to its rename.                 *)
OneSaveAtATime ==
    \A k \in Key \ overlapped : \A p, q \in Process : Busy(p, k) /\ Busy(q, k) => p = q

SaveOwnsItsFile ==
    \A k \in Key \ overlapped : \A p \in Process : Busy(p, k) =>
        /\ writer[p].file = "tmp"
        /\ writer[p].at = "opened" => tmp[k] = Empty
        /\ writer[p].at = "written" => tmp[k] = Whole(writer[p].body)

CacheInv == CacheTypeOK /\ OneSaveAtATime /\ SaveOwnsItsFile /\ EntryWholeUnlessOverlapped
=============================================================================
