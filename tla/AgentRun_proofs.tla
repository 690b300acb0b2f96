--------------------------- MODULE AgentRun_proofs ----------------------------
(***************************************************************************)
(* The plan cache, for any processes, keys and records and through crashes *)
(* between the system calls of a save: an entry that no two saves were     *)
(* after at once is absent or whole, and changes only to a record its save *)
(* has written.                                                            *)
(*                                                                         *)
(* POST /agent/run over that cache and the sink of the planner's events,   *)
(* for any servers, requests, inputs and texts of a model: it uses the     *)
(* cache as specified, a cached plan answers the question asked, and the   *)
(* story of a verified plan is kept in one piece.  A verified plan that    *)
(* holds nothing a canonical plan has no room or form for is planned and   *)
(* passes, the order its steps are listed in makes no difference, and what *)
(* was recorded of its execution replays.  A plan made of a goal runs to   *)
(* its end, unless the goal or the error code of the client is too long,   *)
(* it asks for a tool nobody registered, or the steps are too many.        *)
(***************************************************************************)
EXTENDS AgentRun, FiniteSetTheorems, SequenceTheorems, WellFoundedInduction, TLAPS

-----------------------------------------------------------------------------
(* The cache.                                                              *)

(* An empty cache directory satisfies the invariant.                       *)
LEMMA CacheInitInv == CacheInit => CacheInv
BY DEF CacheInit, CacheInv, CacheTypeOK, OneSaveAtATime, SaveOwnsItsFile,
       EntryWholeUnlessOverlapped, Content, Busy, Idle

(* Opening a key no save is under way for truncates its temporary file;    *)
(* opening one that some save is after overlaps.                           *)
LEMMA OpenKeepsInv ==
    ASSUME CacheInv, NEW p \in Process, NEW k \in Key, NEW body \in Body,
           CacheOpen(p, k, body)
    PROVE  CacheInv'
<1>1. /\ writer[p].at = "idle"
      /\ writer' = [writer EXCEPT ![p] = Writing("opened", k, body, "tmp")]
      /\ tmp' = [tmp EXCEPT ![k] = Empty]
      /\ overlapped' = overlapped \cup {j \in {k} : \E q \in Process : Busy(q, k)}
      /\ final' = final
  BY DEF CacheOpen
<1>2. CacheTypeOK'
  BY <1>1 DEF CacheInv, CacheTypeOK, Content, Writing
<1>3. \A q \in Process \ {p} : writer'[q] = writer[q]
  BY <1>1 DEF CacheInv, CacheTypeOK
<1>4. /\ writer'[p].at = "opened" /\ writer'[p].key = k
      /\ writer'[p].file = "tmp" /\ writer'[p].body = body
  BY <1>1 DEF CacheInv, CacheTypeOK, Writing
<1>5. k \notin overlapped' => \A q \in Process : ~ Busy(q, k)
  BY <1>1
<1>6. OneSaveAtATime'
  BY <1>1, <1>3, <1>4, <1>5 DEF CacheInv, OneSaveAtATime, Busy
<1>7. SaveOwnsItsFile'
  BY <1>1, <1>3, <1>4, <1>5 DEF CacheInv, CacheTypeOK, SaveOwnsItsFile, Busy
<1>8. EntryWholeUnlessOverlapped'
  BY <1>1 DEF CacheInv, EntryWholeUnlessOverlapped, IsWhole
<1> QED BY <1>2, <1>6, <1>7, <1>8 DEF CacheInv

(* A save that is on its own for its key writes its record into the        *)
(* temporary file it truncated.                                            *)
LEMMA WriteKeepsInv ==
    ASSUME CacheInv, NEW p \in Process, CacheWrite(p)
    PROVE  CacheInv'
<1> DEFINE k == writer[p].key
           body == writer[p].body
<1>1. /\ writer[p].at = "opened"
      /\ writer' = [writer EXCEPT ![p].at = "written"]
      /\ overlapped' = overlapped
  BY DEF CacheWrite
<1>2. /\ writer[p] \in [at : {"opened", "written"}, key : Key, body : Body,
                        file : {"tmp", "final", "gone"}]
      /\ k \in Key /\ body \in Body
  BY <1>1 DEF CacheInv, CacheTypeOK, Idle
<1>3. \A content \in Overwritten(tmp[k], body) \cup Overwritten(final[k], body) :
          content \in Content
  BY <1>2 DEF Overwritten, Content
<1>4. /\ \/ writer[p].file = "tmp" /\ final' = final
            /\ \E content \in Overwritten(tmp[k], body) : tmp' = [tmp EXCEPT ![k] = content]
         \/ writer[p].file = "final" /\ tmp' = tmp
            /\ \E content \in Overwritten(final[k], body) : final' = [final EXCEPT ![k] = content]
         \/ writer[p].file \notin {"tmp", "final"} /\ tmp' = tmp /\ final' = final
  BY DEF CacheWrite
<1>5. tmp' \in [Key -> Content] /\ final' \in [Key -> Content]
  BY <1>2, <1>3, <1>4 DEF CacheInv, CacheTypeOK
<1>6. /\ \A q \in Process \ {p} : writer'[q] = writer[q]
      /\ writer'[p] = [writer[p] EXCEPT !.at = "written"]
  BY <1>1 DEF CacheInv, CacheTypeOK
<1>7. /\ writer'[p].at = "written" /\ writer'[p].key = k
      /\ writer'[p].body = body /\ writer'[p].file = writer[p].file
      /\ writer'[p] \in [at : {"opened", "written"}, key : Key, body : Body,
                         file : {"tmp", "final", "gone"}]
  BY <1>2, <1>6
<1>8. CacheTypeOK'
  <2>1. writer' \in [Process ->
           {Idle} \cup [at : {"opened", "written"}, key : Key, body : Body,
                        file : {"tmp", "final", "gone"}]]
    BY <1>1, <1>6, <1>7 DEF CacheInv, CacheTypeOK
  <2> QED BY <1>1, <1>5, <2>1 DEF CacheInv, CacheTypeOK
<1>9. \A q \in Process, j \in Key : Busy(q, j)' => Busy(q, j)
  BY <1>1, <1>6, <1>7 DEF Busy
<1>10. OneSaveAtATime'
  BY <1>1, <1>9 DEF CacheInv, OneSaveAtATime
<1>11. Busy(p, k)
  BY <1>1 DEF Busy
<1>12. CASE k \notin overlapped
  <2>1. writer[p].file = "tmp" /\ tmp[k] = Empty
    BY <1>1, <1>2, <1>11, <1>12 DEF CacheInv, SaveOwnsItsFile
  <2>2. final' = final /\ tmp' = [tmp EXCEPT ![k] = Whole(body)]
    BY <1>4, <2>1 DEF Overwritten
  <2>3. tmp'[k] = Whole(body) /\ \A j \in Key \ {k} : tmp'[j] = tmp[j]
    BY <1>2, <2>2 DEF CacheInv, CacheTypeOK
  <2>4. SaveOwnsItsFile'
    <3> SUFFICES ASSUME NEW j \in Key \ overlapped, NEW q \in Process, Busy(q, j)'
                 PROVE  /\ writer'[q].file = "tmp"
                        /\ writer'[q].at = "opened" => tmp'[j] = Empty
                        /\ writer'[q].at = "written" => tmp'[j] = Whole(writer'[q].body)
      BY <1>1 DEF SaveOwnsItsFile
    <3>1. Busy(q, j)
      BY <1>9
    <3>2. CASE q = p
      BY <1>7, <2>1, <2>3, <3>1, <3>2 DEF Busy
    <3>3. CASE q # p
      <4>1. j # k
        BY <1>11, <1>12, <3>1, <3>3 DEF CacheInv, OneSaveAtATime
      <4> QED BY <1>6, <2>3, <3>1, <3>3, <4>1 DEF CacheInv, SaveOwnsItsFile
    <3> QED BY <3>2, <3>3
  <2>5. EntryWholeUnlessOverlapped'
    BY <1>1, <2>2 DEF CacheInv, EntryWholeUnlessOverlapped, IsWhole
  <2> QED BY <1>8, <1>10, <2>4, <2>5 DEF CacheInv
<1>13. CASE k \in overlapped
  <2>1. \A j \in Key \ overlapped : tmp'[j] = tmp[j] /\ final'[j] = final[j]
    BY <1>4, <1>2, <1>13 DEF CacheInv, CacheTypeOK
  <2>2. \A j \in Key \ overlapped, q \in Process : Busy(q, j)' => q # p
    BY <1>7, <1>13 DEF Busy
  <2>3. SaveOwnsItsFile'
    BY <1>1, <1>6, <1>9, <2>1, <2>2 DEF CacheInv, SaveOwnsItsFile
  <2>4. EntryWholeUnlessOverlapped'
    BY <1>1, <2>1 DEF CacheInv, EntryWholeUnlessOverlapped, IsWhole
  <2> QED BY <1>8, <1>10, <2>3, <2>4 DEF CacheInv
<1> QED BY <1>12, <1>13

(* The rename of a save that is on its own moves its whole record to the   *)
(* entry; other keys' saves keep their files.                              *)
LEMMA RenameKeepsInv ==
    ASSUME CacheInv, NEW p \in Process, CacheRename(p)
    PROVE  CacheInv'
<1> DEFINE k == writer[p].key
<1>1. /\ writer[p].at = "written"
      /\ final' = [final EXCEPT ![k] = tmp[k]]
      /\ tmp' = [tmp EXCEPT ![k] = Absent]
      /\ writer' = [q \in Process |->
                       IF q = p THEN Idle
                       ELSE IF Busy(q, k) THEN [writer[q] EXCEPT !.file = Renamed(@)]
                       ELSE writer[q]]
      /\ overlapped' = overlapped
  BY DEF CacheRename
<1>2. k \in Key /\ writer[p].body \in Body
  BY <1>1 DEF CacheInv, CacheTypeOK, Idle
<1>3. tmp' \in [Key -> Content] /\ final' \in [Key -> Content]
  BY <1>1, <1>2 DEF CacheInv, CacheTypeOK, Content
<1>4. \A q \in Process \ {p} :
          writer'[q].at = writer[q].at /\ (writer[q].at # "idle" => writer'[q].key = writer[q].key)
  <2> SUFFICES ASSUME NEW q \in Process \ {p}
               PROVE  /\ writer'[q].at = writer[q].at
                      /\ writer[q].at # "idle" => writer'[q].key = writer[q].key
    OBVIOUS
  <2>1. CASE Busy(q, k)
    <3>1. writer[q] \in [at : {"opened", "written"}, key : Key, body : Body,
                         file : {"tmp", "final", "gone"}]
      BY <2>1 DEF CacheInv, CacheTypeOK, Busy, Idle
    <3>2. writer'[q] = [writer[q] EXCEPT !.file = Renamed(writer[q].file)]
      BY <1>1, <2>1
    <3> QED BY <3>1, <3>2
  <2>2. CASE ~ Busy(q, k)
    BY <1>1, <2>2
  <2> QED BY <2>1, <2>2
<1>5. \A q \in Process : ~ Busy(q, k) /\ q # p => writer'[q] = writer[q]
  BY <1>1
<1>6. CacheTypeOK'
  <2> SUFFICES ASSUME NEW q \in Process
               PROVE  writer'[q] \in {Idle} \cup
                        [at : {"opened", "written"}, key : Key, body : Body,
                         file : {"tmp", "final", "gone"}]
    BY <1>1, <1>3 DEF CacheInv, CacheTypeOK
  <2>1. CASE q # p /\ Busy(q, k)
    BY <1>1, <2>1 DEF CacheInv, CacheTypeOK, Busy, Renamed, Idle
  <2>2. CASE q = p \/ ~ Busy(q, k)
    BY <1>1, <2>2 DEF CacheInv, CacheTypeOK
  <2> QED BY <2>1, <2>2
<1>7. \A q \in Process, j \in Key : Busy(q, j)' => Busy(q, j) /\ q # p
  BY <1>1, <1>4 DEF Busy, Idle
<1>8. OneSaveAtATime'
  BY <1>1, <1>7 DEF CacheInv, OneSaveAtATime
<1>9. Busy(p, k)
  BY <1>1 DEF Busy
<1>10. \A j \in Key \ overlapped, q \in Process : Busy(q, j)' => j # k
  BY <1>7, <1>9, <1>2 DEF CacheInv, OneSaveAtATime
<1>11. \A j \in Key \ {k} : tmp'[j] = tmp[j] /\ final'[j] = final[j]
  BY <1>1, <1>2 DEF CacheInv, CacheTypeOK
<1>12. SaveOwnsItsFile'
  <2> SUFFICES ASSUME NEW j \in Key \ overlapped, NEW q \in Process, Busy(q, j)'
               PROVE  /\ writer'[q].file = "tmp"
                      /\ writer'[q].at = "opened" => tmp'[j] = Empty
                      /\ writer'[q].at = "written" => tmp'[j] = Whole(writer'[q].body)
    BY <1>1 DEF SaveOwnsItsFile
  <2>1. Busy(q, j) /\ q # p /\ j # k
    BY <1>7, <1>10
  <2>2. ~ Busy(q, k)
    BY <2>1 DEF Busy
  <2> QED BY <1>5, <1>11, <2>1, <2>2 DEF CacheInv, SaveOwnsItsFile
<1>13. EntryWholeUnlessOverlapped'
  <2>1. k \notin overlapped => tmp[k] = Whole(writer[p].body)
    BY <1>1, <1>2, <1>9 DEF CacheInv, SaveOwnsItsFile
  <2>2. final'[k] = tmp[k]
    BY <1>1, <1>2 DEF CacheInv, CacheTypeOK
  <2> QED BY <1>1, <1>2, <1>11, <2>1, <2>2 DEF CacheInv, EntryWholeUnlessOverlapped, IsWhole
<1> QED BY <1>6, <1>8, <1>12, <1>13 DEF CacheInv

(* A save that ends without touching the files, by a failed rename or with *)
(* its process, leaves the others' files alone.                            *)
LEMMA EndKeepsInv ==
    ASSUME CacheInv, NEW p \in Process, writer' = [writer EXCEPT ![p] = Idle],
           UNCHANGED << tmp, final, overlapped >>
    PROVE  CacheInv'
<1>1. /\ \A q \in Process \ {p} : writer'[q] = writer[q]
      /\ writer'[p] = Idle
  BY DEF CacheInv, CacheTypeOK
<1>2. \A q \in Process, j \in Key : Busy(q, j)' => Busy(q, j) /\ writer'[q] = writer[q]
  BY <1>1 DEF Busy, Idle
<1>3. CacheTypeOK'
  BY <1>1 DEF CacheInv, CacheTypeOK
<1>4. OneSaveAtATime'
  BY <1>2 DEF CacheInv, OneSaveAtATime
<1>5. SaveOwnsItsFile'
  BY <1>2 DEF CacheInv, SaveOwnsItsFile
<1>6. EntryWholeUnlessOverlapped'
  BY DEF CacheInv, EntryWholeUnlessOverlapped, IsWhole
<1> QED BY <1>3, <1>4, <1>5, <1>6 DEF CacheInv

(* No step of the cache breaks its invariant.                              *)
LEMMA CacheStepKeepsInv ==
    ASSUME CacheInv, [CacheNext]_cacheVars
    PROVE  CacheInv'
<1>1. ASSUME NEW p \in Process, NEW k \in Key, NEW body \in Body, CacheOpen(p, k, body)
      PROVE  CacheInv'
  BY <1>1, OpenKeepsInv
<1>2. ASSUME NEW p \in Process, CacheWrite(p)
      PROVE  CacheInv'
  BY <1>2, WriteKeepsInv
<1>3. ASSUME NEW p \in Process, CacheRename(p)
      PROVE  CacheInv'
  BY <1>3, RenameKeepsInv
<1>4. ASSUME NEW p \in Process, CacheRenameFails(p) \/ CacheDie(p)
      PROVE  CacheInv'
  BY <1>4, EndKeepsInv DEF CacheRenameFails, CacheDie
<1>5. CASE UNCHANGED cacheVars
  BY <1>5 DEF cacheVars, CacheInv, CacheTypeOK, OneSaveAtATime, SaveOwnsItsFile,
              EntryWholeUnlessOverlapped, Busy, IsWhole
<1> QED BY <1>1, <1>2, <1>3, <1>4, <1>5 DEF CacheNext

(* The inductive invariant of the cache.                                   *)
THEOREM CacheInvariant == CacheSpec => []CacheInv
<1>1. CacheInv /\ [CacheNext]_cacheVars => CacheInv'
  BY CacheStepKeepsInv
<1> QED BY <1>1, CacheInitInv, PTL DEF CacheSpec

(* saveCachedPlan's promise, "atomic on same volume": a reader finds       *)
(* nothing or a whole record unless two saves of the key overlapped.       *)
THEOREM EntryAlwaysWhole == CacheSpec => []EntryWholeUnlessOverlapped
<1>1. CacheInv => EntryWholeUnlessOverlapped
  BY DEF CacheInv
<1> QED BY <1>1, CacheInvariant, PTL

(* An entry is replaced only by the record of the save that renames it in: *)
(* what a crashed save left in the temporary file never becomes an entry.  *)
THEOREM EntriesChangeBySave == CacheSpec => EntryChangesBySave
<1>1. CacheInv /\ [CacheNext]_cacheVars =>
          [\A k \in Key \ overlapped :
             final'[k] # final[k] =>
                 \E p \in Process : /\ writer[p].at = "written"
                                    /\ writer[p].key = k
                                    /\ final'[k] = Whole(writer[p].body)]_final
  <2> SUFFICES ASSUME CacheInv, [CacheNext]_cacheVars, NEW k \in Key \ overlapped,
                      final'[k] # final[k]
               PROVE  \E p \in Process : /\ writer[p].at = "written"
                                         /\ writer[p].key = k
                                         /\ final'[k] = Whole(writer[p].body)
    OBVIOUS
  <2>1. ASSUME NEW p \in Process, CacheWrite(p)
        PROVE  FALSE
    <3>1. Busy(p, writer[p].key)
      BY <2>1 DEF CacheWrite, Busy
    <3>2. writer[p].key # k
      BY <2>1, <3>1 DEF CacheWrite, CacheInv, SaveOwnsItsFile
    <3> QED BY <2>1, <3>2 DEF CacheWrite, CacheInv, CacheTypeOK
  <2>2. ASSUME NEW p \in Process, CacheRename(p)
        PROVE  \E q \in Process : /\ writer[q].at = "written"
                                  /\ writer[q].key = k
                                  /\ final'[k] = Whole(writer[q].body)
    <3>1. writer[p].at = "written" /\ final' = [final EXCEPT ![writer[p].key] = tmp[writer[p].key]]
      BY <2>2 DEF CacheRename
    <3>2. writer[p].key = k /\ final'[k] = tmp[k]
      BY <3>1 DEF CacheInv, CacheTypeOK
    <3>3. tmp[k] = Whole(writer[p].body)
      BY <3>1, <3>2 DEF CacheInv, SaveOwnsItsFile, Busy
    <3> QED BY <3>1, <3>2, <3>3
  <2>3. CASE \/ UNCHANGED cacheVars
             \/ \E p \in Process : CacheRenameFails(p) \/ CacheDie(p)
             \/ \E p \in Process, j \in Key, body \in Body : CacheOpen(p, j, body)
    BY <2>3 DEF cacheVars, CacheRenameFails, CacheDie, CacheOpen
  <2> QED BY <2>1, <2>2, <2>3 DEF CacheNext
<1> QED BY <1>1, CacheInvariant, PTL DEF CacheSpec, EntryChangesBySave
-----------------------------------------------------------------------------
(* Plans and errors.                                                       *)

(* A plan or an error, as the planners return or throw it.                 *)
LEMMA PlanOrError ==
    ASSUME NEW v
    PROVE  /\ Gives(v).ok /\ Gives(v).value = v
           /\ ~ Fails(v).ok /\ Fails(v).error = v
BY DEF Gives, Fails

(* What canonicalizePlan returns is a plan, or its error.                  *)
LEMMA CanonicalGives ==
    ASSUME NEW plan
    PROVE  LET canonical == canonicalizePlan(plan)
           IN  \/ canonical = Gives(canonical.value)
               \/ canonical = Fails("PLAN_CANONICALIZATION_FAILED")
BY PlanOrError DEF canonicalizePlan, CanonicalPlan

(* The mock provider gives a plan or throws what the builder throws.       *)
LEMMA MockProviderGives ==
    ASSUME NEW goal
    PROVE  LET plan == buildPlanViaMockProvider(goal)
           IN  plan = Gives(plan.value) \/ plan = Fails("cap_synth")
<1>1. \/ \E v : buildCapabilitySynthPlan(goal) = Gives(v)
      \/ buildCapabilitySynthPlan(goal) = Fails("cap_synth")
  BY DEF buildCapabilitySynthPlan, BuildPipeline, Validated
<1>2. \/ \E v : buildPlanViaMockProvider(goal) = Gives(v)
      \/ buildPlanViaMockProvider(goal) = Fails("cap_synth")
  BY <1>1 DEF buildPlanViaMockProvider
<1> QED BY <1>2, PlanOrError

(* A model's text that is a plan gives it, any other one error.            *)
LEMMA ParseGives ==
    ASSUME NEW text
    PROVE  LET plan == parseDeterministicPlanFromModelText(text)
           IN  plan = Gives(plan.value) \/ plan = Fails("llm_live_invalid_plan_text")
<1>1. \/ canonicalizePlan(text.plan) = Gives(canonicalizePlan(text.plan).value)
      \/ canonicalizePlan(text.plan) = Fails("PLAN_CANONICALIZATION_FAILED")
  BY CanonicalGives
<1> QED BY <1>1, PlanOrError DEF parseDeterministicPlanFromModelText, Parsed

VerifierErrors == {"issues", "TypeError"}
BridgeErrors == {"LLM_LIVE_PLANNER_CONTRACT_INVALID", "TypeError", "requires_executable_plan",
                 "empty_steps", "PLAN_CANONICALIZATION_FAILED"}

(* The verifier passes an output on as it is, or fails.                    *)
LEMMA VerifierGives ==
    ASSUME NEW text, NEW tools, NEW maxSteps
    PROVE  \/ verifyLlmLivePlannerPromptText(text, tools, maxSteps) = Gives(text)
           \/ \E e \in VerifierErrors :
                 verifyLlmLivePlannerPromptText(text, tools, maxSteps) = Fails(e)
BY DEF verifyLlmLivePlannerPromptText, verifyDeterministicPlan, VerifierErrors

(* The bridge gives the plan of a verified output, or fails.               *)
LEMMA BridgeGives ==
    ASSUME NEW text, NEW tools, NEW maxSteps, NEW planId
    PROVE  LET plan == bridgeVerifiedLlmLivePlannerPromptTextToAgentPlan(text, tools, maxSteps,
                                                                         planId)
           IN  plan = Gives(plan.value) \/ \E e \in BridgeErrors : plan = Fails(e)
<1> DEFINE verified == verifyLlmLivePlannerPromptText(text, tools, maxSteps)
           asserted == assertVerifiedLlmLivePlannerPromptText(text, tools, maxSteps)
           plan == bridgeVerifiedLlmLivePlannerPromptTextToAgentPlan(text, tools, maxSteps, planId)
<1>1. \/ asserted = Gives(text)
      \/ \E e \in {"TypeError", "LLM_LIVE_PLANNER_CONTRACT_INVALID"} : asserted = Fails(e)
  <2>1. asserted = Asserted(verified)
    BY DEF assertVerifiedLlmLivePlannerPromptText
  <2>2. verified = Gives(text) \/ \E e \in VerifierErrors : verified = Fails(e)
    BY VerifierGives
  <2> HIDE DEF verified, asserted
  <2> QED BY <2>1, <2>2, PlanOrError DEF Asserted
<1>2. plan = IF asserted.ok THEN bridgeVerifiedPlannerOutputToAgentPlan(asserted.value, planId)
                            ELSE asserted
  BY DEF bridgeVerifiedLlmLivePlannerPromptTextToAgentPlan, Bridged
<1>3. \/ \E v : bridgeVerifiedPlannerOutputToAgentPlan(text, planId) = Gives(v)
      \/ \E e \in BridgeErrors : bridgeVerifiedPlannerOutputToAgentPlan(text, planId) = Fails(e)
  BY CanonicalGives DEF bridgeVerifiedPlannerOutputToAgentPlan, BridgeErrors
<1> HIDE DEF asserted, plan
<1>4. (\E v : plan = Gives(v)) \/ \E e \in BridgeErrors : plan = Fails(e)
  BY <1>1, <1>2, <1>3, PlanOrError DEF BridgeErrors
<1> QED BY <1>4, PlanOrError DEF plan

(* A text that is given becomes a plan or an error that is not the file    *)
(* system's.  A planner output is reported by the events of its story.     *)
LEMMA MaterializedGives ==
    ASSUME NEW format, NEW text, NEW tools, NEW maxSteps, NEW verifiedPlanId
    PROVE  LET made == materializePlanFromLlmPlanText(format, text, tools, maxSteps,
                                                      verifiedPlanId)
           IN  /\ \/ made.result = Gives(made.result.value)
                  \/ ~ made.result.ok /\ made.result.error # "ENOENT"
               /\ made.events =
                    IF format # "planner-prompt-output" THEN << >>
                    ELSE IF made.result.ok THEN << "received", "verified", "created_plan" >>
                    ELSE << "received", "rejected" >>
<1> DEFINE made == materializePlanFromLlmPlanText(format, text, tools, maxSteps, verifiedPlanId)
           bridged == bridgeVerifiedLlmLivePlannerPromptTextToAgentPlan(
                          text, tools, maxSteps, PlanIdOf(verifiedPlanId))
<1>1. CASE format # "planner-prompt-output"
  <2>1. made = Materialized(<< >>, parseDeterministicPlanFromModelText(text))
    BY <1>1 DEF materializePlanFromLlmPlanText
  <2> QED BY <1>1, <2>1, ParseGives, PlanOrError DEF Materialized
<1>2. CASE format = "planner-prompt-output" /\ tools = << >>
  <2>1. made = Materialized(<< "received", "rejected" >>,
                            Fails("llm_live_verified_planner_prompt_tools_required"))
    BY <1>2 DEF materializePlanFromLlmPlanText
  <2> QED BY <1>2, <2>1, PlanOrError DEF Materialized
<1>3. CASE format = "planner-prompt-output" /\ tools # << >>
  <2>1. made = MaterializedFrom(bridged)
    BY <1>3 DEF materializePlanFromLlmPlanText
  <2>2. bridged = Gives(bridged.value) \/ \E e \in BridgeErrors : bridged = Fails(e)
    BY BridgeGives
  <2> HIDE DEF bridged, made
  <2>3. CASE bridged = Gives(bridged.value)
    <3>1. made = Materialized(<< "received", "verified", "created_plan" >>, bridged)
      BY <2>1, <2>3, PlanOrError DEF MaterializedFrom
    <3>2. /\ made.result = bridged
          /\ made.events = << "received", "verified", "created_plan" >>
      BY <3>1 DEF Materialized
    <3> QED BY <1>3, <2>3, <3>2, PlanOrError DEF made
  <2>4. CASE \E e \in BridgeErrors : bridged = Fails(e)
    <3>1. PICK e \in BridgeErrors : bridged = Fails(e)
      BY <2>4
    <3>2. ~ bridged.ok /\ bridged.error = e
      BY <3>1, PlanOrError
    <3>3. \/ made = Materialized(<< "received", "rejected" >>,
                                 Fails("llm_live_invalid_plan_text"))
          \/ made = Materialized(<< "received", "rejected" >>, bridged)
      BY <2>1, <3>2 DEF MaterializedFrom
    <3>4. /\ made.events = << "received", "rejected" >>
          /\ made.result \in {Fails("llm_live_invalid_plan_text"), bridged}
      BY <3>3 DEF Materialized
    <3>5. ~ made.result.ok /\ made.result.error # "ENOENT"
      BY <3>2, <3>4, PlanOrError DEF BridgeErrors
    <3> QED BY <1>3, <3>4, <3>5 DEF made
  <2> QED BY <2>2, <2>3, <2>4
<1> QED BY <1>1, <1>2, <1>3

-----------------------------------------------------------------------------
(* Requests.                                                               *)

(* A plan a live request comes to without the model has a place in the     *)
(* cache.                                                                  *)
LEMMA PlansHaveKeys ==
    ASSUME AgentInv, NEW r \in Request, NEW input \in Inputs[demand][r],
           Live(input), input.fault = "none"
    PROVE  /\ computeKey(input) \in Key
           /\ PlanMade(input).ok => PlanMade(input).value \in Body
BY KeyAssumption, BodyAssumption DEF AgentInv

(* A model's plan has a place in the cache.                                *)
LEMMA TextsHaveBodies ==
    ASSUME NEW text \in ModelText, parseDeterministicPlanFromModelText(text).ok
    PROVE  parseDeterministicPlanFromModelText(text).value \in Body
BY BodyAssumption

(* The record of a request that waits, or is answered at once.             *)
Arrived(r, at, input, planned) ==
    [at |-> at, input |-> input, planned |-> planned, previous |-> sink[ServerOf[r]],
     after |-> AnsweredSoFar]

(* A request that begins touches no other.                                 *)
LEMMA BeginsAlone ==
    ASSUME AgentInv, NEW r \in Request, NEW at, NEW input, NEW planned,
           Begin(r, at, input, planned)
    PROVE  /\ DOMAIN req' = Request
           /\ req'[r] = Arrived(r, at, input, planned)
           /\ \A q \in Request \ {r} : req'[q] = req[q]
<1>1. Arrived(r, at, input, planned) =
        [Started(at, input, planned) EXCEPT !.previous = sink[ServerOf[r]], !.after = AnsweredSoFar]
  <2> DEFINE previous == sink[ServerOf[r]]
             after == AnsweredSoFar
  <2> HIDE DEF previous, after
  <2> DEFINE installed == [Started(at, input, planned) EXCEPT !.previous = previous]
  <2>1. /\ DOMAIN installed = {"at", "input", "planned", "previous", "after"}
        /\ installed.at = at /\ installed.input = input /\ installed.planned = planned
        /\ installed.previous = previous
    BY DEF Started
  <2>2. [Started(at, input, planned) EXCEPT !.previous = previous, !.after = after] =
          [installed EXCEPT !.after = after]
    OBVIOUS
  <2> HIDE DEF installed
  <2>3. [installed EXCEPT !.after = after] =
          [at |-> at, input |-> input, planned |-> planned, previous |-> previous,
           after |-> after]
    BY <2>1
  <2> QED BY <2>2, <2>3 DEF Arrived, previous, after
<1> QED BY <1>1 DEF AgentInv, Begin

(* What a handler must bring to begin as it does.                          *)
MayBegin(r, at, input, planned) ==
    /\ input \in Inputs[demand][r]
    /\ at \in {"answered", "asking", "saving"}
    /\ at # "answered" => Live(input) /\ input.fault = "none"
    /\ at = "asking" => ModelGiven(input) /\ ~ TextGiven(input)
    /\ at = "saving" => \E body \in Body : planned = Gives(body)

(* A request that is accepted finds its server at no save, so that it may  *)
(* begin one.                                                              *)
LEMMA BeginKeepsInv ==
    ASSUME AgentInv, NEW r \in Request, Accepts(r), NEW at, NEW input, NEW planned,
           MayBegin(r, at, input, planned), Begin(r, at, input, planned),
           UNCHANGED << demand, cacheVars >>,
           sink' \in [Server -> Request \cup {Nobody}], contended' \subseteq Key
    PROVE  AgentInv'
<1>1. /\ DOMAIN req' = Request
      /\ req'[r] = Arrived(r, at, input, planned)
      /\ \A q \in Request \ {r} : req'[q] = req[q]
  BY BeginsAlone
<1>2. /\ DOMAIN req'[r] = {"at", "input", "planned", "previous", "after"}
      /\ req'[r].at = at /\ req'[r].input = input /\ req'[r].planned = planned
  BY <1>1 DEF Arrived
<1>3. \A q \in Request : RequestOK(q)'
  <2>1. RequestOK(r)'
    <3>1. req'[r].previous \in Request \cup {Nobody}
      BY <1>1, ServerAssumption DEF AgentInv, Arrived
    <3> QED BY <1>2, <3>1 DEF RequestOK, MayBegin, Planning, At, States
  <2>2. ASSUME NEW q \in Request \ {r} PROVE RequestOK(q)'
    BY <1>1 DEF AgentInv, RequestOK, Planning, At
  <2> QED BY <2>1, <2>2
<1>4. \A q \in Request : At(q, "saving")' /\ q # r => At(q, "saving")
  BY <1>1 DEF At
<1>5. OneSaving'
  BY <1>4 DEF AgentInv, OneSaving, Accepts, Awake, At
<1>6. \A q \in Request, s \in Server : SavesOf(q, s) => SavesOf(q, s)'
  <2> SUFFICES ASSUME NEW q \in Request, NEW s \in Server, SavesOf(q, s)
               PROVE  SavesOf(q, s)'
    OBVIOUS
  <2>1. q # r
    BY DEF SavesOf, Accepts, At
  <2> QED BY <1>1, <2>1 DEF SavesOf, At, cacheVars
<1>7. \A s \in Server : writer'[s] # Idle => \E q \in Request : SavesOf(q, s)'
  BY <1>6 DEF AgentInv, cacheVars
<1>8. CacheInv'
  BY CacheStepKeepsInv DEF AgentInv
<1> QED BY <1>1, <1>3, <1>5, <1>7, <1>8 DEF AgentInv

(* A handler that is through at once keeps the invariant.                  *)
LEMMA AnswerAtOnceKeepsInv ==
    ASSUME AgentInv, NEW r \in Request, Accepts(r), NEW input \in Inputs[demand][r],
           NEW planned, AnswerAtOnce(r, input, planned), UNCHANGED demand
    PROVE  AgentInv'
BY BeginKeepsInv DEF AnswerAtOnce, MayBegin, AgentInv

(* So does one that goes on, to save a plan or to ask the model.           *)
LEMMA GoOnKeepsInv ==
    ASSUME AgentInv, NEW r \in Request, Accepts(r), NEW at, NEW input, NEW planned,
           at \in {"asking", "saving"}, MayBegin(r, at, input, planned),
           GoOn(r, at, input, planned), UNCHANGED demand
    PROVE  AgentInv'
<1>1. computeKey(input) \in Key
  BY PlansHaveKeys DEF MayBegin
<1>2. contended' \subseteq Key
  BY <1>1 DEF GoOn, Contending, AgentInv
<1>3. sink' \in [Server -> Request \cup {Nobody}]
  BY DEF GoOn, Install, AgentInv
<1> QED BY <1>2, <1>3, BeginKeepsInv DEF GoOn

(* Every way a request can arrive keeps the invariant.                     *)
LEMMA ReceiveKeepsInv ==
    ASSUME AgentInv, NEW r \in Request, NEW input \in Inputs[demand][r], Receive(r, input)
    PROVE  AgentInv'
<1>1. CASE Refuse(r, input)
  BY <1>1, AnswerAtOnceKeepsInv DEF Refuse
<1>2. CASE AnswerOutright(r, input)
  BY <1>2, AnswerAtOnceKeepsInv DEF AnswerOutright
<1>3. CASE PlanFromText(r, input)
  <2> DEFINE made == materializePlanFromLlmPlanText(input.llmPlanTextFormat,
                         input.llmPlanText, input.llmPlannerAvailableTools, input.maxSteps,
                         input.llmVerifiedPlanId)
  <2>1. /\ Accepts(r) /\ Live(input) /\ input.fault = "none" /\ TextGiven(input)
        /\ IF made.result.ok THEN GoOn(r, "saving", input, made.result)
                             ELSE AnswerAtOnce(r, input, made.result)
        /\ demand' = demand
    BY <1>3 DEF PlanFromText, AcceptsLive
  <2>2. PlanMade(input) = made.result
    BY <2>1 DEF PlanMade
  <2>3. made.result.ok =>
          made.result = Gives(made.result.value) /\ made.result.value \in Body
    BY <2>1, <2>2, MaterializedGives, PlansHaveKeys
  <2> HIDE DEF made
  <2>4. CASE made.result.ok
    <3>1. MayBegin(r, "saving", input, made.result)
      BY <2>1, <2>3, <2>4 DEF MayBegin
    <3> QED BY <2>1, <2>4, <3>1, GoOnKeepsInv
  <2> QED BY <2>1, <2>4, AnswerAtOnceKeepsInv
<1>4. CASE PlanFromCache(r, input)
  BY <1>4, AnswerAtOnceKeepsInv DEF PlanFromCache, AcceptsLive
<1>5. CASE PlanByMockProvider(r, input)
  <2> DEFINE plan == buildPlanViaMockProvider(input.goal)
  <2>1. /\ Accepts(r) /\ Live(input) /\ input.fault = "none" /\ ~ TextGiven(input)
        /\ IF plan.ok THEN GoOn(r, "saving", input, plan) ELSE AnswerAtOnce(r, input, plan)
        /\ demand' = demand
    BY <1>5 DEF PlanByMockProvider, Misses, AcceptsLive
  <2>2. PlanMade(input) = plan
    BY <2>1 DEF PlanMade
  <2>3. plan.ok => plan = Gives(plan.value) /\ plan.value \in Body
    BY <2>1, <2>2, MockProviderGives, PlanOrError, PlansHaveKeys
  <2> HIDE DEF plan
  <2>4. CASE plan.ok
    <3>1. MayBegin(r, "saving", input, plan)
      BY <2>1, <2>3, <2>4 DEF MayBegin
    <3> QED BY <2>1, <2>4, <3>1, GoOnKeepsInv
  <2> QED BY <2>1, <2>4, AnswerAtOnceKeepsInv
<1>6. CASE AskModel(r, input)
  <2>1. /\ Accepts(r) /\ Live(input) /\ input.fault = "none"
        /\ ~ TextGiven(input) /\ ModelGiven(input) /\ demand' = demand
        /\ \/ GoOn(r, "asking", input, Fails("pending"))
           \/ AnswerAtOnce(r, input, Fails("llm_live_not_configured"))
    BY <1>6 DEF AskModel, Misses, AcceptsLive
  <2>2. MayBegin(r, "asking", input, Fails("pending"))
    BY <2>1 DEF MayBegin
  <2> QED BY <2>1, <2>2, GoOnKeepsInv, AnswerAtOnceKeepsInv
<1> QED BY <1>1, <1>2, <1>3, <1>4, <1>5, <1>6 DEF Receive

(* The end of a handler: it is answered with planned, and no other moved.  *)
LEMMA FinishesAlone ==
    ASSUME AgentInv, NEW r \in Request, Planning(r), NEW planned, Finish(r, planned)
    PROVE  /\ DOMAIN req' = Request /\ DOMAIN req'[r] = DOMAIN req[r]
           /\ req'[r].at = "answered" /\ req'[r].planned = planned
           /\ req'[r].input = req[r].input /\ req'[r].after = req[r].after
           /\ req'[r].previous = req[r].previous
           /\ \A q \in Request \ {r} : req'[q] = req[q]
           /\ sink' \in [Server -> Request \cup {Nobody}]
<1>1. /\ r \in DOMAIN req /\ DOMAIN req[r] = {"at", "input", "planned", "previous", "after"}
      /\ req[r].previous \in Request \cup {Nobody}
  BY DEF AgentInv, RequestOK, Planning, Waiting
<1>2. req' = [req EXCEPT ![r].at = "answered", ![r].planned = planned]
  BY DEF Finish
<1>3. req'[r] = [req[r] EXCEPT !.at = "answered", !.planned = planned]
  BY <1>1, <1>2
<1>4. /\ DOMAIN req'[r] = DOMAIN req[r]
      /\ req'[r].at = "answered" /\ req'[r].planned = planned
      /\ req'[r].input = req[r].input /\ req'[r].after = req[r].after
      /\ req'[r].previous = req[r].previous
  BY <1>1, <1>3
<1>5. sink' = sink \/ sink' = [sink EXCEPT ![ServerOf[r]] = req[r].previous]
  BY DEF Finish, Restore
<1> QED BY <1>1, <1>2, <1>4, <1>5 DEF AgentInv

(* When a handler that saves ends its save, or one that asks is answered,  *)
(* the others keep their places and their saves.                           *)
LEMMA FinishKeepsInv ==
    ASSUME AgentInv, NEW r \in Request, Planning(r), NEW planned, Finish(r, planned),
           CacheInv', UNCHANGED << demand, contended >>,
           \A s \in Server : writer'[s] # Idle =>
               writer[s] # Idle /\ (At(r, "saving") => ServerOf[r] # s)
               /\ writer'[s].key = writer[s].key /\ writer'[s].body = writer[s].body
    PROVE  AgentInv'
<1>1. /\ DOMAIN req' = Request /\ DOMAIN req'[r] = DOMAIN req[r]
      /\ req'[r].at = "answered" /\ req'[r].planned = planned
      /\ req'[r].input = req[r].input /\ req'[r].previous = req[r].previous
      /\ \A q \in Request \ {r} : req'[q] = req[q]
      /\ sink' \in [Server -> Request \cup {Nobody}]
  BY FinishesAlone
<1>2. \A q \in Request : RequestOK(q)'
  <2>1. RequestOK(r)'
    <3>1. req[r] # Waiting /\ RequestOK(r)
      BY DEF AgentInv, Planning, Waiting
    <3> QED BY <1>1, <3>1 DEF RequestOK, Planning, At, States
  <2>2. ASSUME NEW q \in Request \ {r} PROVE RequestOK(q)'
    BY <1>1, <2>2 DEF AgentInv, RequestOK, Planning, At
  <2> QED BY <2>1, <2>2
<1>3. OneSaving'
  BY <1>1 DEF AgentInv, OneSaving, At
<1>4. ASSUME NEW s \in Server, writer'[s] # Idle
      PROVE  \E q \in Request : SavesOf(q, s)'
  <2>1. PICK q \in Request : SavesOf(q, s)
    BY <1>4 DEF AgentInv
  <2>2. q # r
    BY <1>4, <2>1 DEF SavesOf
  <2> QED BY <1>1, <1>4, <2>1, <2>2 DEF SavesOf, At
<1> QED BY <1>1, <1>2, <1>3, <1>4 DEF AgentInv

(* The model's answer, or its failure.  It comes while no other request of *)
(* the server saves.                                                       *)
LEMMA AnswersKeepInv ==
    ASSUME AgentInv, NEW r \in Request, Answers(r)
    PROVE  AgentInv'
<1>0. CacheInv' /\ Resumes(r) /\ UNCHANGED << demand, contended, cacheVars >>
  BY CacheStepKeepsInv DEF AgentInv, Answers, ModelAnswers, ModelFails
<1>1. Planning(r) /\ ~ At(r, "saving")
  BY <1>0 DEF Resumes, Planning, At
<1>2. ASSUME NEW planned, Finish(r, planned)
      PROVE  AgentInv'
  BY <1>0, <1>1, <1>2, FinishKeepsInv DEF cacheVars
<1>3. ASSUME NEW text \in ModelText, ModelAnswers(r, text),
             parseDeterministicPlanFromModelText(text).ok
      PROVE  AgentInv'
  <2> DEFINE plan == parseDeterministicPlanFromModelText(text)
  <2>1. /\ req' = [req EXCEPT ![r].at = "saving", ![r].planned = plan]
        /\ sink' = sink
    BY <1>3 DEF ModelAnswers, sinkVars
  <2>2. plan = Gives(plan.value) /\ plan.value \in Body
    BY <1>3, ParseGives, PlanOrError, TextsHaveBodies
  <2> HIDE DEF plan
  <2>3. r \in DOMAIN req /\ DOMAIN req[r] = {"at", "input", "planned", "previous", "after"}
    BY <1>1 DEF AgentInv, RequestOK, Planning, Waiting
  <2>4. req'[r] = [req[r] EXCEPT !.at = "saving", !.planned = plan]
    BY <2>1, <2>3
  <2>5. /\ DOMAIN req' = Request /\ DOMAIN req'[r] = DOMAIN req[r]
        /\ req'[r].at = "saving" /\ req'[r].planned = plan
        /\ req'[r].input = req[r].input /\ req'[r].previous = req[r].previous
        /\ \A q \in Request \ {r} : req'[q] = req[q]
    BY <2>1, <2>3, <2>4 DEF AgentInv
  <2>6. \A q \in Request : RequestOK(q)'
    <3>1. RequestOK(r)'
      <4>1. req[r] # Waiting /\ RequestOK(r)
        BY <1>1 DEF AgentInv, Planning, Waiting
      <4> QED BY <1>0, <1>1, <2>2, <2>5, <4>1 DEF RequestOK, Planning, At, States
    <3>2. ASSUME NEW q \in Request \ {r} PROVE RequestOK(q)'
      BY <1>0, <2>5, <3>2 DEF AgentInv, RequestOK, Planning, At
    <3> QED BY <3>1, <3>2
  <2>7. OneSaving'
    BY <1>0, <2>5 DEF AgentInv, OneSaving, Resumes, Awake, At
  <2>8. ASSUME NEW s \in Server, writer'[s] # Idle
        PROVE  \E q \in Request : SavesOf(q, s)'
    <3>1. PICK q \in Request : SavesOf(q, s)
      BY <1>0, <2>8 DEF AgentInv, cacheVars
    <3>2. q # r
      BY <1>1, <3>1 DEF SavesOf
    <3> QED BY <1>0, <2>5, <3>1, <3>2 DEF SavesOf, At, cacheVars
  <2> QED BY <1>0, <2>1, <2>5, <2>6, <2>7, <2>8 DEF AgentInv
<1>4. CASE ModelFails(r)
  BY <1>2, <1>4 DEF ModelFails
<1>5. ASSUME NEW text \in ModelText, ModelAnswers(r, text)
      PROVE  AgentInv'
  <2>1. CASE parseDeterministicPlanFromModelText(text).ok
    BY <1>3, <1>5, <2>1
  <2>2. CASE ~ parseDeterministicPlanFromModelText(text).ok
    BY <1>2, <1>5, <2>2 DEF ModelAnswers
  <2> QED BY <2>1, <2>2
<1> QED BY <1>4, <1>5 DEF Answers

(* A handler saves the plan it came to under its key, on its own server.   *)
LEMMA SaverHasPlan ==
    ASSUME AgentInv, NEW r \in Request, At(r, "saving")
    PROVE  /\ ServerOf[r] \in Process /\ KeyOf(r) \in Key
           /\ req[r].planned = Gives(req[r].planned.value)
           /\ req[r].planned.value \in Body
           /\ Planning(r)
<1>1. RequestOK(r) /\ req[r] # Waiting /\ Planning(r)
  BY DEF AgentInv, At, Waiting, Planning
<1>2. PICK body \in Body : req[r].planned = Gives(body)
  BY <1>1 DEF RequestOK
<1>3. KeyOf(r) \in Key
  BY <1>1, PlansHaveKeys DEF RequestOK, KeyOf
<1> QED BY <1>1, <1>2, <1>3, PlanOrError, ServerAssumption

(* The save a server is in is that of the handler that saves there.        *)
LEMMA WriterIsSaver ==
    ASSUME AgentInv, NEW r \in Request, At(r, "saving"), writer[ServerOf[r]] # Idle
    PROVE  SavesOf(r, ServerOf[r])
BY ServerAssumption DEF AgentInv, OneSaving, SavesOf

(* The system calls of a save are steps of the cache.                      *)
LEMMA SavesAreCacheSteps ==
    ASSUME AgentInv, NEW r \in Request, Saves(r)
    PROVE  CacheNext /\ At(r, "saving")
<1>1. At(r, "saving")
  BY DEF Saves, SaveOpens, SaveWrites, SaveRenames, SaveRenameFails
<1>2. ServerOf[r] \in Process /\ KeyOf(r) \in Key /\ req[r].planned.value \in Body
  BY <1>1, SaverHasPlan
<1> QED
  BY <1>1, <1>2 DEF Saves, SaveOpens, SaveWrites, SaveRenames, SaveRenameFails, CacheNext, KeyOf

(* Every system call of a save keeps the invariant.                        *)
LEMMA SavesKeepInv ==
    ASSUME AgentInv, NEW r \in Request, Saves(r)
    PROVE  AgentInv'
<1> DEFINE s == ServerOf[r]
<1>1. CacheInv' /\ At(r, "saving") /\ Planning(r) /\ s \in Process /\ Process = Server
  BY SavesAreCacheSteps, CacheStepKeepsInv, SaverHasPlan, ServerAssumption DEF AgentInv
<1> HIDE DEF s
<1>2. ASSUME UNCHANGED << demand, req, contended, sinkVars >>,
             \A p \in Server \ {s} : writer'[p] = writer[p],
             SavesOf(r, s)'
      PROVE  AgentInv'
  <2>1. \A q \in Request : RequestOK(q)'
    BY <1>2 DEF AgentInv, RequestOK, Planning, At
  <2>2. OneSaving'
    BY <1>2 DEF AgentInv, OneSaving, At
  <2>3. ASSUME NEW p \in Server, writer'[p] # Idle
        PROVE  \E q \in Request : SavesOf(q, p)'
    <3>1. CASE p = s
      BY <1>2, <3>1
    <3>2. CASE p # s
      <4>1. PICK q \in Request : SavesOf(q, p)
        BY <1>2, <2>3, <3>2 DEF AgentInv
      <4> QED BY <1>2, <3>2, <4>1 DEF SavesOf, At
    <3> QED BY <3>1, <3>2
  <2> QED BY <1>1, <1>2, <2>1, <2>2, <2>3 DEF AgentInv, sinkVars
<1>3. CASE SaveOpens(r)
  <2>1. /\ writer' = [writer EXCEPT ![s] =
                         Writing("opened", computeKey(req[r].input), req[r].planned.value, "tmp")]
        /\ UNCHANGED << demand, req, contended, sinkVars >>
    BY <1>3 DEF SaveOpens, CacheOpen, s
  <2>2. /\ writer'[s] = Writing("opened", computeKey(req[r].input), req[r].planned.value, "tmp")
        /\ \A p \in Server \ {s} : writer'[p] = writer[p]
    BY <1>1, <2>1 DEF AgentInv, CacheInv, CacheTypeOK
  <2>3. writer'[s].key = computeKey(req[r].input) /\ writer'[s].body = req[r].planned.value
    BY <2>2 DEF Writing
  <2>4. SavesOf(r, s)'
    BY <1>1, <2>1, <2>3, SaverHasPlan DEF SavesOf, At, s
  <2> QED BY <1>2, <2>1, <2>2, <2>4
<1>4. CASE SaveWrites(r)
  <2>1. /\ writer' = [writer EXCEPT ![s].at = "written"] /\ writer[s].at = "opened"
        /\ UNCHANGED << demand, req, contended, sinkVars >>
    BY <1>4 DEF SaveWrites, CacheWrite, s
  <2>2. /\ writer[s] # Idle /\ s \in DOMAIN writer
        /\ writer[s] \in [at : {"opened", "written"}, key : Key, body : Body,
                          file : {"tmp", "final", "gone"}]
    BY <1>1, <2>1 DEF AgentInv, CacheInv, CacheTypeOK, Idle
  <2>3. /\ writer'[s].key = writer[s].key /\ writer'[s].body = writer[s].body
        /\ \A p \in Server \ {s} : writer'[p] = writer[p]
    BY <1>1, <2>1, <2>2 DEF AgentInv, CacheInv, CacheTypeOK
  <2>4. SavesOf(r, s)'
    BY <1>1, <2>1, <2>2, <2>3, WriterIsSaver DEF SavesOf, At, s
  <2> QED BY <1>2, <2>1, <2>3, <2>4
<1>5. CASE SaveRenames(r)
  <2>1. /\ CacheRename(s) /\ Finish(r, req[r].planned) /\ UNCHANGED << demand, contended >>
    BY <1>5 DEF SaveRenames, s
  <2>2. ASSUME NEW p \in Server, writer'[p] # Idle
        PROVE  /\ writer[p] # Idle /\ p # s
               /\ writer'[p].key = writer[p].key /\ writer'[p].body = writer[p].body
    <3>1. writer'[p] = IF p = s THEN Idle
                       ELSE IF Busy(p, writer[s].key)
                       THEN [writer[p] EXCEPT !.file = Renamed(@)]
                       ELSE writer[p]
      BY <1>1, <2>1 DEF CacheRename
    <3>2. p # s
      BY <2>2, <3>1
    <3>3. CASE Busy(p, writer[s].key)
      <4>1. writer[p] \in [at : {"opened", "written"}, key : Key, body : Body,
                           file : {"tmp", "final", "gone"}] /\ writer[p] # Idle
        BY <1>1, <3>3 DEF AgentInv, CacheInv, CacheTypeOK, Busy, Idle
      <4>2. writer'[p] = [writer[p] EXCEPT !.file = Renamed(writer[p].file)]
        BY <3>1, <3>2, <3>3
      <4> QED BY <3>2, <4>1, <4>2
    <3>4. CASE ~ Busy(p, writer[s].key)
      BY <2>2, <3>1, <3>2, <3>4
    <3> QED BY <3>3, <3>4
  <2> QED BY <1>1, <2>1, <2>2, FinishKeepsInv DEF s
<1>6. CASE SaveRenameFails(r)
  <2>1. /\ writer' = [writer EXCEPT ![s] = Idle]
        /\ Finish(r, Fails("ENOENT")) /\ UNCHANGED << demand, contended >>
    BY <1>6 DEF SaveRenameFails, CacheRenameFails, s
  <2>2. writer'[s] = Idle /\ \A p \in Server \ {s} : writer'[p] = writer[p]
    BY <1>1, <2>1 DEF AgentInv, CacheInv, CacheTypeOK
  <2> QED BY <1>1, <2>1, <2>2, FinishKeepsInv DEF s
<1> QED BY <1>3, <1>4, <1>5, <1>6 DEF Saves

(* A crash takes the handlers and the save of its server and nothing else. *)
LEMMA CrashMoves ==
    ASSUME AgentInv, NEW s \in Server, Crash(s)
    PROVE  /\ DOMAIN req' = Request
           /\ \A q \in Request : ServerOf[q] = s /\ Planning(q) =>
                 /\ DOMAIN req'[q] = DOMAIN req[q] /\ req'[q].at = "lost"
                 /\ req'[q].input = req[q].input /\ req'[q].planned = req[q].planned
                 /\ req'[q].previous = req[q].previous /\ req'[q].after = req[q].after
           /\ \A q \in Request : ~ (ServerOf[q] = s /\ Planning(q)) => req'[q] = req[q]
           /\ writer'[s] = Idle /\ \A p \in Server \ {s} : writer'[p] = writer[p]
           /\ sink'[s] = Nobody /\ \A p \in Server \ {s} : sink'[p] = sink[p]
           /\ sink' \in [Server -> Request \cup {Nobody}]
           /\ UNCHANGED << demand, contended, handed, mixed, tmp, final, overlapped >>
<1>1. /\ req' = [q \in Request |->
                    IF ServerOf[q] = s /\ Planning(q) THEN [req[q] EXCEPT !.at = "lost"] ELSE req[q]]
      /\ sink' = [sink EXCEPT ![s] = Nobody]
      /\ writer' = [writer EXCEPT ![s] = Idle]
      /\ UNCHANGED << demand, contended, handed, mixed, tmp, final, overlapped >>
  BY DEF Crash, CacheDie
<1>2. /\ writer'[s] = Idle /\ \A p \in Server \ {s} : writer'[p] = writer[p]
      /\ sink'[s] = Nobody /\ \A p \in Server \ {s} : sink'[p] = sink[p]
      /\ sink' \in [Server -> Request \cup {Nobody}]
  BY <1>1, ServerAssumption DEF AgentInv, CacheInv, CacheTypeOK
<1>3. ASSUME NEW q \in Request, ServerOf[q] = s, Planning(q)
      PROVE  /\ DOMAIN req'[q] = DOMAIN req[q] /\ req'[q].at = "lost"
             /\ req'[q].input = req[q].input /\ req'[q].planned = req[q].planned
             /\ req'[q].previous = req[q].previous /\ req'[q].after = req[q].after
  <2>1. req'[q] = [req[q] EXCEPT !.at = "lost"]
    BY <1>1, <1>3
  <2>2. DOMAIN req[q] = {"at", "input", "planned", "previous", "after"}
    BY <1>3 DEF AgentInv, RequestOK, Planning, Waiting
  <2> QED BY <2>1, <2>2
<1> QED BY <1>1, <1>2, <1>3

(* The others of a crash go on.                                            *)
LEMMA CrashKeepsInv ==
    ASSUME AgentInv, NEW s \in Server, Crash(s)
    PROVE  AgentInv' /\ CacheNext
<1> DEFINE dies(q) == ServerOf[q] = s /\ Planning(q)
<1>1. CacheNext
  BY ServerAssumption DEF Crash, CacheNext
<1>2. CacheInv'
  BY <1>1, CacheStepKeepsInv DEF AgentInv
<1>3. \A q \in Request : RequestOK(q)'
  <2>1. ASSUME NEW q \in Request, dies(q) PROVE RequestOK(q)'
    <3>1. /\ req'[q].at = "lost" /\ DOMAIN req'[q] = DOMAIN req[q]
          /\ req'[q].input = req[q].input /\ req'[q].previous = req[q].previous
          /\ demand' = demand
      BY <2>1, CrashMoves
    <3>2. req[q] # Waiting /\ RequestOK(q)
      BY <2>1 DEF AgentInv, Planning, Waiting
    <3> QED BY <3>1, <3>2 DEF RequestOK, Planning, At, States
  <2>2. ASSUME NEW q \in Request, ~ dies(q) PROVE RequestOK(q)'
    <3>1. req'[q] = req[q] /\ demand' = demand
      BY <2>2, CrashMoves
    <3> QED BY <3>1 DEF AgentInv, RequestOK, Planning, At
  <2> QED BY <2>1, <2>2
<1>4. \A q \in Request : At(q, "saving")' => req'[q] = req[q] /\ At(q, "saving") /\ ~ dies(q)
  <2> SUFFICES ASSUME NEW q \in Request, req'[q].at = "saving"
               PROVE  req'[q] = req[q] /\ At(q, "saving") /\ ~ dies(q)
    BY DEF At
  <2>1. ~ dies(q)
    BY CrashMoves
  <2> QED BY <2>1, CrashMoves DEF At
<1>5. OneSaving'
  BY <1>4 DEF AgentInv, OneSaving
<1>6. ASSUME NEW p \in Server, writer'[p] # Idle
      PROVE  \E q \in Request : SavesOf(q, p)'
  <2>1. p # s /\ writer'[p] = writer[p]
    BY <1>6, CrashMoves
  <2>2. PICK q \in Request : SavesOf(q, p)
    BY <1>6, <2>1 DEF AgentInv
  <2>3. req'[q] = req[q]
    BY <2>1, <2>2, CrashMoves DEF SavesOf
  <2> QED BY <2>1, <2>2, <2>3 DEF SavesOf, At
<1> QED BY <1>1, <1>2, <1>3, <1>5, <1>6, CrashMoves DEF AgentInv

(* A service without requests, sinks and files.                            *)
LEMMA InitAgentInv == Init => AgentInv
<1> SUFFICES ASSUME Init PROVE AgentInv
  OBVIOUS
<1>1. CacheInv
  BY CacheInitInv DEF Init
<1>2. \A s \in Server : writer[s] = Idle
  BY ServerAssumption DEF Init, CacheInit
<1>3. \A r \in Request : req[r] = Waiting /\ ~ At(r, "saving")
  BY DEF Init, At, Waiting
<1> QED BY <1>1, <1>2, <1>3 DEF Init, AgentInv, RequestOK, OneSaving, SinkInit

(* No step breaks the invariant, and to the cache it is a step of the      *)
(* cache, or none.                                                         *)
LEMMA NextKeepsInv ==
    ASSUME AgentInv, [Next]_vars
    PROVE  AgentInv' /\ [CacheNext]_cacheVars
<1>1. ASSUME NEW r \in Request, NEW input \in Inputs[demand][r], Receive(r, input)
      PROVE  AgentInv' /\ UNCHANGED cacheVars
  <2>1. UNCHANGED cacheVars
    BY <1>1 DEF Receive, Refuse, AnswerOutright, PlanFromText, PlanFromCache,
                PlanByMockProvider, AskModel, AnswerAtOnce, GoOn
  <2> QED BY <1>1, <2>1, ReceiveKeepsInv
<1>2. ASSUME NEW r \in Request, Answers(r)
      PROVE  AgentInv' /\ UNCHANGED cacheVars
  BY <1>2, AnswersKeepInv DEF Answers, ModelAnswers, ModelFails
<1>3. ASSUME NEW r \in Request, Saves(r)
      PROVE  AgentInv' /\ CacheNext
  BY <1>3, SavesKeepInv, SavesAreCacheSteps
<1>4. ASSUME NEW s \in Server, Crash(s)
      PROVE  AgentInv' /\ CacheNext
  BY <1>4, CrashKeepsInv
<1>5. CASE UNCHANGED vars
  <2>1. UNCHANGED << demand, req, contended, sink, writer, tmp, final, overlapped >>
    BY <1>5 DEF vars, cacheVars, sinkVars
  <2>2. CacheInv'
    BY <2>1, CacheStepKeepsInv DEF AgentInv, cacheVars
  <2>3. \A q \in Request : RequestOK(q)'
    BY <2>1 DEF AgentInv, RequestOK, Planning, At
  <2>4. OneSaving' /\ \A s \in Server : writer'[s] # Idle => \E q \in Request : SavesOf(q, s)'
    BY <2>1 DEF AgentInv, OneSaving, SavesOf, At
  <2> QED BY <2>1, <2>2, <2>3, <2>4 DEF AgentInv, cacheVars
<1> QED BY <1>1, <1>2, <1>3, <1>4, <1>5 DEF Next

(* The handlers' places tie to their saves in every reachable state.       *)
THEOREM AgentInvariant == Spec => []AgentInv
<1>1. AgentInv /\ [Next]_vars => AgentInv'
  BY NextKeepsInv
<1> QED BY <1>1, InitAgentInv, PTL DEF Spec

(* To the cache directory, servers answering requests are processes that   *)
(* save: whatever the cache promises of its own steps holds here.          *)
THEOREM CacheIsUsedAsSpecified == Spec => CacheSpec
<1>1. Init => CacheInit
  BY DEF Init
<1>2. AgentInv /\ [Next]_vars => [CacheNext]_cacheVars
  BY NextKeepsInv
<1> QED BY <1>1, <1>2, AgentInvariant, PTL DEF Spec, CacheSpec

(* The promise of saveCachedPlan, in the running service.                  *)
THEOREM EntryAlwaysWholeInRun == Spec => []EntryWholeUnlessOverlapped
BY CacheIsUsedAsSpecified, EntryAlwaysWhole, PTL

(* The types; a server saves for one of its requests at most, which then   *)
(* stands at its save with the plan that is being written.                 *)
THEOREM TypesAreOK == Spec => []TypeOK
<1>1. AgentInv => TypeOK
  <2> SUFFICES ASSUME AgentInv PROVE TypeOK
    OBVIOUS
  <2>1. ASSUME NEW r \in Request
        PROVE  /\ req[r].at \in States
               /\ ~ At(r, "waiting") => req[r].input \in Inputs[demand][r]
    BY DEF AgentInv, RequestOK, Waiting, States, At
  <2>2. ASSUME NEW s \in Server
        PROVE  Cardinality({r \in Request : ServerOf[r] = s /\ At(r, "saving")}) <= 1
    <3> DEFINE S == {r \in Request : ServerOf[r] = s /\ At(r, "saving")}
    <3>1. \A q, r \in S : q = r
      BY DEF AgentInv, OneSaving
    <3>2. Cardinality(S) <= 1
      <4> HIDE DEF S
      <4>1. CASE S = {}
        BY <4>1, FS_EmptySet
      <4>2. CASE S # {}
        <5>1. PICK r : S = {r}
          BY <3>1, <4>2
        <5>2. Cardinality(S) = 1
          BY <5>1, FS_Singleton
        <5> QED BY ONLY <5>2
      <4> QED BY <4>1, <4>2
    <3> QED BY ONLY <3>2
  <2>3. ASSUME NEW s \in Server, writer[s] # Idle
        PROVE  \E r \in Request : /\ ServerOf[r] = s /\ At(r, "saving")
                                  /\ writer[s].body = req[r].planned.value
    BY <2>3, PlanOrError DEF AgentInv, SavesOf
  <2> QED BY <2>1, <2>2, <2>3 DEF TypeOK, AgentInv, CacheInv
<1> QED BY <1>1, AgentInvariant, PTL

-----------------------------------------------------------------------------
(* Questions and answers.                                                  *)

(* A key tells whether a text was given, and of two requests without one   *)
(* for the model it is the question.                                       *)
LEMMA KeysTellQuestions ==
    ASSUME NEW a, NEW b
    PROVE  /\ computeKey(a) = computeKey(b) =>
                 /\ TextGiven(a) <=> TextGiven(b)
                 /\ ModelGiven(a) <=> ModelGiven(b)
                 /\ a.goal = b.goal
           /\ SameQuestion(a, b) =>
                 /\ ~ TextGiven(a) /\ a.goal = b.goal
                 /\ ModelGiven(a) <=> ModelGiven(b)
                 /\ ModelGiven(b) => computeKey(a) = computeKey(b)
BY DEF computeKey, TextGiven, ModelGiven, SameQuestion

(* What the files hold of keys without a model.                            *)
MockFiles ==
    \A k \in Key : \A body \in Body : Whole(body) \in {tmp[k], final[k]} => PlanOfMock(k, body)

MockPlans ==
    \A r \in Request :
        (AsksWithoutText(r) /\ ~ ModelGiven(req[r].input) /\ req[r].planned.ok) =>
            req[r].planned = buildPlanViaMockProvider(req[r].input.goal)

(* Requests that stay as they are, or go on without a plan to answer.      *)
Quiet(q) ==
    \/ req'[q] = req[q]
    \/ /\ Planning(q)
       /\ req'[q].input = req[q].input /\ req'[q].after = req[q].after
       /\ \/ /\ req'[q].at \in {"saving", "lost"}
             /\ ModelGiven(req[q].input) \/ req'[q].planned = req[q].planned
          \/ req'[q].at = "answered" /\ ~ req'[q].planned.ok

(* What is told of a quiet request.                                        *)
LEMMA QuietKeeps ==
    ASSUME NEW q \in Request, Quiet(q)
    PROVE  /\ KeyOf(q)' = KeyOf(q)
           /\ Planning(q)' => Planning(q)
           /\ AsksWithoutText(q)' <=> AsksWithoutText(q)
           /\ HasPlan(q)' => HasPlan(q) /\ req'[q] = req[q]
           /\ ~ At(q, "waiting")' => ~ At(q, "waiting") /\ req'[q].after = req[q].after
           /\ Answered(q) => req'[q] = req[q]
<1>1. CASE req'[q] = req[q]
  BY <1>1 DEF KeyOf, Planning, AsksWithoutText, HasPlan, At, Answered
<1>2. CASE req'[q] # req[q]
  BY <1>2 DEF Quiet, KeyOf, Planning, AsksWithoutText, HasPlan, At, Answered
<1> QED BY <1>1, <1>2

(* A step in which all requests are quiet and no uncontended entry changes *)
(* leaves what was answered as it was.                                     *)
LEMMA QuietStepKeepsAnswers ==
    ASSUME AgentInv, QuestionInv, \A q \in Request : Quiet(q), contended' = contended,
           \A k \in Key \ contended : final'[k] = final[k]
    PROVE  /\ OnePlans' /\ EntryIsTheAnswer' /\ EntryIsAwaited' /\ AnsweredBefore'
           /\ CacheAnswersTheQuestion' /\ MockPlans'
<1>0. MockPlans'
  BY QuietKeeps DEF QuestionInv, MockPlansAreCached, MockPlans, Quiet
<1>1. OnePlans'
  BY QuietKeeps DEF QuestionInv, OnePlans
<1>k. \A q \in Request : Planning(q) \/ AsksWithoutText(q) => KeyOf(q) \in Key
  BY PlansHaveKeys DEF AgentInv, RequestOK, Waiting, Planning, AsksWithoutText, At, KeyOf
<1>2. EntryIsTheAnswer'
  <2> SUFFICES ASSUME NEW r \in Request, HasPlan(r)', KeyOf(r)' \notin contended'
               PROVE  /\ \E body \in Body : /\ req'[r].planned = Gives(body)
                                            /\ final'[KeyOf(r)'] = Whole(body)
                      /\ \A q \in Request : Planning(q)' => KeyOf(q)' # KeyOf(r)'
    BY DEF EntryIsTheAnswer
  <2>1. HasPlan(r) /\ req'[r] = req[r] /\ KeyOf(r)' = KeyOf(r)
    BY QuietKeeps
  <2>2. KeyOf(r) \in Key \ contended
    BY <1>k, <2>1 DEF HasPlan
  <2>3. /\ \E body \in Body : req[r].planned = Gives(body) /\ final[KeyOf(r)] = Whole(body)
        /\ \A q \in Request : Planning(q) => KeyOf(q) # KeyOf(r)
    BY <2>1, <2>2 DEF QuestionInv, EntryIsTheAnswer
  <2> QED BY <2>1, <2>2, <2>3, QuietKeeps
<1>3. EntryIsAwaited'
  <2> SUFFICES ASSUME NEW r \in Request, Planning(r)', AsksWithoutText(r)',
                      KeyOf(r)' \notin contended'
               PROVE  final'[KeyOf(r)'] = Absent
    BY DEF EntryIsAwaited
  <2>1. Planning(r) /\ AsksWithoutText(r) /\ KeyOf(r)' = KeyOf(r) /\ KeyOf(r) \in Key \ contended
    BY <1>k, QuietKeeps
  <2> QED BY <2>1 DEF QuestionInv, EntryIsAwaited
<1>4. AnsweredBefore'
  <2> SUFFICES ASSUME NEW r \in Request, ~ At(r, "waiting")', NEW q \in req'[r].after
               PROVE  /\ q \in Request /\ Answered(q)'
                      /\ (Planning(r)' /\ HasPlan(q)' /\ KeyOf(q)' = KeyOf(r)') =>
                             KeyOf(r)' \in contended'
    BY DEF AnsweredBefore
  <2>1. ~ At(r, "waiting") /\ q \in req[r].after
    BY QuietKeeps
  <2>2. q \in Request /\ Answered(q)
    BY <2>1 DEF QuestionInv, AnsweredBefore
  <2>3. req'[q] = req[q]
    BY <2>2, QuietKeeps
  <2> QED BY <2>1, <2>2, <2>3, QuietKeeps DEF QuestionInv, AnsweredBefore, Answered, At
<1>5. CacheAnswersTheQuestion'
  <2> SUFFICES ASSUME NEW r \in Request, HasPlan(r)'
               PROVE  /\ \/ ModelGiven(req'[r].input)
                         \/ req'[r].planned = buildPlanViaMockProvider(req'[r].input.goal)
                      /\ \A q \in req'[r].after :
                           /\ Ran(q)' /\ Live(req'[q].input) /\ req'[q].planned.ok
                           /\ SameQuestion(req'[q].input, req'[r].input)
                           /\ computeKey(req'[r].input) \notin contended'
                           => req'[q].planned = req'[r].planned
    BY DEF CacheAnswersTheQuestion, HasPlan, AsksWithoutText, Ran, Answered, At
  <2>1. HasPlan(r) /\ req'[r] = req[r]
    BY QuietKeeps
  <2>2. Ran(r) /\ Live(req[r].input) /\ ~ TextGiven(req[r].input) /\ req[r].planned.ok
    BY <2>1 DEF HasPlan, AsksWithoutText, Ran
  <2>3. \A q \in req[r].after : req'[q] = req[q]
    BY <2>2, QuietKeeps DEF QuestionInv, AnsweredBefore, Ran, Answered, At
  <2> QED BY <2>1, <2>2, <2>3 DEF QuestionInv, CacheAnswersTheQuestion, Ran, Answered, At
<1> QED BY <1>0, <1>1, <1>2, <1>3, <1>4, <1>5

(* Contents are told apart, and whole ones by their records.               *)
LEMMA ContentsDiffer ==
    ASSUME NEW a, NEW b
    PROVE  /\ Whole(a) = Whole(b) => a = b
           /\ Gives(a) = Gives(b) => a = b
           /\ Whole(a) \notin {Absent, Empty, Torn}
BY DEF Whole, Gives, Absent, Empty, Torn

(* Files hold what saves that write bring.                                 *)
LEMMA CacheStepKeepsMockFiles ==
    ASSUME CacheInv, MockFiles, [CacheNext]_cacheVars,
           \A p \in Process : writer[p].at = "opened" =>
               PlanOfMock(writer[p].key, writer[p].body)
    PROVE  MockFiles'
<1>1. ASSUME NEW p \in Process, NEW k \in Key, NEW body \in Body, CacheOpen(p, k, body)
      PROVE  MockFiles'
  <2>1. final' = final /\ tmp'[k] = Empty /\ \A j \in Key \ {k} : tmp'[j] = tmp[j]
    BY <1>1 DEF CacheOpen, CacheInv, CacheTypeOK
  <2> QED BY <2>1, ContentsDiffer DEF MockFiles
<1>2. ASSUME NEW p \in Process, CacheWrite(p)
      PROVE  MockFiles'
  <2> DEFINE k == writer[p].key
             body == writer[p].body
  <2>1. PlanOfMock(k, body) /\ k \in Key
    BY <1>2 DEF CacheWrite, CacheInv, CacheTypeOK, Idle
  <2>2. \A content, b : Whole(b) \in Overwritten(content, body) => b = body
    BY ContentsDiffer DEF Overwritten
  <2>3. /\ tmp' = tmp \/ \E content \in Overwritten(tmp[k], body) :
                             tmp' = [tmp EXCEPT ![k] = content]
        /\ final' = final \/ \E content \in Overwritten(final[k], body) :
                                 final' = [final EXCEPT ![k] = content]
    BY <1>2 DEF CacheWrite
  <2> HIDE DEF k, body
  <2>4. tmp \in [Key -> Content] /\ final \in [Key -> Content]
    BY DEF CacheInv, CacheTypeOK
  <2>5. \A j \in Key : tmp'[j] = tmp[j] \/ (j = k /\ tmp'[j] \in Overwritten(tmp[k], body))
    BY <2>1, <2>3, <2>4
  <2>6. \A j \in Key :
            final'[j] = final[j] \/ (j = k /\ final'[j] \in Overwritten(final[k], body))
    BY <2>1, <2>3, <2>4
  <2> QED BY <2>1, <2>2, <2>5, <2>6 DEF MockFiles
<1>3. ASSUME NEW p \in Process, CacheRename(p)
      PROVE  MockFiles'
  <2> DEFINE k == writer[p].key
  <2>1. k \in Key
    BY <1>3 DEF CacheRename, CacheInv, CacheTypeOK, Idle
  <2>2. /\ final'[k] = tmp[k] /\ tmp'[k] = Absent
        /\ \A j \in Key \ {k} : final'[j] = final[j] /\ tmp'[j] = tmp[j]
    BY <1>3, <2>1 DEF CacheRename, CacheInv, CacheTypeOK
  <2> HIDE DEF k
  <2> QED BY <2>1, <2>2, ContentsDiffer DEF MockFiles
<1>4. CASE UNCHANGED << tmp, final >>
  BY <1>4 DEF MockFiles
<1> QED BY <1>1, <1>2, <1>3, <1>4 DEF CacheNext, CacheRenameFails, CacheDie, cacheVars

(* A handler that saves under a key of the mock provider saves its plan.   *)
LEMMA SaverHasMockPlan ==
    ASSUME AgentInv, MockPlans, NEW r \in Request, At(r, "saving")
    PROVE  PlanOfMock(KeyOf(r), req[r].planned.value)
<1>1. /\ Live(req[r].input) /\ req[r].input.fault = "none"
      /\ req[r].planned = Gives(req[r].planned.value) /\ req[r].planned.ok
  BY SaverHasPlan, PlanOrError DEF AgentInv, RequestOK, Planning, At, Waiting
<1>2. SUFFICES ASSUME KeyOf(r)[1] # "openai-compatible"
               PROVE  Gives(req[r].planned.value) = buildPlanViaMockProvider(KeyOf(r)[2])
  BY DEF PlanOfMock
<1>3. KeyOf(r)[1] = req[r].input.llmProvider /\ KeyOf(r)[2] = req[r].input.goal
  BY DEF KeyOf, computeKey
<1>4. ~ ModelGiven(req[r].input) /\ AsksWithoutText(r)
  BY <1>1, <1>2, <1>3 DEF ModelGiven, TextGiven, AsksWithoutText, At
<1> QED BY <1>1, <1>3, <1>4 DEF MockPlans

(* So do the saves that are under way.                                     *)
LEMMA WritersHaveMockPlans ==
    ASSUME AgentInv, MockPlans, NEW p \in Process, writer[p].at = "opened"
    PROVE  PlanOfMock(writer[p].key, writer[p].body)
<1>1. writer[p] # Idle /\ p \in Server
  BY ServerAssumption DEF Idle
<1>2. PICK r \in Request : SavesOf(r, p)
  BY <1>1 DEF AgentInv
<1>3. PlanOfMock(KeyOf(r), req[r].planned.value)
  BY <1>2, SaverHasMockPlan DEF SavesOf
<1> QED BY <1>2, <1>3, PlanOrError DEF SavesOf, KeyOf

(* A handler that is through at once is answered with an error, without a  *)
(* question, or with the entry of its question.                            *)
LEMMA AnswerAtOnceKeepsAnswers ==
    ASSUME AgentInv, QuestionInv, NEW r \in Request, Accepts(r),
           NEW input \in Inputs[demand][r], NEW planned,
           AnswerAtOnce(r, input, planned), UNCHANGED demand,
           (input.fault = "none" /\ Live(input) /\ ~ TextGiven(input) /\ planned.ok) =>
               \E body \in Body : planned = Gives(body) /\ final[computeKey(input)] = Whole(body)
    PROVE  QuestionInv'
<1> DEFINE k == computeKey(input)
           asks == input.fault = "none" /\ Live(input) /\ ~ TextGiven(input) /\ planned.ok
<1>1. /\ req'[r] = Arrived(r, "answered", input, planned)
      /\ \A q \in Request \ {r} : req'[q] = req[q]
      /\ UNCHANGED << contended, tmp, final, overlapped >>
  BY BeginsAlone DEF AnswerAtOnce, cacheVars
<1>2. /\ req'[r].at = "answered" /\ req'[r].input = input /\ req'[r].planned = planned
      /\ req'[r].after = AnsweredSoFar
  BY <1>1 DEF Arrived
<1>3. /\ ~ Planning(r)' /\ (AsksWithoutText(r)' /\ planned.ok <=> asks)
      /\ (HasPlan(r)' <=> asks) /\ KeyOf(r)' = k
  BY <1>2 DEF Planning, AsksWithoutText, HasPlan, Answered, At, KeyOf
<1>4. \A q \in Request \ {r} :
          /\ Planning(q)' = Planning(q) /\ KeyOf(q)' = KeyOf(q)
          /\ HasPlan(q)' = HasPlan(q) /\ AsksWithoutText(q)' = AsksWithoutText(q)
          /\ Answered(q)' = Answered(q) /\ Ran(q)' = Ran(q) /\ At(q, "waiting")' = At(q, "waiting")
  BY <1>1 DEF Planning, AsksWithoutText, HasPlan, Answered, At, KeyOf, Ran
<1>5. At(r, "waiting") /\ ~ Answered(r) /\ ~ Planning(r)
  BY DEF Accepts, At, Answered, Planning
<1>6. ASSUME asks
      PROVE  /\ k \in Key
             /\ \E body \in Body : planned = Gives(body) /\ final[k] = Whole(body)
             /\ ~ ModelGiven(input) => planned = buildPlanViaMockProvider(input.goal)
  <2>1. k \in Key
    BY <1>6, PlansHaveKeys
  <2>2. PICK body \in Body : planned = Gives(body) /\ final[k] = Whole(body)
    BY <1>6
  <2>3. PlanOfMock(k, body)
    BY <2>1, <2>2 DEF QuestionInv, MockPlansAreCached
  <2>4. ~ ModelGiven(input) => planned = buildPlanViaMockProvider(input.goal)
    BY <2>2, <2>3 DEF PlanOfMock, computeKey, ModelGiven
  <2> QED BY <2>1, <2>2, <2>4
<1> HIDE DEF k, asks
<1>7. MockPlansAreCached'
  <2>1. ASSUME NEW q \in Request, AsksWithoutText(q)', ~ ModelGiven(req'[q].input),
               req'[q].planned.ok
        PROVE  req'[q].planned = buildPlanViaMockProvider(req'[q].input.goal)
    <3>1. CASE q = r
      BY <1>2, <1>3, <1>6, <2>1, <3>1
    <3>2. CASE q # r
      BY <1>1, <1>4, <2>1, <3>2 DEF QuestionInv, MockPlansAreCached
    <3> QED BY <3>1, <3>2
  <2> QED BY <1>1, <2>1 DEF QuestionInv, MockPlansAreCached
<1>8. OnePlans'
  BY <1>1, <1>3, <1>4 DEF QuestionInv, OnePlans
<1>9. EntryIsTheAnswer'
  <2> SUFFICES ASSUME NEW p \in Request, HasPlan(p)', KeyOf(p)' \notin contended
               PROVE  /\ \E body \in Body : /\ req'[p].planned = Gives(body)
                                            /\ final[KeyOf(p)'] = Whole(body)
                      /\ \A q \in Request : Planning(q)' => KeyOf(q)' # KeyOf(p)'
    BY <1>1 DEF EntryIsTheAnswer
  <2>1. CASE p = r
    <3>1. asks /\ final[k] # Absent
      BY <1>3, <1>6, <2>1, ContentsDiffer
    <3>2. ASSUME NEW q \in Request, Planning(q), KeyOf(q) = k
          PROVE  FALSE
      <4>1. ~ TextGiven(req[q].input)
        BY <3>1, <3>2, KeysTellQuestions DEF KeyOf, k, asks
      <4>2. AsksWithoutText(q)
        BY <3>2, <4>1 DEF AgentInv, RequestOK, AsksWithoutText, Planning, At, Waiting
      <4> QED BY <1>3, <2>1, <3>1, <3>2, <4>2 DEF QuestionInv, EntryIsAwaited
    <3> QED BY <1>2, <1>3, <1>4, <1>6, <2>1, <3>1, <3>2
  <2>2. CASE p # r
    BY <1>1, <1>3, <1>4, <2>2 DEF QuestionInv, EntryIsTheAnswer
  <2> QED BY <2>1, <2>2
<1>10. EntryIsAwaited'
  BY <1>1, <1>3, <1>4 DEF QuestionInv, EntryIsAwaited
<1>11. AnsweredBefore'
  <2>1. \A q \in AnsweredSoFar : q \in Request \ {r} /\ Answered(q)'
    BY <1>4, <1>5 DEF AnsweredSoFar
  <2>2. ASSUME NEW p \in Request \ {r}, ~ At(p, "waiting"), NEW q \in req[p].after
        PROVE  q \in Request \ {r} /\ Answered(q)
    BY <1>5, <2>2 DEF QuestionInv, AnsweredBefore
  <2>3. ASSUME NEW p \in Request, ~ At(p, "waiting")', NEW q \in req'[p].after
        PROVE  /\ q \in Request /\ Answered(q)'
               /\ (Planning(p)' /\ HasPlan(q)' /\ KeyOf(q)' = KeyOf(p)') => KeyOf(p)' \in contended'
    <3>1. CASE p = r
      BY <1>2, <1>3, <2>1, <2>3, <3>1
    <3>2. CASE p # r
      BY <1>1, <1>4, <2>2, <2>3, <3>2 DEF QuestionInv, AnsweredBefore
    <3> QED BY <3>1, <3>2
  <2> QED BY <2>3 DEF AnsweredBefore
<1>12. CacheAnswersTheQuestion'
  <2> SUFFICES ASSUME NEW p \in Request, HasPlan(p)'
               PROVE  /\ \/ ModelGiven(req'[p].input)
                         \/ req'[p].planned = buildPlanViaMockProvider(req'[p].input.goal)
                      /\ \A q \in req'[p].after :
                           /\ Ran(q)' /\ Live(req'[q].input) /\ req'[q].planned.ok
                           /\ SameQuestion(req'[q].input, req'[p].input)
                           /\ computeKey(req'[p].input) \notin contended'
                           => req'[q].planned = req'[p].planned
    BY DEF CacheAnswersTheQuestion, HasPlan, AsksWithoutText, Ran, Answered, At
  <2>1. CASE p # r
    <3>1. HasPlan(p) /\ req'[p] = req[p]
      BY <1>1, <1>4, <2>1
    <3>2. \A q \in req[p].after : q \in Request \ {r}
      BY <1>5, <3>1 DEF QuestionInv, AnsweredBefore, HasPlan, AsksWithoutText
    <3> QED
      BY <1>1, <1>4, <3>1, <3>2 DEF QuestionInv, CacheAnswersTheQuestion, HasPlan,
          AsksWithoutText, Ran
  <2>2. CASE p = r
    <3>1. asks
      BY <1>3, <2>2
    <3>2. ASSUME NEW q \in AnsweredSoFar, Ran(q), Live(req[q].input), req[q].planned.ok,
                 SameQuestion(req[q].input, input), k \notin contended
          PROVE  req[q].planned = planned
      <4>1. q \in Request /\ HasPlan(q) /\ ~ TextGiven(req[q].input)
        BY <3>2, KeysTellQuestions
           DEF AnsweredSoFar, HasPlan, AsksWithoutText, Ran, Answered, At
      <4>2. CASE ModelGiven(input)
        <5>1. KeyOf(q) = k
          BY <3>2, <4>2, KeysTellQuestions DEF KeyOf, k
        <5>2. PICK body \in Body : req[q].planned = Gives(body) /\ final[k] = Whole(body)
          BY <3>2, <4>1, <5>1 DEF QuestionInv, EntryIsTheAnswer
        <5> QED BY <1>6, <3>1, <5>2, ContentsDiffer
      <4>3. CASE ~ ModelGiven(input)
        <5>1. ~ ModelGiven(req[q].input) /\ req[q].input.goal = input.goal
          BY <3>2, <4>3, KeysTellQuestions
        <5> QED
          BY <1>6, <3>1, <4>1, <4>3, <5>1
             DEF QuestionInv, MockPlansAreCached, HasPlan
      <4> QED BY <4>2, <4>3
    <3>3. \A q \in AnsweredSoFar : req'[q] = req[q] /\ Ran(q)' = Ran(q)
      BY <1>1, <1>4, <1>5 DEF AnsweredSoFar
    <3> QED BY <1>1, <1>2, <1>6, <2>2, <3>1, <3>2, <3>3 DEF k
  <2> QED BY <2>1, <2>2
<1> QED BY <1>1, <1>7, <1>8, <1>9, <1>10, <1>11, <1>12 DEF QuestionInv

(* A handler that goes on found no entry, or was given its text; whoever   *)
(* plans for its key already is told of.                                   *)
LEMMA GoOnKeepsAnswers ==
    ASSUME AgentInv, QuestionInv, NEW r \in Request, Accepts(r), NEW at, NEW input, NEW planned,
           at \in {"asking", "saving"}, MayBegin(r, at, input, planned),
           GoOn(r, at, input, planned), UNCHANGED demand,
           ~ TextGiven(input) =>
               /\ final[computeKey(input)] = Absent
               /\ planned.ok => planned = buildPlanViaMockProvider(input.goal)
    PROVE  QuestionInv'
<1> DEFINE k == computeKey(input)
<1>1. /\ req'[r] = Arrived(r, at, input, planned)
      /\ \A q \in Request \ {r} : req'[q] = req[q]
      /\ UNCHANGED << tmp, final, overlapped >>
  BY BeginsAlone DEF GoOn, cacheVars
<1>2. /\ req'[r].at = at /\ req'[r].input = input /\ req'[r].planned = planned
      /\ req'[r].after = AnsweredSoFar
  BY <1>1 DEF Arrived
<1>3. /\ Planning(r)' /\ ~ HasPlan(r)' /\ ~ Ran(r)' /\ (AsksWithoutText(r)' => ~ TextGiven(input))
      /\ KeyOf(r)' = k
  BY <1>2 DEF Planning, AsksWithoutText, HasPlan, Answered, At, KeyOf, Ran
<1>4. \A q \in Request \ {r} :
          /\ Planning(q)' = Planning(q) /\ KeyOf(q)' = KeyOf(q)
          /\ HasPlan(q)' = HasPlan(q) /\ AsksWithoutText(q)' = AsksWithoutText(q)
          /\ Answered(q)' = Answered(q) /\ Ran(q)' = Ran(q) /\ At(q, "waiting")' = At(q, "waiting")
  BY <1>1 DEF Planning, AsksWithoutText, HasPlan, Answered, At, KeyOf, Ran
<1>5. At(r, "waiting") /\ ~ Answered(r) /\ ~ Planning(r)
  BY DEF Accepts, At, Answered, Planning
<1>6. /\ contended \subseteq contended'
      /\ \A q \in Request \ {r} : Planning(q) /\ KeyOf(q) = k => k \in contended'
  BY DEF GoOn, Contending, KeyOf
<1>7. ASSUME NEW q \in Request \ {r}, HasPlan(q), KeyOf(q) = k
      PROVE  k \in contended
  <2>1. ~ TextGiven(input)
    BY <1>7, KeysTellQuestions DEF HasPlan, AsksWithoutText, KeyOf
  <2>2. final[KeyOf(q)] = Absent
    BY <1>7, <2>1
  <2> QED BY <1>7, <2>2, ContentsDiffer DEF QuestionInv, EntryIsTheAnswer
<1>8. ~ TextGiven(input) =>
          /\ final[k] = Absent
          /\ planned.ok => planned = buildPlanViaMockProvider(input.goal)
  OBVIOUS
<1> HIDE DEF k
<1>9. MockPlansAreCached'
  <2>1. ASSUME NEW q \in Request, AsksWithoutText(q)', ~ ModelGiven(req'[q].input),
               req'[q].planned.ok
        PROVE  req'[q].planned = buildPlanViaMockProvider(req'[q].input.goal)
    <3>1. CASE q = r
      BY <1>2, <1>3, <1>8, <2>1, <3>1
    <3>2. CASE q # r
      BY <1>1, <1>4, <2>1, <3>2 DEF QuestionInv, MockPlansAreCached
    <3> QED BY <3>1, <3>2
  <2> QED BY <1>1, <2>1 DEF QuestionInv, MockPlansAreCached
<1>10. OnePlans'
  <2> SUFFICES ASSUME NEW p \in Request, NEW q \in Request, Planning(p)', Planning(q)',
                      KeyOf(p)' = KeyOf(q)', p # q
               PROVE  KeyOf(q)' \in contended'
    BY DEF OnePlans
  <2>1. CASE p = r \/ q = r
    BY <1>3, <1>4, <1>6, <2>1
  <2>2. CASE p # r /\ q # r
    BY <1>4, <1>6, <2>2 DEF QuestionInv, OnePlans
  <2> QED BY <2>1, <2>2
<1>11. EntryIsTheAnswer'
  <2> SUFFICES ASSUME NEW p \in Request, HasPlan(p)', KeyOf(p)' \notin contended'
               PROVE  /\ \E body \in Body : /\ req'[p].planned = Gives(body)
                                            /\ final[KeyOf(p)'] = Whole(body)
                      /\ \A q \in Request : Planning(q)' => KeyOf(q)' # KeyOf(p)'
    BY <1>1 DEF EntryIsTheAnswer
  <2>1. p # r /\ HasPlan(p) /\ KeyOf(p) \notin contended /\ KeyOf(p)' = KeyOf(p)
    BY <1>3, <1>4, <1>6
  <2>2. /\ \E body \in Body : req[p].planned = Gives(body) /\ final[KeyOf(p)] = Whole(body)
        /\ \A q \in Request : Planning(q) => KeyOf(q) # KeyOf(p)
    BY <2>1 DEF QuestionInv, EntryIsTheAnswer
  <2>3. KeyOf(p) # k
    BY <1>7, <2>1
  <2> QED BY <1>1, <1>3, <1>4, <2>1, <2>2, <2>3
<1>12. EntryIsAwaited'
  <2> SUFFICES ASSUME NEW p \in Request, Planning(p)', AsksWithoutText(p)',
                      KeyOf(p)' \notin contended'
               PROVE  final[KeyOf(p)'] = Absent
    BY <1>1 DEF EntryIsAwaited
  <2>1. CASE p = r
    BY <1>3, <1>8, <2>1
  <2>2. CASE p # r
    BY <1>4, <1>6, <2>2 DEF QuestionInv, EntryIsAwaited
  <2> QED BY <2>1, <2>2
<1>13. AnsweredBefore'
  <2>1. \A q \in AnsweredSoFar : q \in Request \ {r} /\ Answered(q)'
    BY <1>4, <1>5 DEF AnsweredSoFar
  <2>2. ASSUME NEW p \in Request \ {r}, ~ At(p, "waiting"), NEW q \in req[p].after
        PROVE  q \in Request \ {r} /\ Answered(q)
    BY <1>5, <2>2 DEF QuestionInv, AnsweredBefore
  <2>3. ASSUME NEW p \in Request, ~ At(p, "waiting")', NEW q \in req'[p].after
        PROVE  /\ q \in Request /\ Answered(q)'
               /\ (Planning(p)' /\ HasPlan(q)' /\ KeyOf(q)' = KeyOf(p)') => KeyOf(p)' \in contended'
    <3>1. CASE p = r
      BY <1>2, <1>3, <1>4, <1>6, <1>7, <2>1, <2>3, <3>1
    <3>2. CASE p # r
      BY <1>1, <1>4, <1>6, <2>2, <2>3, <3>2 DEF QuestionInv, AnsweredBefore
    <3> QED BY <3>1, <3>2
  <2> QED BY <2>3 DEF AnsweredBefore
<1>14. CacheAnswersTheQuestion'
  <2> SUFFICES ASSUME NEW p \in Request, HasPlan(p)'
               PROVE  /\ \/ ModelGiven(req'[p].input)
                         \/ req'[p].planned = buildPlanViaMockProvider(req'[p].input.goal)
                      /\ \A q \in req'[p].after :
                           /\ Ran(q)' /\ Live(req'[q].input) /\ req'[q].planned.ok
                           /\ SameQuestion(req'[q].input, req'[p].input)
                           /\ computeKey(req'[p].input) \notin contended'
                           => req'[q].planned = req'[p].planned
    BY DEF CacheAnswersTheQuestion, HasPlan, AsksWithoutText, Ran, Answered, At
  <2>1. p # r /\ HasPlan(p) /\ req'[p] = req[p]
    BY <1>1, <1>3, <1>4
  <2>2. \A q \in req[p].after : q \in Request \ {r}
    BY <1>5, <2>1 DEF QuestionInv, AnsweredBefore, HasPlan, AsksWithoutText
  <2> QED
    BY <1>1, <1>4, <1>6, <2>1, <2>2 DEF QuestionInv, CacheAnswersTheQuestion, HasPlan,
        AsksWithoutText, Ran
<1>15. overlapped' \subseteq contended'
  BY <1>1, <1>6 DEF QuestionInv
<1> QED BY <1>9, <1>10, <1>11, <1>12, <1>13, <1>14, <1>15 DEF QuestionInv

(* A step in which all requests are quiet, as far as the files of keys     *)
(* that are not contended are not touched, keeps the answers right.        *)
LEMMA QuietStepKeepsQuestions ==
    ASSUME AgentInv, QuestionInv, \A q \in Request : Quiet(q), contended' = contended,
           \A k \in Key \ contended : final'[k] = final[k],
           [CacheNext]_cacheVars, overlapped' \subseteq contended
    PROVE  QuestionInv'
<1>1. MockFiles /\ MockPlans
  BY DEF QuestionInv, MockPlansAreCached, MockFiles, MockPlans
<1>2. MockFiles'
  BY <1>1, CacheStepKeepsMockFiles, WritersHaveMockPlans DEF AgentInv
<1>3. /\ OnePlans' /\ EntryIsTheAnswer' /\ EntryIsAwaited' /\ AnsweredBefore'
      /\ CacheAnswersTheQuestion' /\ MockPlans'
  BY QuietStepKeepsAnswers
<1>4. MockPlansAreCached'
  BY <1>2, <1>3 DEF MockPlansAreCached, MockFiles, MockPlans
<1> QED BY <1>3, <1>4 DEF QuestionInv

(* A save that is opened, written or in vain changes no entry of a key     *)
(* only one request plans for.                                             *)
LEMMA QuietSavesKeepQuestions ==
    ASSUME AgentInv, QuestionInv, NEW r \in Request,
           SaveOpens(r) \/ SaveWrites(r) \/ SaveRenameFails(r)
    PROVE  QuestionInv'
<1> DEFINE s == ServerOf[r]
<1>1. CacheNext /\ At(r, "saving") /\ Planning(r) /\ s \in Process /\ Process = Server
      /\ KeyOf(r) \in Key /\ contended' = contended
  BY SavesAreCacheSteps, SaverHasPlan, ServerAssumption
     DEF Saves, SaveOpens, SaveWrites, SaveRenameFails
<1> HIDE DEF s
<1>2. CASE SaveOpens(r)
  <2>1. /\ writer[s].at = "idle"
        /\ overlapped' = overlapped \cup {j \in {KeyOf(r)} : \E q \in Process : Busy(q, KeyOf(r))}
        /\ final' = final /\ req' = req
    BY <1>2 DEF SaveOpens, CacheOpen, s, KeyOf
  <2>2. ASSUME NEW p \in Process, Busy(p, KeyOf(r))
        PROVE  KeyOf(r) \in contended
    <3>1. writer[p] # Idle /\ p \in Server
      BY <1>1, <2>2 DEF Busy, Idle
    <3>2. PICK q \in Request : SavesOf(q, p)
      BY <3>1 DEF AgentInv
    <3>3. KeyOf(q) = KeyOf(r) /\ Planning(q)
      BY <2>2, <3>2 DEF Busy, SavesOf, KeyOf, Planning, At
    <3>4. q # r
      BY <2>1, <2>2, <3>2 DEF SavesOf, Busy, s
    <3> QED BY <1>1, <3>3, <3>4 DEF QuestionInv, OnePlans
  <2>3. overlapped' \subseteq contended
    BY <2>1, <2>2 DEF QuestionInv
  <2> QED BY <1>1, <2>1, <2>3, QuietStepKeepsQuestions DEF Quiet
<1>3. CASE SaveWrites(r)
  <2>1. /\ writer[s].at = "opened" /\ overlapped' = overlapped /\ req' = req
        /\ \/ final' = final
           \/ /\ writer[s].file = "final"
              /\ \E content : final' = [final EXCEPT ![writer[s].key] = content]
    BY <1>3 DEF SaveWrites, CacheWrite, s
  <2>2. ASSUME NEW k \in Key \ contended
        PROVE  final'[k] = final[k]
    <3>1. CASE final' = final
      BY <3>1
    <3>2. CASE final' # final
      <4>1. k \notin overlapped
        BY DEF QuestionInv
      <4>2. ~ Busy(s, k)
        BY <1>1, <2>1, <3>2, <4>1 DEF AgentInv, CacheInv, SaveOwnsItsFile
      <4>3. writer[s].key # k
        BY <2>1, <4>2 DEF Busy
      <4> QED BY <2>1, <4>3 DEF AgentInv, CacheInv, CacheTypeOK
    <3> QED BY <3>1, <3>2
  <2> QED BY <1>1, <2>1, <2>2, QuietStepKeepsQuestions DEF Quiet, QuestionInv
<1>4. CASE SaveRenameFails(r)
  <2>1. overlapped' = overlapped /\ final' = final /\ Finish(r, Fails("ENOENT"))
    BY <1>4 DEF SaveRenameFails, CacheRenameFails
  <2>2. \A q \in Request : Quiet(q)
    BY <1>1, <2>1, FinishesAlone, PlanOrError DEF Quiet
  <2> QED BY <1>1, <2>1, <2>2, QuietStepKeepsQuestions DEF QuestionInv
<1> QED BY <1>2, <1>3, <1>4

(* So does the model's answer, or its failure.                             *)
LEMMA AnswersKeepQuestions ==
    ASSUME AgentInv, QuestionInv, NEW r \in Request, Answers(r)
    PROVE  QuestionInv'
<1>1. Resumes(r) /\ UNCHANGED << demand, contended, cacheVars >>
  BY DEF Answers, ModelAnswers, ModelFails
<1>2. /\ Planning(r) /\ ModelGiven(req[r].input)
      /\ r \in DOMAIN req /\ DOMAIN req[r] = {"at", "input", "planned", "previous", "after"}
  BY <1>1 DEF Resumes, Planning, At, AgentInv, RequestOK, Waiting
<1>3. ASSUME NEW planned, Finish(r, planned), ~ planned.ok
      PROVE  \A q \in Request : Quiet(q)
  BY <1>2, <1>3, FinishesAlone DEF Quiet
<1>4. ASSUME NEW plan, req' = [req EXCEPT ![r].at = "saving", ![r].planned = plan]
      PROVE  \A q \in Request : Quiet(q)
  <2>1. req'[r] = [req[r] EXCEPT !.at = "saving", !.planned = plan]
    BY <1>2, <1>4
  <2>2. /\ req'[r].at = "saving" /\ req'[r].input = req[r].input /\ req'[r].after = req[r].after
        /\ \A q \in Request \ {r} : req'[q] = req[q]
    BY <1>2, <1>4, <2>1 DEF AgentInv
  <2> QED BY <1>2, <2>2 DEF Quiet
<1>5. \A q \in Request : Quiet(q)
  BY <1>3, <1>4, PlanOrError DEF Answers, ModelAnswers, ModelFails
<1> QED BY <1>1, <1>5, QuietStepKeepsQuestions DEF cacheVars, QuestionInv

(* And a crash.                                                            *)
LEMMA CrashKeepsQuestions ==
    ASSUME AgentInv, QuestionInv, NEW s \in Server, Crash(s)
    PROVE  QuestionInv'
<1>1. \A q \in Request : Quiet(q)
  BY CrashMoves DEF Quiet
<1>2. UNCHANGED << contended, final, overlapped >> /\ CacheNext
  BY CrashMoves, CrashKeepsInv
<1> QED BY <1>1, <1>2, QuietStepKeepsQuestions DEF QuestionInv

(* The rename makes the plan the entry: the only one of its key, and the   *)
(* answer of the only request that planned for it.                         *)
LEMMA RenameKeepsQuestions ==
    ASSUME AgentInv, QuestionInv, NEW r \in Request, SaveRenames(r)
    PROVE  QuestionInv'
<1> DEFINE s == ServerOf[r]
           k == KeyOf(r)
<1>1. /\ CacheNext /\ At(r, "saving") /\ Planning(r) /\ s \in Process /\ Process = Server
      /\ k \in Key /\ req[r].planned = Gives(req[r].planned.value) /\ req[r].planned.value \in Body
      /\ contended' = contended /\ CacheRename(s) /\ Finish(r, req[r].planned)
  BY SavesAreCacheSteps, SaverHasPlan, ServerAssumption DEF Saves, SaveRenames
<1>2. /\ writer[s].at = "written" /\ writer[s] # Idle /\ overlapped' = overlapped
      /\ final' = [final EXCEPT ![writer[s].key] = tmp[writer[s].key]]
  BY <1>1 DEF CacheRename, Idle
<1>3. writer[s].key = k /\ req[r].planned = Gives(writer[s].body)
  BY <1>1, <1>2, WriterIsSaver DEF SavesOf, KeyOf
<1>4. /\ req'[r].at = "answered" /\ req'[r].planned = req[r].planned
      /\ req'[r].input = req[r].input /\ req'[r].after = req[r].after
      /\ \A q \in Request \ {r} : req'[q] = req[q]
  BY <1>1, FinishesAlone
<1>5. final'[k] = tmp[k] /\ \A j \in Key \ {k} : final'[j] = final[j]
  BY <1>1, <1>2, <1>3 DEF AgentInv, CacheInv, CacheTypeOK
<1> HIDE DEF s
<1>6. ASSUME k \notin contended
      PROVE  \E body \in Body : req[r].planned = Gives(body) /\ final'[k] = Whole(body)
  <2>1. k \notin overlapped /\ Busy(s, k)
    BY <1>2, <1>3, <1>6 DEF QuestionInv, Busy
  <2>2. tmp[k] = Whole(writer[s].body)
    BY <1>1, <1>2, <2>1 DEF AgentInv, CacheInv, SaveOwnsItsFile
  <2>3. writer[s].body \in Body
    BY <1>1, <1>3, ContentsDiffer
  <2> QED BY <1>3, <1>5, <2>2, <2>3
<1>7. \A q \in Request : /\ KeyOf(q)' = KeyOf(q)
                         /\ Planning(q)' => Planning(q) /\ q # r
                         /\ AsksWithoutText(q)' <=> AsksWithoutText(q)
                         /\ HasPlan(q)' => HasPlan(q) \/ (q = r /\ AsksWithoutText(r))
                         /\ Answered(q) => q # r /\ req'[q] = req[q] /\ Answered(q)'
                         /\ ~ At(q, "waiting")' => ~ At(q, "waiting")
                         /\ req'[q].after = req[q].after
                         /\ req'[q].planned = req[q].planned /\ req'[q].input = req[q].input
  <2> SUFFICES ASSUME NEW q \in Request
               PROVE  /\ KeyOf(q)' = KeyOf(q)
                      /\ Planning(q)' => Planning(q) /\ q # r
                      /\ AsksWithoutText(q)' <=> AsksWithoutText(q)
                      /\ HasPlan(q)' => HasPlan(q) \/ (q = r /\ AsksWithoutText(r))
                      /\ Answered(q) => q # r /\ req'[q] = req[q] /\ Answered(q)'
                      /\ ~ At(q, "waiting")' => ~ At(q, "waiting")
                      /\ req'[q].after = req[q].after
                      /\ req'[q].planned = req[q].planned /\ req'[q].input = req[q].input
    OBVIOUS
  <2>1. CASE q = r
    BY <1>1, <1>4, <2>1 DEF Planning, AsksWithoutText, HasPlan, At, Answered, KeyOf
  <2>2. CASE q # r
    BY <1>1, <1>4, <2>2 DEF Planning, AsksWithoutText, HasPlan, At, Answered, KeyOf
  <2> QED BY <2>1, <2>2
<1>8. MockPlansAreCached'
  <2>1. MockFiles /\ MockPlans
    BY DEF QuestionInv, MockPlansAreCached, MockFiles, MockPlans
  <2>2. MockFiles'
    BY <1>1, <2>1, CacheStepKeepsMockFiles, WritersHaveMockPlans DEF AgentInv
  <2>3. MockPlans'
    BY <1>7, <2>1 DEF MockPlans
  <2> QED BY <2>2, <2>3 DEF MockPlansAreCached, MockFiles, MockPlans
<1>9. ASSUME NEW q \in Request \ {r}, Planning(q), KeyOf(q) = k
      PROVE  k \in contended
  BY <1>1, <1>9 DEF QuestionInv, OnePlans
<1>10. ASSUME NEW q \in Request, HasPlan(q), KeyOf(q) = k
      PROVE  k \in contended
  BY <1>1, <1>10 DEF QuestionInv, EntryIsTheAnswer
<1>11. \A q \in Request : Planning(q) \/ AsksWithoutText(q) => KeyOf(q) \in Key
  BY PlansHaveKeys DEF AgentInv, RequestOK, Waiting, Planning, AsksWithoutText, At, KeyOf
<1> HIDE DEF k
<1>12. OnePlans'
  BY <1>1, <1>7 DEF QuestionInv, OnePlans
<1>13. EntryIsTheAnswer'
  <2> SUFFICES ASSUME NEW p \in Request, HasPlan(p)', KeyOf(p) \notin contended
               PROVE  /\ \E body \in Body : /\ req[p].planned = Gives(body)
                                            /\ final'[KeyOf(p)] = Whole(body)
                      /\ \A q \in Request : Planning(q)' => KeyOf(q) # KeyOf(p)
    BY <1>1, <1>7 DEF EntryIsTheAnswer
  <2>1. CASE HasPlan(p)
    <3>1. /\ \E body \in Body : req[p].planned = Gives(body) /\ final[KeyOf(p)] = Whole(body)
          /\ \A q \in Request : Planning(q) => KeyOf(q) # KeyOf(p)
      BY <2>1 DEF QuestionInv, EntryIsTheAnswer
    <3>2. KeyOf(p) \in Key \ {k}
      BY <1>10, <1>11, <2>1 DEF HasPlan
    <3> QED BY <1>5, <1>7, <3>1, <3>2
  <2>2. CASE p = r
    <3>1. KeyOf(p) = k
      BY <2>2 DEF k
    <3> QED BY <1>6, <1>7, <1>9, <2>2, <3>1
  <2> QED BY <1>7, <2>1, <2>2
<1>14. EntryIsAwaited'
  <2> SUFFICES ASSUME NEW p \in Request, Planning(p), p # r, AsksWithoutText(p),
                      KeyOf(p) \notin contended
               PROVE  final'[KeyOf(p)] = Absent
    BY <1>1, <1>7 DEF EntryIsAwaited
  <2>1. KeyOf(p) \in Key \ {k}
    BY <1>9, <1>11
  <2> QED BY <1>5, <2>1 DEF QuestionInv, EntryIsAwaited
<1>15. AnsweredBefore'
  <2> SUFFICES ASSUME NEW p \in Request, ~ At(p, "waiting"), NEW q \in req[p].after
               PROVE  /\ q \in Request /\ Answered(q)'
                      /\ (Planning(p)' /\ HasPlan(q)' /\ KeyOf(q)' = KeyOf(p)') =>
                             KeyOf(p)' \in contended'
    BY <1>7 DEF AnsweredBefore
  <2>1. q \in Request /\ Answered(q)
    BY DEF QuestionInv, AnsweredBefore
  <2>2. q # r /\ Answered(q)'
    BY <1>7, <2>1
  <2> QED BY <1>1, <1>7, <2>1, <2>2 DEF QuestionInv, AnsweredBefore
<1>16. CacheAnswersTheQuestion'
  <2> SUFFICES ASSUME NEW p \in Request, HasPlan(p)'
               PROVE  /\ \/ ModelGiven(req'[p].input)
                         \/ req'[p].planned = buildPlanViaMockProvider(req'[p].input.goal)
                      /\ \A q \in req'[p].after :
                           /\ Ran(q)' /\ Live(req'[q].input) /\ req'[q].planned.ok
                           /\ SameQuestion(req'[q].input, req'[p].input)
                           /\ computeKey(req'[p].input) \notin contended'
                           => req'[q].planned = req'[p].planned
    BY DEF CacheAnswersTheQuestion, HasPlan, AsksWithoutText, Ran, Answered, At
  <2>0. AsksWithoutText(p) /\ req[p].planned.ok
    BY <1>7 DEF HasPlan
  <2>1. \A q \in req[p].after : q \in Request /\ Answered(q) /\ req'[q] = req[q]
    BY <1>7, <2>0 DEF QuestionInv, AnsweredBefore, AsksWithoutText
  <2>2. CASE HasPlan(p)
    BY <1>1, <1>7, <2>1, <2>2 DEF QuestionInv, CacheAnswersTheQuestion, HasPlan,
        AsksWithoutText, Ran, Answered, At
  <2>3. CASE p = r
    <3>1. ~ ModelGiven(req[p].input) =>
              req[p].planned = buildPlanViaMockProvider(req[p].input.goal)
      BY <2>0 DEF QuestionInv, MockPlansAreCached
    <3>2. ASSUME NEW q \in req[p].after, Ran(q), Live(req[q].input), req[q].planned.ok,
                 SameQuestion(req[q].input, req[p].input), k \notin contended
          PROVE  req[q].planned = req[p].planned
      <4>1. q \in Request /\ HasPlan(q) /\ ~ TextGiven(req[q].input)
        BY <2>1, <3>2, KeysTellQuestions DEF HasPlan, AsksWithoutText, Ran, Answered, At
      <4>2. CASE ModelGiven(req[p].input)
        <5>1. KeyOf(q) = k
          BY <2>3, <3>2, <4>2, KeysTellQuestions DEF KeyOf, k
        <5> QED BY <1>10, <3>2, <4>1, <5>1
      <4>3. CASE ~ ModelGiven(req[p].input)
        <5>1. /\ ~ ModelGiven(req[q].input)
              /\ req[q].input.goal = req[p].input.goal
          BY <3>2, <4>3, KeysTellQuestions
        <5> QED BY <3>1, <4>1, <4>3, <5>1 DEF QuestionInv, MockPlansAreCached, HasPlan
      <4> QED BY <4>2, <4>3
    <3>3. computeKey(req'[p].input) = k
      BY <1>7, <2>3 DEF KeyOf, k
    <3>4. \A q \in req[p].after : Ran(q)' <=> Ran(q)
      BY <2>1 DEF Ran, Answered, At
    <3> QED BY <1>1, <1>7, <2>1, <3>1, <3>2, <3>3, <3>4
  <2> QED BY <1>7, <2>2, <2>3
<1> QED BY <1>1, <1>2, <1>8, <1>12, <1>13, <1>14, <1>15, <1>16 DEF QuestionInv

(* However a request arrives, the answers stay those of their questions.   *)
LEMMA ReceiveKeepsQuestions ==
    ASSUME AgentInv, QuestionInv, NEW r \in Request, NEW input \in Inputs[demand][r],
           Receive(r, input)
    PROVE  QuestionInv'
<1>1. CASE Refuse(r, input)
  BY <1>1, AnswerAtOnceKeepsAnswers, PlanOrError DEF Refuse
<1>2. CASE AnswerOutright(r, input)
  BY <1>2, AnswerAtOnceKeepsAnswers DEF AnswerOutright
<1>3. CASE PlanFromText(r, input)
  <2> DEFINE made == materializePlanFromLlmPlanText(input.llmPlanTextFormat,
                         input.llmPlanText, input.llmPlannerAvailableTools, input.maxSteps,
                         input.llmVerifiedPlanId)
  <2>1. /\ Accepts(r) /\ Live(input) /\ input.fault = "none" /\ TextGiven(input)
        /\ IF made.result.ok THEN GoOn(r, "saving", input, made.result)
                             ELSE AnswerAtOnce(r, input, made.result)
        /\ demand' = demand
    BY <1>3 DEF PlanFromText, AcceptsLive
  <2>2. PlanMade(input) = made.result
    BY <2>1 DEF PlanMade
  <2>3. made.result.ok =>
          made.result = Gives(made.result.value) /\ made.result.value \in Body
    BY <2>1, <2>2, MaterializedGives, PlansHaveKeys
  <2> HIDE DEF made
  <2>4. CASE made.result.ok
    <3>1. MayBegin(r, "saving", input, made.result)
      BY <2>1, <2>3, <2>4 DEF MayBegin
    <3> QED BY <2>1, <2>4, <3>1, GoOnKeepsAnswers
  <2> QED BY <2>1, <2>4, AnswerAtOnceKeepsAnswers
<1>4. CASE PlanFromCache(r, input)
  <2> DEFINE entry == final[computeKey(input)]
             planned == IF IsWhole(entry) THEN Gives(entry.body) ELSE Fails("SyntaxError")
  <2>1. /\ Accepts(r) /\ AnswerAtOnce(r, input, planned) /\ demand' = demand
    BY <1>4 DEF PlanFromCache, AcceptsLive
  <2>2. planned.ok => \E body \in Body : planned = Gives(body) /\ entry = Whole(body)
    <3>1. ASSUME NEW body \in Body, entry = Whole(body)
          PROVE  entry.body = body
      BY <3>1 DEF Whole
    <3> QED BY <3>1, PlanOrError DEF IsWhole
  <2> QED BY <2>1, <2>2, AnswerAtOnceKeepsAnswers
<1>5. CASE PlanByMockProvider(r, input)
  <2> DEFINE plan == buildPlanViaMockProvider(input.goal)
  <2>1. /\ Accepts(r) /\ Live(input) /\ input.fault = "none" /\ ~ TextGiven(input)
        /\ IF plan.ok THEN GoOn(r, "saving", input, plan) ELSE AnswerAtOnce(r, input, plan)
        /\ demand' = demand /\ final[computeKey(input)] = Absent
    BY <1>5 DEF PlanByMockProvider, Misses, AcceptsLive
  <2>2. PlanMade(input) = plan
    BY <2>1 DEF PlanMade
  <2>3. plan.ok => plan = Gives(plan.value) /\ plan.value \in Body
    BY <2>1, <2>2, MockProviderGives, PlanOrError, PlansHaveKeys
  <2>4. CASE plan.ok
    <3>1. MayBegin(r, "saving", input, plan)
      BY <2>1, <2>3, <2>4 DEF MayBegin
    <3>2. GoOn(r, "saving", input, plan)
      BY <2>1, <2>4
    <3> QED BY <2>1, <3>1, <3>2, GoOnKeepsAnswers
  <2> QED BY <2>1, <2>4, AnswerAtOnceKeepsAnswers
<1>6. CASE AskModel(r, input)
  <2>1. /\ Accepts(r) /\ Live(input) /\ input.fault = "none"
        /\ ~ TextGiven(input) /\ ModelGiven(input) /\ demand' = demand
        /\ final[computeKey(input)] = Absent
        /\ \/ GoOn(r, "asking", input, Fails("pending"))
           \/ AnswerAtOnce(r, input, Fails("llm_live_not_configured"))
    BY <1>6 DEF AskModel, Misses, AcceptsLive
  <2>2. MayBegin(r, "asking", input, Fails("pending"))
    BY <2>1 DEF MayBegin
  <2> QED BY <2>1, <2>2, GoOnKeepsAnswers, AnswerAtOnceKeepsAnswers, PlanOrError
<1> QED BY <1>1, <1>2, <1>3, <1>4, <1>5, <1>6 DEF Receive

(* Before the first request there is nothing to answer.                    *)
LEMMA InitQuestionInv == Init => QuestionInv
<1> SUFFICES ASSUME Init PROVE QuestionInv
  OBVIOUS
<1>1. \A r \in Request : /\ At(r, "waiting") /\ ~ Planning(r) /\ ~ Answered(r)
                         /\ ~ AsksWithoutText(r) /\ ~ HasPlan(r) /\ ~ Ran(r)
  BY DEF Init, At, Waiting, Planning, Answered, AsksWithoutText, HasPlan, Ran
<1>2. \A k \in Key : \A body \in Body : Whole(body) \notin {tmp[k], final[k]}
  BY ContentsDiffer DEF Init, CacheInit
<1>3. overlapped = {}
  BY DEF Init, CacheInit
<1> QED
  BY <1>1, <1>2, <1>3 DEF QuestionInv, MockPlansAreCached, OnePlans, EntryIsTheAnswer,
      EntryIsAwaited, AnsweredBefore, CacheAnswersTheQuestion

(* The entries, who plans for them, and what was answered, in every        *)
(* reachable state.                                                        *)
THEOREM QuestionInvariant == Spec => []QuestionInv
<1>1. AgentInv /\ QuestionInv /\ [Next]_vars => QuestionInv'
  <2> SUFFICES ASSUME AgentInv, QuestionInv, [Next]_vars PROVE QuestionInv'
    OBVIOUS
  <2>1. ASSUME NEW r \in Request, Saves(r) PROVE QuestionInv'
    BY <2>1, QuietSavesKeepQuestions, RenameKeepsQuestions DEF Saves
  <2>2. CASE UNCHANGED vars
    <3>1. UNCHANGED << req, contended, final, overlapped, cacheVars >>
      BY <2>2 DEF vars, cacheVars
    <3> QED BY <3>1, QuietStepKeepsQuestions DEF Quiet, QuestionInv
  <2> QED
    BY <2>1, <2>2, ReceiveKeepsQuestions, AnswersKeepQuestions, CrashKeepsQuestions DEF Next
<1> QED BY <1>1, InitQuestionInv, AgentInvariant, PTL DEF Spec

(* A plan from the cache is the plan of the question asked: the mock       *)
(* provider's own, or what an earlier request with that question got,      *)
(* unless two were asking at once.                                         *)
THEOREM CacheAlwaysAnswersTheQuestion == Spec => []CacheAnswersTheQuestion
<1>1. QuestionInv => CacheAnswersTheQuestion
  BY DEF QuestionInv
<1> QED BY <1>1, QuestionInvariant, PTL

-----------------------------------------------------------------------------
(* The story of a planner output.                                          *)

(* A sequence of one set is one of its elements.                           *)
LEMMA OfItsElements ==
    ASSUME NEW S, NEW s \in Seq(S)
    PROVE  s \in Seq(ToSet(s))
<1>1. /\ Len(s) \in Nat /\ DOMAIN s = 1..Len(s)
      /\ s = [i \in 1..Len(s) |-> s[i]]
  BY LenProperties
<1>2. \A i \in 1..Len(s) : s[i] \in ToSet(s)
  BY <1>1 DEF ToSet
<1>3. s \in [1..Len(s) -> ToSet(s)]
  BY <1>1, <1>2
<1> QED BY <1>1, <1>3, SeqDef

EventType == {"received", "verified", "created_plan", "rejected"}

(* What handing events over makes of the journal: they are appended, under *)
(* the one session, as events of r.                                        *)
LEMMA EmitAppends ==
    ASSUME handed \in Seq(ToSet(handed)), NEW r, NEW traceId, NEW sessionId,
           NEW events \in Seq(EventType), Emit(r, traceId, sessionId, events)
    PROVE  /\ handed' \in Seq(ToSet(handed'))
           /\ DOMAIN handed = 1..Len(handed) /\ Len(handed) \in Nat /\ Len(events) \in Nat
           /\ DOMAIN handed' = 1..(Len(handed) + Len(events))
           /\ Len(handed') = Len(handed) + Len(events)
           /\ \A i \in 1..Len(handed) : handed'[i] = handed[i]
           /\ \A i \in 1..Len(events) :
                 /\ handed'[Len(handed) + i].by = r
                 /\ handed'[Len(handed) + i].type = events[i]
                 /\ handed'[Len(handed) + i].sessionId = sessionId
<1> DEFINE more == [i \in DOMAIN events |-> JournalEvent(r, traceId, sessionId, events[i])]
           S == ToSet(handed) \cup {more[i] : i \in DOMAIN more}
<1>1. /\ Len(events) \in Nat /\ DOMAIN events = 1..Len(events)
      /\ Len(handed) \in Nat /\ DOMAIN handed = 1..Len(handed)
  BY LenProperties
<1>2. /\ DOMAIN more = 1..Len(events)
      /\ \A i \in 1..Len(events) :
            more[i].by = r /\ more[i].type = events[i] /\ more[i].sessionId = sessionId
  BY <1>1 DEF JournalEvent
<1>3. handed' = handed \o more
  BY DEF Emit
<1>4. more = [i \in 1..Len(events) |-> more[i]]
  BY <1>1
<1> HIDE DEF more
<1>5. more \in Seq(S)
  <2>1. more \in [1..Len(events) -> S]
    BY <1>2, <1>4
  <2> QED BY <1>1, <2>1, SeqDef
<1>6. Len(more) = Len(events)
  BY <1>1, <1>2, <1>5, LenProperties
<1>7. handed \in Seq(S)
  BY SeqMonotonic
<1> HIDE DEF S
<1>8. /\ handed' \in Seq(S) /\ Len(handed') = Len(handed) + Len(events)
      /\ \A i \in 1..(Len(handed) + Len(events)) :
            handed'[i] = IF i <= Len(handed) THEN handed[i] ELSE more[i - Len(handed)]
  <2> DEFINE both == handed \o more
  <2>1. /\ both \in Seq(S) /\ Len(both) = Len(handed) + Len(more)
        /\ \A i \in 1..(Len(handed) + Len(more)) :
              both[i] = IF i <= Len(handed) THEN handed[i] ELSE more[i - Len(handed)]
    BY ONLY <1>5, <1>7, ConcatProperties
  <2> HIDE DEF both
  <2>2. handed' = both
    BY <1>3 DEF both
  <2> QED BY <1>6, <2>1, <2>2
<1>9. handed' \in Seq(ToSet(handed')) /\ DOMAIN handed' = 1..(Len(handed) + Len(events))
  <2>1. \A T : \A s \in Seq(T) : s \in Seq(ToSet(s)) /\ DOMAIN s = 1..Len(s)
    BY OfItsElements, LenProperties
  <2>2. \A s \in Seq(S) : s \in Seq(ToSet(s)) /\ DOMAIN s = 1..Len(s)
    BY <2>1
  <2> QED BY <1>8, <2>2
<1>10. \A i \in 1..Len(handed) : handed'[i] = handed[i]
  BY <1>1, <1>8
<1>11. \A i \in 1..Len(events) : handed'[Len(handed) + i] = more[i]
  BY <1>1, <1>8
<1> QED BY <1>1, <1>2, <1>8, <1>9, <1>10, <1>11

(* The two stories, spelled out.                                           *)
LEMMA Stories ==
    /\ Story(<< "verified", "created_plan" >>) = << "received", "verified", "created_plan" >>
    /\ Story(<< "rejected" >>) = << "received", "rejected" >>
<1>1. << "received" >> \in Seq(EventType)
  BY DEF EventType
<1>2. ASSUME NEW t \in Seq(EventType), NEW u \in Seq(EventType),
             Len(u) = Len(t) + 1, u[1] = "received", \A i \in 1..Len(t) : u[i + 1] = t[i]
      PROVE  Story(t) = u
  <2>1. /\ << "received" >> \o t \in Seq(EventType)
        /\ Len(<< "received" >> \o t) = Len(t) + 1
        /\ \A i \in 1..(Len(t) + 1) :
              (<< "received" >> \o t)[i] = IF i <= 1 THEN "received" ELSE t[i - 1]
    BY <1>1, ConcatProperties
  <2>2. ASSUME NEW i \in 1..(Len(t) + 1)
        PROVE  (<< "received" >> \o t)[i] = u[i]
    <3>1. CASE i = 1
      BY <1>2, <2>1, <3>1
    <3>2. CASE i # 1
      <4>1. i - 1 \in 1..Len(t) /\ (i - 1) + 1 = i /\ ~ (i <= 1)
        BY <1>2, <2>2, <3>2, LenProperties
      <4>2. u[(i - 1) + 1] = t[i - 1]
        BY <1>2, <4>1
      <4> QED BY <2>1, <4>1, <4>2
    <3> QED BY <3>1, <3>2
  <2> QED BY <1>2, <2>1, <2>2, SeqEqual DEF Story
<1> DEFINE two == << "verified", "created_plan" >>
           three == << "received", "verified", "created_plan" >>
<1>3. two \in Seq(EventType) /\ three \in Seq(EventType) /\ Len(three) = Len(two) + 1
      /\ three[1] = "received" /\ \A i \in 1..Len(two) : three[i + 1] = two[i]
  BY DEF EventType
<1>4. Story(two) = three
  <2> HIDE DEF two, three
  <2> QED BY <1>2, <1>3
<1> DEFINE one == << "rejected" >>
           both == << "received", "rejected" >>
<1>5. one \in Seq(EventType) /\ both \in Seq(EventType) /\ Len(both) = Len(one) + 1
      /\ both[1] = "received" /\ \A i \in 1..Len(one) : both[i + 1] = one[i]
  BY DEF EventType
<1>6. Story(one) = both
  <2> HIDE DEF one, both
  <2> QED BY <1>2, <1>5
<1> QED BY <1>4, <1>6

OwesStory(r) ==
    /\ ~ At(r, "waiting") /\ req[r].input.fault = "none"
    /\ req[r].input.journal /\ PromptGiven(req[r].input)

HasStory(r) == \E n \in 0..Len(handed) : Tells(r, n, StoryOf(r))

(* A story that was told stays told while others hand events over, and as  *)
(* long as its plan stays one or none.                                     *)
LEMMA StoryStays ==
    ASSUME NEW q \in Request, HasStory(q), handed \in Seq(ToSet(handed)),
           req'[q].input = req[q].input, PlannedForStory(q)' <=> PlannedForStory(q),
           Len(handed) \in Nat, Len(handed') \in Nat, Len(handed) <= Len(handed'),
           DOMAIN handed = 1..Len(handed), DOMAIN handed' = 1..Len(handed'),
           \A i \in 1..Len(handed) : handed'[i] = handed[i],
           \A i \in (Len(handed) + 1)..Len(handed') : handed'[i].by # q
    PROVE  HasStory(q)'
<1>1. PICK n \in 0..Len(handed) : Tells(q, n, StoryOf(q))
  BY DEF HasStory
<1>0. PICK types : types = StoryOf(q)
  OBVIOUS
<1>2. StoryOf(q)' = types /\ Len(types) \in Nat /\ DOMAIN types = 1..Len(types)
  BY <1>0, Stories DEF StoryOf
<1>3. /\ {i \in DOMAIN handed : handed[i].by = q} = (n + 1)..(n + Len(types))
      /\ \A i \in DOMAIN types :
            /\ handed[n + i].type = types[i]
            /\ handed[n + i].sessionId = SessionOf(req[q].input)
  BY <1>0, <1>1 DEF Tells
<1>4. {i \in DOMAIN handed' : handed'[i].by = q} = {i \in DOMAIN handed : handed[i].by = q}
  OBVIOUS
<1>5. ASSUME NEW i \in DOMAIN types
      PROVE  /\ handed'[n + i].type = types[i]
             /\ handed'[n + i].sessionId = SessionOf(req'[q].input)
  <2>1. n + i \in (n + 1)..(n + Len(types))
    BY <1>2, <1>5
  <2>2. n + i \in 1..Len(handed)
    BY <1>3, <2>1
  <2> QED BY <1>3, <1>5, <2>2
<1>6. Tells(q, n, types)'
  BY <1>3, <1>4, <1>5, <1>2 DEF Tells
<1>7. n \in 0..Len(handed')
  OBVIOUS
<1> QED BY <1>2, <1>6, <1>7 DEF HasStory

(* A request that goes on keeps its input, and comes to a plan, to an      *)
(* overlap of its save, or to a crash where it was given an output.        *)
Later(q) ==
    \/ req'[q] = req[q]
    \/ /\ Planning(q) /\ req'[q].at # "waiting" /\ req'[q].input = req[q].input
       /\ PromptGiven(req[q].input) =>
              req'[q].at = "lost" \/ req'[q].planned.ok \/ req'[q].planned.error = "ENOENT"

(* Once events are handed over, later steps of the requests leave the      *)
(* stories.                                                                *)
LEMMA LaterKeepsStories ==
    ASSUME AgentInv, StoryInv, \A q \in Request : Later(q), UNCHANGED handed, SinkIsOwned',
           AgentInv'
    PROVE  StoryInv'
<1>1. \A q \in Request : At(q, "waiting")' => At(q, "waiting")
  BY DEF Later, At
<1>2. ASSUME NEW q \in Request, OwesStory(q)'
      PROVE  HasStory(q)'
  <2>1. OwesStory(q) /\ req'[q].input = req[q].input
    BY <1>2 DEF Later, OwesStory, At, Planning
  <2>2. HasStory(q)
    BY <2>1 DEF StoryInv, PlannerStoryKept, OwesStory, HasStory
  <2>3. PlannedForStory(q)' <=> PlannedForStory(q)
    <3>1. CASE req'[q] = req[q]
      BY <3>1 DEF PlannedForStory, At
    <3>2. CASE req'[q] # req[q]
      <4>1. Planning(q) /\ PromptGiven(req[q].input) /\ TextGiven(req[q].input)
        BY <2>1, <3>2 DEF Later, OwesStory, PromptGiven
      <4>2. At(q, "saving")
        BY <4>1 DEF AgentInv, RequestOK, Planning, At, Waiting
      <4>3. req[q].planned.ok
        BY <4>2, SaverHasPlan, PlanOrError
      <4> QED BY <3>2, <4>1, <4>3 DEF Later, PlannedForStory, At
    <3> QED BY <3>1, <3>2
  <2>4. Len(handed) \in Nat /\ DOMAIN handed = 1..Len(handed) /\ handed \in Seq(ToSet(handed))
    BY LenProperties DEF StoryInv
  <2> QED BY <2>1, <2>2, <2>3, <2>4, StoryStays
<1>3. PlannerStoryKept'
  BY <1>2 DEF PlannerStoryKept, OwesStory, HasStory, SinkIsOwned, AgentInv
<1> QED BY <1>1, <1>3 DEF StoryInv

(* A handler that ends takes its sink away, and leaves nobody's.           *)
LEMMA FinishKeepsStories ==
    ASSUME AgentInv, StoryInv, NEW r \in Request, Planning(r), NEW planned, Finish(r, planned),
           PromptGiven(req[r].input) => planned.ok \/ planned.error = "ENOENT",
           AgentInv'
    PROVE  StoryInv'
<1> DEFINE s == ServerOf[r]
<1>1. /\ req'[r].at = "answered" /\ req'[r].planned = planned /\ req'[r].input = req[r].input
      /\ \A q \in Request \ {r} : req'[q] = req[q]
      /\ UNCHANGED << handed, mixed >> /\ s \in Server
  BY FinishesAlone, ServerAssumption DEF Finish
<1>2. IF req[r].input.journal THEN sink' = [sink EXCEPT ![s] = req[r].previous] ELSE sink' = sink
  BY DEF Finish, Restore
<1>3. SinkIsOwned
  BY DEF StoryInv
<1> HIDE DEF s
<1>4. ASSUME NEW t \in Server, sink'[t] # Nobody, t \notin mixed'
      PROVE  Planning(sink[t])' /\ ServerOf[sink'[t]] = t /\ req'[sink'[t]].input.journal
             /\ sink'[t] = sink[t]
  <2>1. t # s \/ ~ req[r].input.journal
    BY <1>1, <1>2, <1>3, <1>4 DEF SinkIsOwned, AgentInv, s
  <2>2. sink'[t] = sink[t]
    BY <1>1, <1>2, <2>1 DEF AgentInv
  <2>3. Planning(sink[t]) /\ ServerOf[sink[t]] = t /\ req[sink[t]].input.journal
    BY <1>1, <1>3, <1>4, <2>2 DEF SinkIsOwned
  <2>4. sink[t] \in Request \ {r}
    BY <1>4, <2>1, <2>2, <2>3 DEF AgentInv, s
  <2>5. req'[sink[t]] = req[sink[t]]
    BY <1>1, <2>4
  <2> QED BY <2>2, <2>3, <2>5 DEF Planning
<1>5. ASSUME NEW q \in Request, Planning(q)', req'[q].input.journal, ServerOf[q] \notin mixed'
      PROVE  sink'[ServerOf[q]] = q /\ req'[q].previous = Nobody
  <2>1. q # r /\ req'[q] = req[q] /\ Planning(q)
    BY <1>1, <1>5 DEF Planning
  <2>2. sink[ServerOf[q]] = q /\ req[q].previous = Nobody
    BY <1>1, <1>3, <1>5, <2>1 DEF SinkIsOwned
  <2>3. ServerOf[q] = s => ~ req[r].input.journal
    BY <1>1, <1>3, <1>5, <2>1, <2>2 DEF SinkIsOwned, s
  <2> QED BY <1>1, <1>2, <2>1, <2>2, <2>3, ServerAssumption DEF AgentInv
<1>6. SinkIsOwned'
  BY <1>4, <1>5 DEF SinkIsOwned
<1>7. \A q \in Request : Later(q)
  BY <1>1 DEF Later
<1> QED BY <1>1, <1>6, <1>7, LaterKeepsStories

(* No step of a handler that goes on spoils a story.                       *)
LEMMA AnswersKeepStories ==
    ASSUME AgentInv, StoryInv, NEW r \in Request, Answers(r)
    PROVE  StoryInv'
<1>1. Resumes(r) /\ AgentInv'
  BY AnswersKeepInv DEF Answers, ModelAnswers, ModelFails
<1>2. /\ Planning(r) /\ ~ PromptGiven(req[r].input)
      /\ r \in DOMAIN req /\ DOMAIN req[r] = {"at", "input", "planned", "previous", "after"}
  BY <1>1 DEF Resumes, Planning, At, AgentInv, RequestOK, Waiting, PromptGiven
<1>3. ASSUME NEW planned, Finish(r, planned)
      PROVE  StoryInv'
  BY <1>1, <1>2, <1>3, FinishKeepsStories
<1>4. ASSUME NEW plan, req' = [req EXCEPT ![r].at = "saving", ![r].planned = plan],
             UNCHANGED sinkVars
      PROVE  StoryInv'
  <2>1. req'[r] = [req[r] EXCEPT !.at = "saving", !.planned = plan]
    BY <1>2, <1>4
  <2>2. /\ req'[r].at = "saving" /\ req'[r].input = req[r].input
        /\ req'[r].previous = req[r].previous
        /\ \A q \in Request \ {r} : req'[q] = req[q]
        /\ UNCHANGED << sink, mixed, handed >>
    BY <1>2, <1>4, <2>1 DEF AgentInv, sinkVars
  <2>3. \A q \in Request : /\ Later(q) /\ (Planning(q)' <=> Planning(q))
                           /\ req'[q].previous = req[q].previous /\ req'[q].input = req[q].input
    BY <1>2, <2>2 DEF Later, Planning
  <2>4. SinkIsOwned'
    BY <2>2, <2>3 DEF StoryInv, SinkIsOwned, AgentInv
  <2> QED BY <1>1, <2>2, <2>3, <2>4, LaterKeepsStories
<1> QED BY <1>3, <1>4 DEF Answers, ModelAnswers, ModelFails

(* Nor does one of a save.                                                 *)
LEMMA SavesKeepStories ==
    ASSUME AgentInv, StoryInv, NEW r \in Request, Saves(r)
    PROVE  StoryInv'
<1>1. /\ AgentInv' /\ At(r, "saving") /\ Planning(r) /\ req[r].planned.ok
      /\ Fails("ENOENT").error = "ENOENT"
  BY SavesKeepInv, SavesAreCacheSteps, SaverHasPlan, PlanOrError
<1>2. CASE SaveOpens(r) \/ SaveWrites(r)
  <2>1. UNCHANGED << req, sink, mixed, handed >>
    BY <1>2 DEF SaveOpens, SaveWrites, sinkVars
  <2>2. SinkIsOwned'
    BY <2>1 DEF StoryInv, SinkIsOwned, Planning
  <2> QED BY <1>1, <2>1, <2>2, LaterKeepsStories DEF Later
<1>3. CASE SaveRenames(r)
  BY <1>1, <1>3, FinishKeepsStories DEF SaveRenames
<1>4. CASE SaveRenameFails(r)
  BY <1>1, <1>4, FinishKeepsStories DEF SaveRenameFails
<1> QED BY <1>2, <1>3, <1>4 DEF Saves

(* Nor a crash, which takes the sink of its server.                        *)
LEMMA CrashKeepsStories ==
    ASSUME AgentInv, StoryInv, NEW s \in Server, Crash(s)
    PROVE  StoryInv'
<1>1. AgentInv'
  BY CrashKeepsInv
<1>2. \A q \in Request : /\ Later(q)
                         /\ Planning(q)' => req'[q] = req[q] /\ Planning(q) /\ ServerOf[q] # s
                         /\ ServerOf[q] # s => req'[q] = req[q]
  BY CrashMoves DEF Later, Planning
<1>3. /\ sink'[s] = Nobody /\ \A p \in Server \ {s} : sink'[p] = sink[p]
      /\ UNCHANGED << handed, mixed >>
  BY CrashMoves
<1>4. ASSUME NEW t \in Server, sink'[t] # Nobody, t \notin mixed'
      PROVE  Planning(sink[t])' /\ ServerOf[sink[t]] = t /\ req'[sink[t]].input.journal
             /\ sink'[t] = sink[t]
  <2>1. t # s /\ sink'[t] = sink[t] /\ t \notin mixed
    BY <1>3, <1>4
  <2>2. /\ Planning(sink[t]) /\ ServerOf[sink[t]] = t /\ req[sink[t]].input.journal
        /\ sink[t] \in Request
    BY <1>4, <2>1 DEF StoryInv, SinkIsOwned, AgentInv
  <2> QED BY <1>2, <2>1, <2>2 DEF Planning
<1>5. ASSUME NEW q \in Request, Planning(q)', req'[q].input.journal, ServerOf[q] \notin mixed'
      PROVE  sink'[ServerOf[q]] = q /\ req'[q].previous = Nobody
  BY <1>2, <1>3, <1>5, ServerAssumption DEF StoryInv, SinkIsOwned
<1>6. SinkIsOwned'
  BY <1>4, <1>5 DEF SinkIsOwned
<1> QED BY <1>1, <1>2, <1>3, <1>6, LaterKeepsStories

(* The events a planner output is reported by.                             *)
EventsOf(planned) ==
    IF planned.ok THEN << "received", "verified", "created_plan" >> ELSE << "received", "rejected" >>

(* The sinks of a handler that is through at once.                         *)
LEMMA AnswerAtOnceKeepsSinks ==
    ASSUME AgentInv, SinkIsOwned, NEW r \in Request, Accepts(r), NEW input, NEW planned,
           AnswerAtOnce(r, input, planned)
    PROVE  SinkIsOwned'
<1>1. /\ req'[r] = Arrived(r, "answered", input, planned)
      /\ \A q \in Request \ {r} : req'[q] = req[q]
      /\ UNCHANGED << sink, mixed >>
  BY BeginsAlone DEF AnswerAtOnce
<1>2. ~ Planning(r) /\ ~ Planning(r)' /\ \A q \in Request \ {r} : Planning(q)' <=> Planning(q)
  BY <1>1 DEF Arrived, Planning, Accepts, At
<1> QED BY <1>1, <1>2 DEF SinkIsOwned, AgentInv

(* A handler that goes on installs its sink; where it finds another's, the *)
(* two overlap.                                                            *)
LEMMA GoOnKeepsSinks ==
    ASSUME AgentInv, SinkIsOwned, NEW r \in Request, Accepts(r), NEW at \in {"asking", "saving"},
           NEW input, NEW planned, GoOn(r, at, input, planned)
    PROVE  SinkIsOwned'
<1> DEFINE s == ServerOf[r]
<1>1. /\ req'[r] = Arrived(r, at, input, planned)
      /\ \A q \in Request \ {r} : req'[q] = req[q]
      /\ s \in Server
  BY BeginsAlone, ServerAssumption DEF GoOn
<1>2. /\ ~ Planning(r) /\ Planning(r)' /\ req'[r].input = input /\ req'[r].previous = sink[s]
      /\ \A q \in Request \ {r} : Planning(q)' <=> Planning(q)
  BY <1>1 DEF Arrived, Planning, Accepts, At
<1>3. Nobody \notin Request
  BY RequestAssumption
<1>4. CASE ~ input.journal
  <2>1. UNCHANGED << sink, mixed >>
    BY <1>4 DEF GoOn
  <2> QED BY <1>1, <1>2, <1>4, <2>1 DEF SinkIsOwned, AgentInv
<1>5. CASE input.journal
  <2>1. /\ sink' = [sink EXCEPT ![s] = r]
        /\ mixed' = mixed \cup {t \in {s} : sink[s] # Nobody}
    BY <1>5 DEF GoOn, Install
  <2> HIDE DEF s
  <2>2. sink'[s] = r /\ \A t \in Server \ {s} : sink'[t] = sink[t]
    BY <1>1, <2>1 DEF AgentInv
  <2>3. \A t \in Server : t \notin mixed' => t \notin mixed /\ (t = s => sink[s] = Nobody)
    BY <2>1
  <2>4. ASSUME NEW t \in Server, sink'[t] # Nobody, t \notin mixed'
        PROVE  Planning(sink[t])' /\ ServerOf[sink'[t]] = t /\ req'[sink'[t]].input.journal
    <3>1. CASE t = s
      BY <1>2, <1>5, <2>2, <3>1 DEF s, Planning
    <3>2. CASE t # s
      <4>1. /\ sink[t] \in Request /\ Planning(sink[t]) /\ ServerOf[sink[t]] = t
            /\ req[sink[t]].input.journal /\ sink'[t] = sink[t]
        BY <2>2, <2>3, <2>4, <3>2 DEF SinkIsOwned, AgentInv
      <4>2. sink[t] \in Request \ {r}
        BY <1>2, <4>1
      <4>3. req'[sink[t]] = req[sink[t]]
        BY <1>1, <4>2
      <4> QED BY <4>1, <4>3 DEF Planning
    <3> QED BY <3>1, <3>2
  <2>5. ASSUME NEW q \in Request, Planning(q)', req'[q].input.journal, ServerOf[q] \notin mixed'
        PROVE  sink'[ServerOf[q]] = q /\ req'[q].previous = Nobody
    <3>1. CASE q = r
      BY <1>1, <1>2, <2>2, <2>3, <2>5, <3>1 DEF s
    <3>2. CASE q # r
      <4>1. /\ sink[ServerOf[q]] = q /\ req[q].previous = Nobody /\ req'[q] = req[q]
            /\ ServerOf[q] \in Server
        BY <1>1, <1>2, <2>3, <2>5, <3>2, ServerAssumption DEF SinkIsOwned
      <4>2. ServerOf[q] # s
        BY <1>3, <2>3, <2>5, <4>1
      <4> QED BY <2>2, <4>1, <4>2
    <3> QED BY <3>1, <3>2
  <2> QED BY <2>4, <2>5 DEF SinkIsOwned
<1> QED BY <1>4, <1>5

(* A request begins: where it was given a journal and a planner output, it *)
(* leaves the story of the output; others keep theirs.                     *)
LEMMA BeginKeepsStories ==
    ASSUME AgentInv, StoryInv, AgentInv', SinkIsOwned', NEW r \in Request, Accepts(r),
           NEW at \in {"answered", "asking", "saving"}, NEW input, NEW planned,
           Begin(r, at, input, planned), NEW events \in Seq(EventType), EmitBy(r, input, events),
           (input.fault = "none" /\ PromptGiven(input)) =>
               /\ events = EventsOf(planned)
               /\ planned.ok \/ planned.error # "ENOENT"
    PROVE  StoryInv'
<1>1. /\ req'[r] = Arrived(r, at, input, planned)
      /\ \A q \in Request \ {r} : req'[q] = req[q]
      /\ At(r, "waiting")
  BY BeginsAlone DEF Accepts
<1>2. /\ req'[r].at = at /\ req'[r].input = input /\ req'[r].planned = planned
      /\ at # "waiting" /\ at # "lost"
  BY <1>1 DEF Arrived
<1>3. /\ handed \in Seq(ToSet(handed)) /\ \A i \in DOMAIN handed : handed[i].by # r
      /\ DOMAIN handed = 1..Len(handed) /\ Len(handed) \in Nat
      /\ Len(events) \in Nat /\ DOMAIN events = 1..Len(events)
  BY <1>1, LenProperties DEF StoryInv
<1>4. \/ handed' = handed /\ (events = << >> \/ ~ input.journal)
      \/ \E sessionId :
            /\ Emit(r, input.traceId, sessionId, events)
            /\ input.journal => sessionId = SessionOf(input)
  BY DEF EmitBy
<1>5. /\ handed' \in Seq(ToSet(handed'))
      /\ DOMAIN handed' = 1..Len(handed') /\ Len(handed') \in Nat /\ Len(handed) <= Len(handed')
      /\ \A i \in 1..Len(handed) : handed'[i] = handed[i]
      /\ \A i \in (Len(handed) + 1)..Len(handed') : handed'[i].by = r
  <2>1. CASE handed' = handed
    BY <1>3, <2>1
  <2>2. ASSUME NEW sessionId, Emit(r, input.traceId, sessionId, events)
        PROVE  /\ handed' \in Seq(ToSet(handed'))
               /\ DOMAIN handed' = 1..Len(handed') /\ Len(handed') \in Nat
               /\ Len(handed) <= Len(handed')
               /\ \A i \in 1..Len(handed) : handed'[i] = handed[i]
               /\ \A i \in (Len(handed) + 1)..Len(handed') : handed'[i].by = r
    <3>1. /\ handed' \in Seq(ToSet(handed'))
          /\ DOMAIN handed' = 1..(Len(handed) + Len(events))
          /\ Len(handed') = Len(handed) + Len(events)
          /\ \A i \in 1..Len(handed) : handed'[i] = handed[i]
          /\ \A i \in 1..Len(events) : handed'[Len(handed) + i].by = r
      BY <1>3, <2>2, EmitAppends
    <3>2. ASSUME NEW i \in (Len(handed) + 1)..Len(handed') PROVE handed'[i].by = r
      <4>1. i - Len(handed) \in 1..Len(events) /\ Len(handed) + (i - Len(handed)) = i
        BY <1>3, <3>1, <3>2
      <4>2. handed'[Len(handed) + (i - Len(handed))].by = r
        BY <3>1, <4>1
      <4> QED BY <4>1, <4>2
    <3> QED BY <1>3, <3>1, <3>2
  <2> QED BY <1>4, <2>1, <2>2
<1>6. ASSUME NEW q \in Request, At(q, "waiting")'
      PROVE  \A i \in DOMAIN handed' : handed'[i].by # q
  <2>1. q # r /\ At(q, "waiting")
    BY <1>1, <1>2, <1>6 DEF At
  <2>2. \A i \in DOMAIN handed : handed[i].by # q
    BY <2>1 DEF StoryInv
  <2> QED BY <1>3, <1>5, <2>1, <2>2
<1>7. ASSUME NEW q \in Request \ {r}, OwesStory(q)'
      PROVE  HasStory(q)'
  <2>1. OwesStory(q) /\ (PlannedForStory(q)' <=> PlannedForStory(q)) /\ req'[q] = req[q]
    BY <1>1, <1>7 DEF OwesStory, PlannedForStory, At
  <2>2. HasStory(q)
    BY <2>1 DEF StoryInv, PlannerStoryKept, OwesStory, HasStory
  <2>3. \A i \in (Len(handed) + 1)..Len(handed') : handed'[i].by # q
    BY <1>5
  <2> QED BY <1>3, <1>5, <2>1, <2>2, <2>3, StoryStays
<1>8. ASSUME OwesStory(r)'
      PROVE  HasStory(r)'
  <2>1. /\ input.fault = "none" /\ PromptGiven(input) /\ input.journal
        /\ events = EventsOf(planned) /\ (planned.ok \/ planned.error # "ENOENT")
    BY <1>2, <1>8 DEF OwesStory
  <2>2. PlannedForStory(r)' <=> planned.ok
    BY <1>2, <2>1 DEF PlannedForStory, At
  <2>3. StoryOf(r)' = events
    BY <2>1, <2>2, Stories DEF StoryOf, EventsOf
  <2>4. events # << >>
    BY <2>1 DEF EventsOf
  <2>5. Emit(r, input.traceId, SessionOf(input), events)
    BY <1>4, <2>1, <2>4
  <2>6. /\ DOMAIN handed' = 1..(Len(handed) + Len(events))
        /\ \A i \in 1..Len(handed) : handed'[i] = handed[i]
        /\ \A i \in 1..Len(events) :
              /\ handed'[Len(handed) + i].by = r
              /\ handed'[Len(handed) + i].type = events[i]
              /\ handed'[Len(handed) + i].sessionId = SessionOf(input)
    BY <1>3, <2>5, EmitAppends
  <2>7. PICK n : n = Len(handed)
    OBVIOUS
  <2>8. {i \in DOMAIN handed' : handed'[i].by = r} = (n + 1)..(n + Len(events))
    <3>1. ASSUME NEW i \in 1..n PROVE handed'[i].by # r
      BY <1>3, <2>6, <2>7, <3>1
    <3>2. ASSUME NEW i \in (n + 1)..(n + Len(events)) PROVE handed'[i].by = r
      <4>1. i - n \in 1..Len(events) /\ n + (i - n) = i
        BY <1>3, <2>7, <3>2
      <4>2. handed'[n + (i - n)].by = r
        BY <2>6, <2>7, <4>1
      <4> QED BY <4>1, <4>2
    <3> QED BY <1>3, <2>6, <2>7, <3>1, <3>2
  <2>9. n \in 0..Len(handed')
    BY <1>3, <1>5, <2>7
  <2>10. Tells(r, n, events)'
    BY <1>2, <1>3, <2>6, <2>7, <2>8 DEF Tells
  <2> QED BY <2>3, <2>9, <2>10 DEF HasStory
<1>9. PlannerStoryKept'
  <2>1. \A q \in Request : OwesStory(q)' => HasStory(q)'
    BY <1>7, <1>8
  <2> QED BY <2>1 DEF PlannerStoryKept, OwesStory, HasStory, SinkIsOwned, AgentInv
<1> QED BY <1>5, <1>6, <1>9 DEF StoryInv

(* However a request arrives, the stories are kept.                        *)
LEMMA ReceiveKeepsStories ==
    ASSUME AgentInv, StoryInv, NEW r \in Request, NEW input \in Inputs[demand][r],
           Receive(r, input)
    PROVE  StoryInv'
<1>1. AgentInv' /\ SinkIsOwned
  BY ReceiveKeepsInv DEF StoryInv
<1>2. << >> \in Seq(EventType)
  OBVIOUS
<1>3. ASSUME NEW planned, Accepts(r), AnswerAtOnce(r, input, planned), UNCHANGED handed,
             ~ (input.fault = "none" /\ PromptGiven(input))
      PROVE  StoryInv'
  <2>1. Begin(r, "answered", input, planned) /\ SinkIsOwned' /\ EmitBy(r, input, << >>)
    BY <1>1, <1>3, AnswerAtOnceKeepsSinks DEF AnswerAtOnce, EmitBy
  <2> QED BY <1>1, <1>2, <1>3, <2>1, BeginKeepsStories
<1>4. ASSUME NEW at \in {"asking", "saving"}, NEW planned, Accepts(r),
             GoOn(r, at, input, planned), UNCHANGED handed,
             ~ (input.fault = "none" /\ PromptGiven(input))
      PROVE  StoryInv'
  <2>1. Begin(r, at, input, planned) /\ SinkIsOwned' /\ EmitBy(r, input, << >>)
    BY <1>1, <1>4, GoOnKeepsSinks DEF GoOn, EmitBy
  <2> QED BY <1>1, <1>2, <1>4, <2>1, BeginKeepsStories
<1>5. CASE Refuse(r, input)
  BY <1>3, <1>5 DEF Refuse
<1>6. CASE AnswerOutright(r, input)
  BY <1>3, <1>6 DEF AnswerOutright, PromptGiven
<1>7. CASE PlanFromText(r, input)
  <2> DEFINE made == materializePlanFromLlmPlanText(input.llmPlanTextFormat,
                         input.llmPlanText, input.llmPlannerAvailableTools, input.maxSteps,
                         input.llmVerifiedPlanId)
  <2>1. /\ Accepts(r) /\ EmitBy(r, input, made.events)
        /\ IF made.result.ok THEN GoOn(r, "saving", input, made.result)
                             ELSE AnswerAtOnce(r, input, made.result)
    BY <1>7 DEF PlanFromText, AcceptsLive
  <2>2. /\ made.result = Gives(made.result.value)
              \/ (~ made.result.ok /\ made.result.error # "ENOENT")
        /\ PromptGiven(input) => made.events = EventsOf(made.result)
        /\ \/ made.events = << >>
           \/ made.events = << "received", "verified", "created_plan" >>
           \/ made.events = << "received", "rejected" >>
    BY MaterializedGives DEF PromptGiven, EventsOf
  <2> HIDE DEF made
  <2>3. made.result.ok \/ made.result.error # "ENOENT"
    BY <2>2, PlanOrError
  <2>4. made.events \in Seq(EventType)
    <3>1. /\ << "received", "verified", "created_plan" >> \in Seq(EventType)
          /\ << "received", "rejected" >> \in Seq(EventType)
      BY DEF EventType
    <3> QED BY ONLY <1>2, <2>2, <3>1
  <2>5. \E at \in {"answered", "asking", "saving"} : Begin(r, at, input, made.result)
    BY <2>1 DEF GoOn, AnswerAtOnce
  <2>6. SinkIsOwned'
    BY <1>1, <2>1, GoOnKeepsSinks, AnswerAtOnceKeepsSinks
  <2> QED BY <1>1, <2>1, <2>2, <2>3, <2>4, <2>5, <2>6, BeginKeepsStories
<1>8. CASE PlanFromCache(r, input)
  BY <1>3, <1>8 DEF PlanFromCache, AcceptsLive, PromptGiven
<1>9. CASE PlanByMockProvider(r, input)
  BY <1>3, <1>4, <1>9 DEF PlanByMockProvider, Misses, AcceptsLive, PromptGiven
<1>10. CASE AskModel(r, input)
  BY <1>3, <1>4, <1>10 DEF AskModel, Misses, AcceptsLive, PromptGiven
<1> QED BY <1>5, <1>6, <1>7, <1>8, <1>9, <1>10 DEF Receive

(* Before the first request there is no story to tell.                     *)
LEMMA InitStoryInv == Init => StoryInv
<1> SUFFICES ASSUME Init PROVE StoryInv
  OBVIOUS
<1>1. /\ handed = << >> /\ \A s \in Server : sink[s] = Nobody
      /\ \A r \in Request : At(r, "waiting") /\ ~ Planning(r)
  BY DEF Init, SinkInit, At, Waiting, Planning
<1>2. handed \in Seq(ToSet(handed)) /\ DOMAIN handed = {}
  BY <1>1
<1> QED BY <1>1, <1>2 DEF StoryInv, SinkIsOwned, PlannerStoryKept

(* The sinks, the stories, and what they follow from.                      *)
THEOREM StoryInvariant == Spec => []StoryInv
<1>1. AgentInv /\ StoryInv /\ [Next]_vars => StoryInv'
  <2> SUFFICES ASSUME AgentInv, StoryInv, [Next]_vars PROVE StoryInv'
    OBVIOUS
  <2>1. CASE UNCHANGED vars
    <3>1. UNCHANGED << req, sink, mixed, handed >> /\ AgentInv'
      BY <2>1, NextKeepsInv DEF vars, sinkVars
    <3>2. SinkIsOwned'
      BY <3>1 DEF StoryInv, SinkIsOwned, Planning
    <3> QED BY <3>1, <3>2, LaterKeepsStories DEF Later
  <2> QED
    BY <2>1, ReceiveKeepsStories, AnswersKeepStories, SavesKeepStories, CrashKeepsStories
       DEF Next
<1> QED BY <1>1, InitStoryInv, AgentInvariant, PTL DEF Spec

(* A planner output leaves its story in one piece and under its own        *)
(* session, whatever other requests do meanwhile, and no sink outlives the *)
(* requests of its server unless two overlapped.                           *)
THEOREM PlannerStoryAlwaysKept == Spec => []PlannerStoryKept
<1>1. StoryInv => PlannerStoryKept
  BY DEF StoryInv
<1> QED BY <1>1, StoryInvariant, PTL

-----------------------------------------------------------------------------
(* Executions.                                                             *)

(* A set of numbers has a least element: where something fails for some    *)
(* step of a plan, there is a first step it fails for.                     *)
LEMMA LeastOf ==
    ASSUME NEW T, T \subseteq Nat, T # {}
    PROVE  \E x \in T : \A y \in T : x <= y
<1>1. PICK R : R = OpToRel(<, Nat)
  OBVIOUS
<1>2. \A x, y \in Nat : y < x => << y, x >> \in R
  BY <1>1 DEF OpToRel
<1>3. IsWellFoundedOn(R, Nat)
  BY <1>1, NatLessThanWellFounded
<1>4. PICK x \in T : \A y \in T : ~ (<< y, x >> \in R)
  BY <1>3, WFMin
<1>5. ASSUME NEW y \in T PROVE x <= y
  <2>1. x \in Nat /\ y \in Nat
    OBVIOUS
  <2>2. ~ (y < x)
    <3>1. y < x => << y, x >> \in R
      BY <1>2, <2>1
    <3> QED BY <1>4, <3>1
  <2> QED BY ONLY <2>1, <2>2, SMT
<1> QED BY <1>5

(* The run of executeSteps is defined up to every step, each from the one  *)
(* before it.                                                              *)
LEMMA RunExists ==
    ASSUME NEW steps, NEW n \in Nat
    PROVE  \E run : run = [i \in 0..n |-> IF i = 0 THEN Begun ELSE ExecuteStep(run[i - 1], steps[i])]
<1> DEFINE Is(run, k) == run = [i \in 0..k |-> IF i = 0 THEN Begun ELSE ExecuteStep(run[i - 1], steps[i])]
<1> DEFINE T == {k \in Nat : ~ \E run : Is(run, k)}
<1>1. SUFFICES ASSUME T # {} PROVE FALSE
  BY DEF T
<1>2. PICK k \in T : \A j \in T : k <= j
  BY <1>1, LeastOf
<1>3. k # 0
  <2>1. Is([i \in 0..0 |-> Begun], 0)
    OBVIOUS
  <2> QED BY <2>1
<1>4. PICK run : Is(run, k - 1)
  <2>1. k - 1 \in Nat /\ ~ (k <= k - 1)
    BY <1>3
  <2> QED BY <1>2, <2>1
<1> DEFINE longer == [i \in 0..k |-> IF i = 0 THEN Begun ELSE ExecuteStep(run[i - 1], steps[i])]
<1>5. Is(longer, k)
  <2>1. \A i \in 0..k : i # 0 => longer[i - 1] = run[i - 1]
    <3> SUFFICES ASSUME NEW i \in 0..k, i # 0 PROVE longer[i - 1] = run[i - 1]
      OBVIOUS
    <3>1. i - 1 \in 0..k /\ i - 1 \in 0..(k - 1)
      OBVIOUS
    <3> QED BY <1>4, <3>1
  <2> HIDE DEF longer
  <2>2. longer = [i \in 0..k |-> IF i = 0 THEN Begun ELSE ExecuteStep(run[i - 1], steps[i])]
    BY DEF longer
  <2> QED BY <2>1, <2>2
<1> QED BY <1>5

(* executeSteps is the end of such a run.                                  *)
LEMMA ExecutedSteps ==
    ASSUME NEW steps, Len(steps) \in Nat
    PROVE  \E run : /\ run = [i \in 0..Len(steps) |->
                                  IF i = 0 THEN Begun ELSE ExecuteStep(run[i - 1], steps[i])]
                    /\ executeSteps(steps) = run[Len(steps)]
<1> DEFINE run == CHOOSE f : f = [i \in 0..Len(steps) |->
                                      IF i = 0 THEN Begun ELSE ExecuteStep(f[i - 1], steps[i])]
<1>1. run = [i \in 0..Len(steps) |-> IF i = 0 THEN Begun ELSE ExecuteStep(run[i - 1], steps[i])]
  BY RunExists
<1>2. executeSteps(steps) = run[Len(steps)]
  BY DEF executeSteps
<1> HIDE DEF run
<1> QED BY <1>1, <1>2

(* The kinds of step executor.ts knows.                                    *)
StepKind == {"set", "increment", "append_log", "tool.call", "tool.loop"} \cup SandboxKind

(* What mapToolErrorCode makes of an error.                                *)
ExecutionError == {"TOOL_NOT_FOUND", "TOOL_INVALID_INPUT", "TOOL_EXECUTION_FAILED", "INVALID_REQUEST"}

(* The state of an agent has its three fields.                             *)
IsState(s) == s = [counters |-> s.counters, values |-> s.values, logs |-> s.logs]

(* A run is one of these, failed or not.                                   *)
IsRun(run) ==
    /\ run = [ok |-> run.ok, code |-> run.code, state |-> run.state, trace |-> run.trace]
    /\ run.ok \in BOOLEAN
    /\ ~ run.ok => run.code \in ExecutionError
    /\ IsState(run.state)

(* applyMockStep makes a state of a state, whatever the step.              *)
LEMMA MockStepKeepsState ==
    ASSUME NEW state, IsState(state), NEW step, step.kind \in StepKind,
           applyMockStep(state, step).ok
    PROVE  IsState(applyMockStep(state, step).value)
<1>1. ASSUME NEW s, IsState(s), NEW key, NEW v PROVE IsState(Stored(s, key, v))
  <2> DEFINE values == Put(s.values, key, v)
  <2>1. Stored(s, key, v) = [s EXCEPT !.values = values]
    BY DEF Stored
  <2> HIDE DEF values
  <2> QED BY <1>1, <2>1 DEF IsState
<1>2. ASSUME NEW s, IsState(s), NEW entry PROVE IsState(Logged(s, entry))
  <2> DEFINE logs == Append(s.logs, entry)
  <2>1. Logged(s, entry) = [s EXCEPT !.logs = logs]
    BY DEF Logged
  <2> HIDE DEF logs
  <2> QED BY <1>2, <2>1 DEF IsState
<1>3. CASE step.kind = "set"
  <2>1. applyMockStep(state, step) = Gives(Stored(state, step.key, step.value))
    BY <1>3 DEF applyMockStep
  <2> QED BY <1>1, <2>1 DEF Gives
<1>4. CASE step.kind = "increment"
  <2> DEFINE counters == Put(state.counters, step.key,
                 step.value + (IF step.key \in DOMAIN state.counters
                               THEN state.counters[step.key] ELSE 0))
  <2>1. applyMockStep(state, step).value = [state EXCEPT !.counters = counters]
    BY <1>4 DEF applyMockStep, Gives
  <2> HIDE DEF counters
  <2> QED BY <2>1 DEF IsState
<1>5. CASE step.kind \in {"append_log", "sandbox.open", "sandbox.click", "sandbox.type"}
  BY <1>2, <1>5 DEF applyMockStep, Gives
<1>6. CASE step.kind = "sandbox.extract"
  BY <1>1, <1>2, <1>6 DEF applyMockStep, Gives
<1>7. CASE step.kind \in {"tool.call", "tool.loop"}
  <2>1. applyMockStep(state, step) = applyTool(state, step)
    BY <1>7 DEF applyMockStep
  <2>2. PICK input : applyTool(state, step) = ToolResolved(state, step, input)
    BY DEF applyTool
  <2>3. PICK output : ToolResolved(state, step, input) = ToolRan(state, step, output)
    BY <2>1, <2>2 DEF ToolResolved
  <2>4. PICK v : applyMockStep(state, step).value = ToolStored(state, step, v)
    BY <2>1, <2>2, <2>3 DEF ToolRan, Gives
  <2>5. \E logs : ToolStored(state, step, v) = [Stored(state, step.outputKey, v) EXCEPT !.logs = logs]
    BY DEF ToolStored
  <2> QED BY <1>1, <2>4, <2>5 DEF IsState
<1> QED BY <1>3, <1>4, <1>5, <1>6, <1>7 DEF StepKind, SandboxKind

(* An execution ends in a state, or with one of the errors a tool can have. *)
LEMMA ExecutionKeepsRun ==
    ASSUME NEW steps, Len(steps) \in Nat, \A i \in 1..Len(steps) : steps[i].kind \in StepKind
    PROVE  IsRun(executeSteps(steps))
<1>1. PICK run : /\ run = [i \in 0..Len(steps) |->
                              IF i = 0 THEN Begun ELSE ExecuteStep(run[i - 1], steps[i])]
                 /\ executeSteps(steps) = run[Len(steps)]
  BY ExecutedSteps
<1> DEFINE T == {i \in 0..Len(steps) : ~ IsRun(run[i])}
<1>2. SUFFICES ASSUME T # {} PROVE FALSE
  <2>1. T = {}
    BY <1>2
  <2>2. Len(steps) \in 0..Len(steps) /\ Len(steps) \notin T
    BY <2>1
  <2>3. IsRun(run[Len(steps)])
    BY <2>2
  <2> QED BY <1>1, <2>3
<1>3. PICK k \in T : \A j \in T : k <= j
  <2>1. T \subseteq Nat
    OBVIOUS
  <2> HIDE DEF T
  <2> QED BY <1>2, <2>1, LeastOf
<1>4. run[0] = Begun /\ IsRun(Begun)
  BY <1>1 DEF Begun, IsRun, IsState, createInitialAgentState
<1>5. k \in 1..Len(steps) /\ k - 1 \in 0..Len(steps)
  BY <1>3, <1>4
<1>6. IsRun(run[k - 1])
  BY <1>3, <1>5
<1>7. run[k] = ExecuteStep(run[k - 1], steps[k])
  BY <1>1, <1>5
<1>8. ASSUME NEW r, IsRun(r), NEW step, step.kind \in StepKind PROVE IsRun(ExecuteStep(r, step))
  <2> DEFINE next == applyMockStep(r.state, step)
  <2>1. CASE ~ r.ok
    BY <1>8, <2>1 DEF ExecuteStep
  <2>2. CASE r.ok /\ next.ok
    <3>1. IsState(next.value)
      BY <1>8, <2>2, MockStepKeepsState DEF IsRun
    <3>2. ExecuteStep(r, step) = [ok |-> r.ok, code |-> r.code, state |-> next.value,
                                  trace |-> Append(r.trace, StepTrace(step, r.state, next.value))]
      <4> HIDE DEF next
      <4>1. ExecuteStep(r, step) = Advanced(r, step, next)
        BY <2>2 DEF ExecuteStep, next
      <4> QED BY <1>8, <2>2, <4>1 DEF Advanced, IsRun
    <3> HIDE DEF next
    <3> QED BY <1>8, <3>1, <3>2 DEF IsRun
  <2>3. CASE r.ok /\ ~ next.ok
    <3> HIDE DEF next
    <3>1. ExecuteStep(r, step) = Advanced(r, step, next)
      BY <2>3 DEF ExecuteStep, next
    <3>2. mapToolErrorCode(next.error) \in ExecutionError
      BY DEF mapToolErrorCode, ExecutionError
    <3>3. Advanced(r, step, next) = [ok |-> FALSE, code |-> mapToolErrorCode(next.error),
                                     state |-> r.state, trace |-> r.trace]
      BY <1>8, <2>3 DEF Advanced, IsRun
    <3> QED BY <1>8, <3>1, <3>2, <3>3 DEF IsRun
  <2> QED BY <2>1, <2>2, <2>3
<1> QED BY <1>3, <1>5, <1>6, <1>7, <1>8

-----------------------------------------------------------------------------
(* The sort of canonicalizePlan.                                           *)

(* Steps that canonicalizePlan sorts: their ids are at different places.   *)
IdsSort(steps) ==
    /\ isArray(steps)
    /\ \A i \in DOMAIN steps : steps[i].id \in Nat
    /\ ~ DuplicateIds(steps)

(* An array lists what it holds.                                           *)
LEMMA ArrayHasItems ==
    ASSUME NEW steps, isArray(steps)
    PROVE  /\ Len(steps) \in Nat
           /\ DOMAIN steps = 1..Len(steps)
           /\ steps = [i \in 1..Len(steps) |-> steps[i]]
           /\ ToSet(steps) = {steps[i] : i \in 1..Len(steps)}
           /\ steps \in Surjection(1..Len(steps), ToSet(steps))
<1>1. steps \in Seq(ToSet(steps))
  BY DEF isArray
<1>2. ToSet(steps) = {steps[i] : i \in DOMAIN steps}
  BY DEF ToSet
<1>3. Len(steps) \in Nat /\ DOMAIN steps = 1..Len(steps) /\ steps = [i \in 1..Len(steps) |-> steps[i]]
  BY <1>1
<1>4. steps \in [1..Len(steps) -> ToSet(steps)]
  BY <1>1
<1>5. steps \in Surjection(1..Len(steps), ToSet(steps))
  BY <1>2, <1>3, <1>4 DEF Surjection
<1> QED BY <1>2, <1>3, <1>5

(* The numbers up to n are n.                                              *)
LEMMA UpToIsFinite ==
    ASSUME NEW n \in Nat
    PROVE  IsFiniteSet(1..n) /\ Cardinality(1..n) = n
<1>1. 1 \in Int /\ n \in Int
  OBVIOUS
<1>2. IsFiniteSet(1..n) /\ Cardinality(1..n) = IF 1 > n THEN 0 ELSE n - 1 + 1
  BY ONLY <1>1, FS_Interval
<1> QED BY ONLY <1>2, n \in Nat

(* How many steps are sorted before one is a number.                       *)
LEMMA BeforeFinite ==
    ASSUME NEW steps, isArray(steps), NEW i \in DOMAIN steps
    PROVE  /\ IsFiniteSet({j \in DOMAIN steps : compareSteps(steps[j], steps[i])})
           /\ Before(steps, i) \in Nat
<1>1. Len(steps) \in Nat /\ DOMAIN steps = 1..Len(steps)
  BY ArrayHasItems
<1>2. IsFiniteSet(DOMAIN steps)
  BY <1>1, UpToIsFinite
<1>3. IsFiniteSet({j \in DOMAIN steps : compareSteps(steps[j], steps[i])})
  BY <1>2, FS_Subset
<1> QED BY <1>3, FS_CardinalityType DEF Before

(* A step is sorted before another exactly as their ids are ordered.       *)
LEMMA PlacesOrdered ==
    ASSUME NEW steps, IdsSort(steps), NEW i \in DOMAIN steps, NEW j \in DOMAIN steps,
           steps[i].id < steps[j].id
    PROVE  Before(steps, i) < Before(steps, j)
<1> DEFINE B(k) == {l \in DOMAIN steps : compareSteps(steps[l], steps[k])}
<1>1. IsFiniteSet(B(i)) /\ IsFiniteSet(B(j)) /\ Before(steps, i) \in Nat /\ Before(steps, j) \in Nat
  BY BeforeFinite DEF IdsSort
<1>2. B(i) \in SUBSET B(j)
  BY DEF IdsSort, compareSteps
<1>3. i \in B(j) /\ i \notin B(i)
  BY DEF IdsSort, compareSteps
<1>4. Before(steps, i) = Cardinality(B(i)) /\ Before(steps, j) = Cardinality(B(j))
  BY DEF Before
<1> HIDE DEF B
<1>5. Cardinality(B(i)) <= Cardinality(B(j)) /\ Cardinality(B(i)) # Cardinality(B(j))
  BY <1>1, <1>2, <1>3, FS_Subset
<1> QED BY <1>1, <1>4, <1>5

(* Every step has a place of its own, and every place a step.              *)
LEMMA PlacesAreOneEach ==
    ASSUME NEW steps, IdsSort(steps)
    PROVE  /\ \A i, j \in DOMAIN steps : Before(steps, i) = Before(steps, j) => i = j
           /\ \A i \in DOMAIN steps : Before(steps, i) \in Nat /\ Before(steps, i) + 1 \in DOMAIN steps
           /\ \A k \in DOMAIN steps : \E i \in DOMAIN steps : Before(steps, i) + 1 = k
<1>1. Len(steps) \in Nat /\ DOMAIN steps = 1..Len(steps)
  BY ArrayHasItems DEF IdsSort
<1>2. \A i \in DOMAIN steps : Before(steps, i) \in Nat
  BY BeforeFinite DEF IdsSort
<1>3. ASSUME NEW i \in DOMAIN steps, NEW j \in DOMAIN steps, Before(steps, i) = Before(steps, j)
      PROVE  i = j
  <2>1. ~ (steps[i].id < steps[j].id) /\ ~ (steps[j].id < steps[i].id)
    BY <1>2, <1>3, PlacesOrdered
  <2>2. steps[i].id = steps[j].id
    BY <2>1 DEF IdsSort
  <2> QED BY <2>2 DEF IdsSort, DuplicateIds
<1> DEFINE place == [i \in 1..Len(steps) |-> Before(steps, i) + 1]
<1>4. ASSUME NEW i \in 1..Len(steps) PROVE Before(steps, i) + 1 \in 1..Len(steps)
  <2> DEFINE B == {l \in DOMAIN steps : compareSteps(steps[l], steps[i])}
  <2>1. i \notin B
    <3>1. steps[i].id \in Nat
      BY <1>1 DEF IdsSort
    <3> QED BY ONLY <3>1 DEF compareSteps
  <2>2. B \in SUBSET ((1..Len(steps)) \ {i})
    BY <1>1, <2>1
  <2>3. IsFiniteSet(1..Len(steps)) /\ Cardinality(1..Len(steps)) = Len(steps)
    BY ONLY <1>1, UpToIsFinite
  <2>4. /\ IsFiniteSet((1..Len(steps)) \ {i})
        /\ Cardinality((1..Len(steps)) \ {i}) = Len(steps) - 1
    BY <2>3, FS_RemoveElement
  <2>5. Cardinality(B) <= Len(steps) - 1
    <3> DEFINE others == (1..Len(steps)) \ {i}
    <3> HIDE DEF B, others
    <3>1. Cardinality(B) <= Cardinality(others)
      BY <2>2, <2>4, FS_Subset DEF others
    <3> QED BY <2>4, <3>1 DEF others
  <2>6. Before(steps, i) = Cardinality(B)
    BY DEF Before
  <2> HIDE DEF B
  <2> QED BY <1>1, <1>2, <2>5, <2>6
<1>5. place \in [1..Len(steps) -> 1..Len(steps)]
  BY <1>4
<1>6. place \in Injection(1..Len(steps), 1..Len(steps))
  <2>1. \A i, j \in 1..Len(steps) : place[i] = place[j] => i = j
    BY <1>1, <1>2, <1>3
  <2> HIDE DEF place
  <2> QED BY <1>5, <2>1 DEF Injection, IsInjective
<1>7. place \in Surjection(1..Len(steps), 1..Len(steps))
  <2>1. IsFiniteSet(1..Len(steps))
    BY <1>1, UpToIsFinite
  <2> HIDE DEF place
  <2> QED BY <1>6, <2>1, FS_Injection
<1>8. \A k \in 1..Len(steps) : \E i \in 1..Len(steps) : Before(steps, i) + 1 = k
  BY <1>7 DEF Surjection
<1> QED BY <1>1, <1>2, <1>3, <1>4, <1>8

(* The sort puts every step at its place.                                  *)
LEMMA SortedPlaces ==
    ASSUME NEW steps, IdsSort(steps)
    PROVE  /\ DOMAIN Sorted(steps) = DOMAIN steps
           /\ \A i \in DOMAIN steps : /\ Before(steps, i) + 1 \in DOMAIN steps
                                      /\ Sorted(steps)[Before(steps, i) + 1] = steps[i]
           /\ \A k \in DOMAIN steps : \E i \in DOMAIN steps :
                  Before(steps, i) + 1 = k /\ Sorted(steps)[k] = steps[i]
<1> DEFINE place == [i \in DOMAIN steps |-> Before(steps, i) + 1]
<1>1. Sorted(steps) = [n \in DOMAIN steps |-> steps[CHOOSE i \in DOMAIN steps : place[i] = n]]
  BY DEF Sorted
<1>2. ASSUME NEW k \in DOMAIN steps
      PROVE  \E i \in DOMAIN steps : Before(steps, i) + 1 = k /\ Sorted(steps)[k] = steps[i]
  <2>1. \E i \in DOMAIN steps : place[i] = k
    BY PlacesAreOneEach
  <2> DEFINE i == CHOOSE i \in DOMAIN steps : place[i] = k
  <2>2. i \in DOMAIN steps /\ place[i] = k
    BY <2>1
  <2>3. Sorted(steps)[k] = steps[i]
    BY <1>1
  <2> HIDE DEF i
  <2> QED BY <2>2, <2>3
<1>3. ASSUME NEW i \in DOMAIN steps
      PROVE  /\ Before(steps, i) + 1 \in DOMAIN steps
             /\ Sorted(steps)[Before(steps, i) + 1] = steps[i]
  <2>1. Before(steps, i) + 1 \in DOMAIN steps
    BY PlacesAreOneEach
  <2>2. PICK j \in DOMAIN steps : /\ Before(steps, j) + 1 = Before(steps, i) + 1
                                  /\ Sorted(steps)[Before(steps, i) + 1] = steps[j]
    BY <1>2, <2>1
  <2>3. Before(steps, j) = Before(steps, i)
    <3>1. Before(steps, j) \in Nat /\ Before(steps, i) \in Nat
      BY PlacesAreOneEach
    <3> QED BY <2>2, <3>1
  <2>4. i = j
    BY <2>3, PlacesAreOneEach
  <2> QED BY <2>1, <2>2, <2>4
<1> QED BY <1>1, <1>2, <1>3

(* A place follows from what the array holds, not from how it is listed.   *)
LEMMA BeforeCountsItems ==
    ASSUME NEW steps, IdsSort(steps), NEW i \in DOMAIN steps
    PROVE  Before(steps, i) = Cardinality({x \in ToSet(steps) : compareSteps(x, steps[i])})
<1> DEFINE B == {j \in DOMAIN steps : compareSteps(steps[j], steps[i])}
<1> DEFINE C == {x \in ToSet(steps) : compareSteps(x, steps[i])}
<1> DEFINE f == [j \in B |-> steps[j]]
<1>1. IsFiniteSet(B)
  BY BeforeFinite DEF IdsSort
<1>2. DOMAIN steps = 1..Len(steps) /\ ToSet(steps) = {steps[j] : j \in 1..Len(steps)}
  BY ArrayHasItems DEF IdsSort
<1>3. f \in [B -> C]
  BY <1>2
<1>4. \A j, k \in B : f[j] = f[k] => j = k
  BY DEF IdsSort, DuplicateIds
<1>5. \A x \in C : \E j \in B : f[j] = x
  BY <1>2
<1>6. Before(steps, i) = Cardinality(B)
  BY DEF Before
<1>7. ExistsBijection(B, C)
  <2> HIDE DEF B, C, f
  <2>1. f \in Injection(B, C)
    BY <1>3, <1>4 DEF Injection, IsInjective
  <2>2. f \in Surjection(B, C)
    BY <1>3, <1>5 DEF Surjection
  <2> QED BY <2>1, <2>2 DEF ExistsBijection, Bijection
<1>8. Cardinality(C) = Cardinality(B)
  <2> HIDE DEF B, C
  <2> QED BY <1>1, <1>7, FS_Bijection
<1> QED BY <1>6, <1>8

(* Arrays that hold the same steps are sorted to the same plan.            *)
LEMMA SortedIsOfItems ==
    ASSUME NEW one, NEW two, IdsSort(one), IdsSort(two),
           Len(one) = Len(two), ToSet(one) = ToSet(two)
    PROVE  Sorted(one) = Sorted(two)
<1>1. DOMAIN one = 1..Len(one) /\ DOMAIN two = 1..Len(one) /\ ToSet(two) = {two[j] : j \in 1..Len(one)}
  BY ArrayHasItems DEF IdsSort
<1>2. ASSUME NEW k \in 1..Len(one) PROVE Sorted(one)[k] = Sorted(two)[k]
  <2>1. PICK i \in 1..Len(one) : Before(one, i) + 1 = k /\ Sorted(one)[k] = one[i]
    <3>1. \A n \in DOMAIN one : \E i \in DOMAIN one :
              Before(one, i) + 1 = n /\ Sorted(one)[n] = one[i]
      BY SortedPlaces
    <3>2. DOMAIN one = 1..Len(one)
      BY <1>1
    <3> QED BY ONLY <3>1, <3>2, k \in 1..Len(one), Zenon
  <2>2. one[i] \in ToSet(one)
    BY <1>1 DEF ToSet
  <2>3. PICK j \in 1..Len(one) : two[j] = one[i]
    BY <1>1, <2>2
  <2>4. Before(two, j) = Before(one, i)
    BY <1>1, <2>3, BeforeCountsItems
  <2>5. Sorted(two)[Before(two, j) + 1] = two[j]
    BY <1>1, SortedPlaces
  <2> QED BY <2>1, <2>3, <2>4, <2>5
<1>3. /\ Sorted(one) = [k \in 1..Len(one) |-> Sorted(one)[k]]
      /\ Sorted(two) = [k \in 1..Len(one) |-> Sorted(two)[k]]
  BY <1>1 DEF Sorted
<1> QED BY <1>2, <1>3

(* Arrays of one length that hold the same steps have an id twice both or  *)
(* neither.                                                                *)
LEMMA SameItemsSameDuplicates ==
    ASSUME NEW one, NEW two, isArray(one), isArray(two),
           Len(one) = Len(two), ToSet(one) = ToSet(two), ~ DuplicateIds(one)
    PROVE  ~ DuplicateIds(two)
<1>1. /\ Len(one) \in Nat /\ DOMAIN one = 1..Len(one) /\ DOMAIN two = 1..Len(one)
      /\ ToSet(one) = {one[j] : j \in 1..Len(one)}
      /\ one \in Surjection(1..Len(one), ToSet(one))
      /\ two \in Surjection(1..Len(one), ToSet(one))
  BY ArrayHasItems
<1>2. one \in Injection(1..Len(one), ToSet(one))
  BY <1>1 DEF Injection, Surjection, IsInjective, DuplicateIds
<1>3. IsFiniteSet(1..Len(one)) /\ Cardinality(ToSet(one)) = Cardinality(1..Len(one))
  <2>1. IsFiniteSet(1..Len(one))
    BY <1>1, UpToIsFinite
  <2>2. ExistsBijection(1..Len(one), ToSet(one))
    BY <1>1, <1>2 DEF ExistsBijection, Bijection
  <2> QED BY <2>1, <2>2, FS_Bijection
<1>4. two \in Injection(1..Len(one), ToSet(one))
  BY <1>1, <1>3, FS_SurjSameCardinalityImpliesInj
<1>5. ASSUME NEW i \in DOMAIN two, NEW j \in DOMAIN two, two[i].id = two[j].id PROVE i = j
  <2>1. two[i] \in ToSet(one) /\ two[j] \in ToSet(one)
    BY <1>1 DEF Surjection
  <2>2. PICK k \in DOMAIN one, l \in DOMAIN one : one[k] = two[i] /\ one[l] = two[j]
    BY <1>1, <2>1
  <2>3. two[i] = two[j]
    BY <1>5, <2>2 DEF DuplicateIds
  <2> QED BY <1>1, <1>4, <2>3 DEF Injection, IsInjective
<1> QED BY <1>5 DEF DuplicateIds

(* The steps with their ids normalized.                                    *)
Named(steps) == [i \in DOMAIN steps |-> normalizeStepRaw(steps[i])]

(* A function on the places of an array is one.                            *)
LEMMA ListIsArray ==
    ASSUME NEW n \in Nat, NEW list, list = [i \in 1..n |-> list[i]]
    PROVE  /\ isArray(list) /\ Len(list) = n
           /\ ToSet(list) = {list[i] : i \in 1..n}
<1>1. DOMAIN list = 1..n
  OBVIOUS
<1>2. ToSet(list) = {list[i] : i \in 1..n}
  BY <1>1 DEF ToSet
<1>3. list \in [1..n -> ToSet(list)]
  BY <1>2
<1>4. list \in Seq(ToSet(list)) /\ Len(list) = n
  BY <1>3
<1> QED BY <1>2, <1>4 DEF isArray

(* A string the canonical plan takes is one the policy takes, and no       *)
(* longer than it may be.                                                  *)
LEMMA StrictStrings ==
    ASSUME NEW s
    PROVE  normalizeStringStrict(s) <=> isNonEmptyString(s) /\ s # TooLong
BY Zenon DEF normalizeStringStrict, isNonEmptyString

(* Normalizing the ids of the steps of a plan leaves a list of as many.    *)
LEMMA NamedSteps ==
    ASSUME NEW plan, isArray(plan.steps)
    PROVE  /\ isArray(Named(plan.steps)) /\ Len(Named(plan.steps)) = Len(plan.steps)
           /\ ToSet(Named(plan.steps)) = StepsAsNamed(plan)
<1> DEFINE n == Len(plan.steps)
           named == Named(plan.steps)
<1>1. /\ n \in Nat /\ DOMAIN plan.steps = 1..n
      /\ ToSet(plan.steps) = {plan.steps[i] : i \in 1..n}
  BY ArrayHasItems
<1>2. named = [i \in 1..n |-> normalizeStepRaw(plan.steps[i])]
  BY <1>1 DEF Named
<1>3. /\ named = [i \in 1..n |-> named[i]]
      /\ \A i \in 1..n : named[i] = normalizeStepRaw(plan.steps[i])
  BY <1>2
<1> HIDE DEF named, n
<1>4. isArray(named) /\ Len(named) = n /\ ToSet(named) = {named[i] : i \in 1..n}
  BY <1>1, <1>3, ListIsArray
<1>5. StepsAsNamed(plan) = {normalizeStepRaw(step) : step \in ToSet(plan.steps)}
  BY DEF StepsAsNamed, normalizeStepRaw
<1>6. {named[i] : i \in 1..n} = {normalizeStepRaw(step) : step \in ToSet(plan.steps)}
  BY <1>1, <1>3
<1> QED BY <1>4, <1>5, <1>6 DEF named, n

(* The sort leaves a list that holds what the array holds.                 *)
LEMMA SortedHolds ==
    ASSUME NEW steps, IdsSort(steps)
    PROVE  /\ isArray(Sorted(steps)) /\ Len(Sorted(steps)) = Len(steps)
           /\ ToSet(Sorted(steps)) = ToSet(steps)
<1> DEFINE sorted == Sorted(steps)
<1>1. /\ Len(steps) \in Nat /\ DOMAIN steps = 1..Len(steps)
      /\ ToSet(steps) = {steps[i] : i \in 1..Len(steps)}
  BY ArrayHasItems DEF IdsSort
<1>2. sorted = [k \in 1..Len(steps) |-> sorted[k]]
  BY <1>1 DEF Sorted
<1> HIDE DEF sorted
<1>3. /\ \A i \in DOMAIN steps : /\ Before(steps, i) + 1 \in DOMAIN steps
                                  /\ sorted[Before(steps, i) + 1] = steps[i]
      /\ \A k \in DOMAIN steps : \E i \in DOMAIN steps : sorted[k] = steps[i]
  BY SortedPlaces DEF sorted
<1>4. /\ isArray(sorted) /\ Len(sorted) = Len(steps)
      /\ ToSet(sorted) = {sorted[k] : k \in 1..Len(steps)}
  BY <1>1, <1>2, ListIsArray
<1>5. {sorted[k] : k \in DOMAIN steps} = {steps[i] : i \in DOMAIN steps}
  <2>1. \A i \in DOMAIN steps : \E k \in DOMAIN steps : sorted[k] = steps[i]
    BY ONLY <1>3, Zenon
  <2>2. \A k \in DOMAIN steps : \E i \in DOMAIN steps : sorted[k] = steps[i]
    BY ONLY <1>3, Zenon
  <2> QED BY ONLY <2>1, <2>2
<1> QED BY <1>1, <1>4, <1>5 DEF sorted

(* A canonical plan is the sorted list of the plan's steps, whose kinds    *)
(* are known.                                                              *)
LEMMA CanonicalPlans ==
    ASSUME NEW plan, canonicalizePlan(plan).ok
    PROVE  /\ normalizeStringStrict(plan.planId) /\ plan.version = 1
           /\ isArray(plan.steps) /\ IdsSort(Named(plan.steps))
           /\ \A step \in StepsAsNamed(plan) : CanonicalStep(step)
           /\ canonicalizePlan(plan).value =
                [planId |-> plan.planId, version |-> 1, steps |-> Sorted(Named(plan.steps))]
<1> DEFINE named == Named(plan.steps)
<1>1. canonicalizePlan(plan) = CanonicalPlan(plan, named)
  BY DEF canonicalizePlan, Named
<1> HIDE DEF named
<1>2. /\ normalizeStringStrict(plan.planId) /\ plan.version = 1 /\ isArray(plan.steps)
      /\ \A i \in DOMAIN named : CanonicalStep(named[i])
      /\ ~ DuplicateIds(named)
      /\ canonicalizePlan(plan).value =
            [planId |-> plan.planId, version |-> 1, steps |-> Sorted(named)]
  BY <1>1, PlanOrError DEF CanonicalPlan
<1>3. isArray(named) /\ ToSet(named) = StepsAsNamed(plan)
  BY <1>2, NamedSteps DEF named
<1>4. \A step \in StepsAsNamed(plan) : CanonicalStep(step)
  BY <1>2, <1>3 DEF ToSet
<1>5. IdsSort(named)
  BY <1>2, <1>3 DEF IdsSort, CanonicalStep, IsId
<1> QED BY <1>2, <1>4, <1>5 DEF named

(* A canonical plan can be executed: it ends in a state, or with one of    *)
(* the errors a tool can have.                                             *)
LEMMA CanonicalRuns ==
    ASSUME NEW plan, canonicalizePlan(plan).ok
    PROVE  LET steps == canonicalizePlan(plan).value.steps
           IN  /\ Len(steps) \in Nat /\ Len(steps) = Len(plan.steps)
               /\ IsRun(executeSteps(steps))
<1> DEFINE named == Named(plan.steps)
           steps == canonicalizePlan(plan).value.steps
<1>1. /\ isArray(plan.steps) /\ IdsSort(named) /\ steps = Sorted(named)
      /\ \A step \in StepsAsNamed(plan) : CanonicalStep(step)
  <2>1. /\ isArray(plan.steps) /\ IdsSort(named)
        /\ \A step \in StepsAsNamed(plan) : CanonicalStep(step)
    BY CanonicalPlans
  <2>2. canonicalizePlan(plan).value =
          [planId |-> plan.planId, version |-> 1, steps |-> Sorted(named)]
    BY CanonicalPlans
  <2>3. steps = Sorted(named)
    BY ONLY <2>2
  <2> QED BY <2>1, <2>3
<1>2. Len(named) = Len(plan.steps) /\ ToSet(named) = StepsAsNamed(plan)
  BY <1>1, NamedSteps
<1> HIDE DEF named, steps
<1>3. isArray(steps) /\ Len(steps) = Len(plan.steps) /\ ToSet(steps) = StepsAsNamed(plan)
  BY <1>1, <1>2, SortedHolds
<1>4. Len(steps) \in Nat /\ DOMAIN steps = 1..Len(steps)
  BY <1>3, ArrayHasItems
<1>5. \A i \in 1..Len(steps) : CanonicalStep(steps[i])
  BY <1>1, <1>3, <1>4 DEF ToSet
<1>6. ASSUME NEW step, CanonicalStep(step) PROVE step.kind \in StepKind
  BY <1>6 DEF CanonicalStep, StepKind
<1>7. IsRun(executeSteps(steps))
  BY <1>4, <1>5, <1>6, ExecutionKeepsRun
<1> QED BY <1>3, <1>4, <1>7 DEF steps

-----------------------------------------------------------------------------
(* Recordings.                                                             *)

(* An execution that finished did so with the canonical plan, and any      *)
(* bound on the steps that has room for them gives the same result.        *)
LEMMA FinishedExecutions ==
    ASSUME NEW plan, NEW maxSteps, executeDeterministicPlan(plan, maxSteps).ok
    PROVE  LET canonical == canonicalizePlan(plan).value
               end == executeSteps(canonical.steps)
               result == AgentExecutionResult(canonical, end.state, end.trace)
           IN  /\ Len(canonical.steps) \in Nat /\ IsState(end.state)
               /\ executeDeterministicPlan(plan, maxSteps) = Success(result)
               /\ \A bound \in Nat : Len(canonical.steps) <= bound =>
                      executeDeterministicPlan(plan, bound) = Success(result)
<1> DEFINE planned == canonicalizePlan(plan)
           canonical == planned.value
           steps == canonical.steps
           end == executeSteps(steps)
           result == AgentExecutionResult(canonical, end.state, end.trace)
<1>1. \A v : ~ Failure(v).ok
  BY DEF Failure
<1>2. validatePlan(plan)
  BY <1>1 DEF executeDeterministicPlan
<1>3. \A bound : executeDeterministicPlan(plan, bound) = ExecuteCanonical(planned, bound)
  BY <1>2 DEF executeDeterministicPlan
<1>4. planned.ok
  <2> HIDE DEF planned
  <2> QED BY <1>1, <1>3 DEF ExecuteCanonical
<1>5. Len(steps) \in Nat /\ IsRun(end)
  BY <1>4, CanonicalRuns
<1> HIDE DEF end, steps, canonical
<1>6. /\ ~ (Len(steps) > maxSteps)
      /\ ExecuteCanonical(planned, maxSteps) = ResultOf(canonical, end)
  <2> HIDE DEF planned
  <2> QED BY <1>1, <1>3, <1>4 DEF ExecuteCanonical, canonical, steps, end
<1>7. end.ok /\ ResultOf(canonical, end) = Success(result)
  BY <1>1, <1>3, <1>6 DEF ResultOf
<1>8. ASSUME NEW bound \in Nat, Len(steps) <= bound
      PROVE  executeDeterministicPlan(plan, bound) = Success(result)
  <2>1. ~ (Len(steps) > bound)
    BY <1>5, <1>8
  <2>2. ExecuteCanonical(planned, bound) = ResultOf(canonical, end)
    <3> HIDE DEF planned
    <3> QED BY <1>4, <2>1 DEF ExecuteCanonical, canonical, steps, end
  <2> QED BY <1>3, <1>7, <2>2
<1>9. IsState(end.state)
  BY <1>5 DEF IsRun
<1>10. executeDeterministicPlan(plan, maxSteps) = Success(result)
  BY <1>3, <1>6, <1>7
<1> QED BY <1>5, <1>8, <1>9, <1>10 DEF canonical, steps, end

(* projectDomainResult adds at most the two keys to the values.            *)
LEMMA ProjectionAdds ==
    ASSUME NEW canonical, NEW state, IsState(state), NEW trace
    PROVE  LET result == AgentExecutionResult(canonical, state, trace)
               answer == projectDomainResult(result).finalState
           IN  /\ projectDomainResult(result) = [result EXCEPT !.finalState = answer]
               /\ DomainKeys(state.values) = << >> => answer = state
               /\ OnlyProjected(answer, state)
<1> DEFINE result == AgentExecutionResult(canonical, state, trace)
           answer == projectDomainResult(result).finalState
           sentence == Text(Head(DomainKeys(state.values)))
           values == Put(Put(state.values, "domainResult", sentence), "canonicalResponse", sentence)
<1>1. /\ result = [planHash |-> result.planHash, executionHash |-> result.executionHash,
                   finalTraceLinkHash |-> result.finalTraceLinkHash,
                   traceSchemaVersion |-> result.traceSchemaVersion,
                   stepsRequested |-> result.stepsRequested,
                   finalState |-> result.finalState, trace |-> result.trace]
      /\ result.finalState = state
  BY DEF AgentExecutionResult
<1> HIDE DEF result
<1>2. projectDomainResult(result) =
          IF DomainKeys(state.values) = << >> THEN result
          ELSE [result EXCEPT !.finalState.values = values]
  BY <1>1 DEF projectDomainResult
<1> HIDE DEF values
<1>3. CASE DomainKeys(state.values) = << >>
  <2>1. projectDomainResult(result) = result
    BY <1>2, <1>3
  <2>2. answer = state
    BY <1>1, <2>1
  <2> HIDE DEF answer
  <2> QED BY <1>1, <2>1, <2>2 DEF OnlyProjected, result, answer
<1>4. CASE DomainKeys(state.values) # << >>
  <2>1. projectDomainResult(result) = [result EXCEPT !.finalState.values = values]
    BY <1>2, <1>4
  <2>2. answer = [counters |-> state.counters, values |-> values, logs |-> state.logs]
    BY <1>1, <2>1 DEF IsState
  <2>3. projectDomainResult(result) = [result EXCEPT !.finalState = answer]
    BY <1>1, <2>1, <2>2 DEF IsState
  <2>4. /\ DOMAIN values = DOMAIN state.values \cup ProjectedKeys
        /\ \A key \in DOMAIN state.values \ ProjectedKeys : values[key] = state.values[key]
    BY DEF values, Put, ProjectedKeys
  <2> HIDE DEF answer
  <2>5. OnlyProjected(answer, state)
    <3>1. DOMAIN values \ ProjectedKeys = DOMAIN state.values \ ProjectedKeys
      BY <2>4
    <3>2. answer.counters = state.counters /\ answer.logs = state.logs /\ answer.values = values
      BY <2>2
    <3> QED BY <2>4, <3>1, <3>2 DEF OnlyProjected
  <2> QED BY <1>4, <2>3, <2>5 DEF answer, result
<1> QED BY <1>3, <1>4

(* Whatever the plan and the bound, the answer of a finished run is        *)
(* confirmed by running it again exactly when its state is the one that    *)
(* was hashed.                                                             *)
LEMMA RunsReplay ==
    ASSUME NEW plan, NEW maxSteps
    PROVE  ConfirmedByReplay(plan, runAgent(plan, maxSteps))
<1> DEFINE run == executeDeterministicPlan(plan, maxSteps)
           canonical == canonicalizePlan(plan).value
           end == executeSteps(canonical.steps)
           result == AgentExecutionResult(canonical, end.state, end.trace)
           recorded == projectDomainResult(result)
<1>1. SUFFICES ASSUME runAgent(plan, maxSteps).ok
               PROVE  ReplaysUnlessProjected(plan, runAgent(plan, maxSteps).result)
  BY DEF ConfirmedByReplay
<1>2. run.ok
  <2> HIDE DEF run
  <2>1. runAgent(plan, maxSteps) = Projected(run)
    BY DEF runAgent, run
  <2> QED BY <1>1, <2>1 DEF Projected
<1>3. /\ Len(canonical.steps) \in Nat /\ IsState(end.state) /\ run = Success(result)
      /\ \A bound \in Nat : Len(canonical.steps) <= bound =>
             executeDeterministicPlan(plan, bound) = Success(result)
  BY <1>2, FinishedExecutions
<1>4. /\ recorded = [result EXCEPT !.finalState = recorded.finalState]
      /\ DomainKeys(end.state.values) = << >> => recorded.finalState = end.state
      /\ OnlyProjected(recorded.finalState, end.state)
  BY <1>3, ProjectionAdds
<1>5. runAgent(plan, maxSteps).result = recorded
  <2> HIDE DEF run, result, recorded
  <2>1. runAgent(plan, maxSteps) = Projected(run)
    BY DEF runAgent, run
  <2>2. run = [ok |-> TRUE, code |-> "none", result |-> result]
    BY <1>3 DEF Success
  <2>3. Projected(run).result = projectDomainResult(result)
    BY <2>2 DEF Projected
  <2> QED BY <2>1, <2>3 DEF recorded
<1> DEFINE state == end.state
           length == Len(canonical.steps)
<1>6. /\ result = [planHash |-> canonical, executionHash |-> result.executionHash,
                   finalTraceLinkHash |-> result.finalTraceLinkHash,
                   traceSchemaVersion |-> result.traceSchemaVersion,
                   stepsRequested |-> length, finalState |-> state, trace |-> result.trace]
      /\ result.executionHash.state = state
  BY DEF AgentExecutionResult, computeExecutionHash
<1> HIDE DEF recorded, result, state, length
<1>7. /\ recorded.stepsRequested = length /\ recorded.executionHash = result.executionHash
      /\ recorded.planHash = result.planHash
      /\ recorded.finalTraceLinkHash = result.finalTraceLinkHash
      /\ recorded.traceSchemaVersion = result.traceSchemaVersion
      /\ recorded.trace = result.trace
  BY <1>4, <1>6
<1>8. executeDeterministicPlan(plan, length + 10) = Success(result)
  <2>1. length \in Nat /\ length + 10 \in Nat /\ length <= length + 10
    BY <1>3 DEF length
  <2> QED BY <1>3, <2>1 DEF length, result
<1>9. verifyExecutionReplay(plan, recorded) <=> recorded.finalState = state
  <2>1. verifyExecutionReplay(plan, recorded) <=> SameExecution(Success(result), recorded)
    BY <1>7, <1>8 DEF verifyExecutionReplay
  <2>2. Success(result).ok /\ Success(result).result = result
    BY DEF Success
  <2>3. result.finalState = state
    BY <1>6
  <2>4. SameExecution(Success(result), recorded) <=> result.finalState = recorded.finalState
    BY <1>7, <2>2 DEF SameExecution
  <2> QED BY <2>1, <2>3, <2>4
<1>10. ReplaysUnlessProjected(plan, recorded)
  BY <1>4, <1>6, <1>7, <1>9 DEF ReplaysUnlessProjected, state
<1> QED BY <1>5, <1>10

(* The recording an answer is replays, but for the domain result added     *)
(* after the hashes were made: whatever the plan, its inputs and the tools *)
(* it calls.                                                               *)
THEOREM RecordingsAlwaysReplay == Spec => []RecordingReplays
<1>1. RecordingReplays
  BY RunsReplay DEF RecordingReplays, RunOf
<1> QED BY <1>1, PTL

-----------------------------------------------------------------------------
(* The plans of requests that are not left to the model.                   *)

(* q is as it was, or it goes on with the plan it has, or loses it to an   *)
(* overlap.                                                                *)
KeepsPlan(q) ==
    \/ req'[q] = req[q]
    \/ /\ Planning(q) /\ req'[q].at # "waiting" /\ req'[q].input = req[q].input
       /\ NeedsNoModel(req[q].input) => req'[q].planned = req[q].planned \/ HitByOverlap(q)'

(* Steps of requests that keep their plans keep the plans that were made.  *)
LEMMA KeptPlansAreMade ==
    ASSUME PlansAreMade, \A q \in Request : KeepsPlan(q), overlapped \subseteq overlapped'
    PROVE  PlansAreMade'
<1> SUFFICES ASSUME NEW q \in Request, ~ At(q, "waiting")', req'[q].input.fault = "none",
                    NeedsNoModel(req'[q].input)
             PROVE  req'[q].planned = PlannedFor(req'[q].input) \/ HitByOverlap(q)'
  BY DEF PlansAreMade
<1>1. req'[q].input = req[q].input /\ ~ At(q, "waiting")
  BY DEF KeepsPlan, At, Planning
<1>2. req[q].planned = PlannedFor(req[q].input) \/ HitByOverlap(q)
  BY <1>1 DEF PlansAreMade
<1>3. req'[q].planned = req[q].planned \/ HitByOverlap(q)'
  BY <1>1 DEF KeepsPlan
<1>4. req'[q].planned = req[q].planned /\ HitByOverlap(q) => HitByOverlap(q)'
  BY <1>1 DEF HitByOverlap
<1> QED BY <1>1, <1>2, <1>3, <1>4

(* A request that is not left to the model begins with the plan made for   *)
(* it, or with the error an overlap left it.                               *)
LEMMA BeginKeepsPlansMade ==
    ASSUME AgentInv, PlansAreMade, NEW r \in Request, NEW at, NEW input, NEW planned,
           Begin(r, at, input, planned), UNCHANGED cacheVars,
           (input.fault = "none" /\ NeedsNoModel(input)) =>
               planned = PlannedFor(input) \/ HitByOverlap(r)'
    PROVE  PlansAreMade'
<1>1. /\ req'[r].input = input /\ req'[r].planned = planned
      /\ \A q \in Request \ {r} : req'[q] = req[q]
  <2>1. /\ req'[r] = Arrived(r, at, input, planned)
        /\ \A q \in Request \ {r} : req'[q] = req[q]
    BY BeginsAlone
  <2> QED BY ONLY <2>1 DEF Arrived
<1>2. ASSUME NEW q \in Request \ {r}, ~ At(q, "waiting")', req'[q].input.fault = "none",
             NeedsNoModel(req'[q].input)
      PROVE  req'[q].planned = PlannedFor(req'[q].input) \/ HitByOverlap(q)'
  <2>1. req'[q] = req[q] /\ ~ At(q, "waiting")
    BY <1>1, <1>2 DEF At
  <2>2. req[q].planned = PlannedFor(req[q].input) \/ HitByOverlap(q)
    BY <1>2, <2>1 DEF PlansAreMade
  <2>3. HitByOverlap(q) => HitByOverlap(q)'
    BY <2>1 DEF HitByOverlap, cacheVars
  <2> QED BY <2>1, <2>2, <2>3
<1> QED BY <1>1, <1>2 DEF PlansAreMade

(* The cache has the plan of the question, or a torn entry saves that      *)
(* overlapped left.                                                        *)
LEMMA CacheKeepsPlansMade ==
    ASSUME AgentInv, QuestionInv, PlansAreMade, NEW r \in Request,
           NEW input \in Inputs[demand][r], PlanFromCache(r, input)
    PROVE  PlansAreMade'
<1> DEFINE k == computeKey(input)
           entry == final[k]
           planned == IF IsWhole(entry) THEN Gives(entry.body) ELSE Fails("SyntaxError")
<1>1. /\ input.fault = "none" /\ Live(input) /\ ~ TextGiven(input) /\ entry # Absent
      /\ Begin(r, "answered", input, planned) /\ UNCHANGED cacheVars
  BY DEF PlanFromCache, AcceptsLive, AnswerAtOnce
<1>2. k \in Key
  BY <1>1, KeyAssumption DEF AgentInv
<1>3. ASSUME NeedsNoModel(input), IsWhole(entry)
      PROVE  planned = PlannedFor(input)
  <2>1. PICK body \in Body : entry = Whole(body)
    BY <1>3 DEF IsWhole
  <2>2. planned = Gives(body)
    BY <1>3, <2>1 DEF Whole
  <2>3. PlanOfMock(k, body)
    BY <1>2, <2>1 DEF QuestionInv, MockPlansAreCached
  <2>4. k[1] = input.llmProvider /\ k[2] = input.goal
    BY DEF computeKey
  <2>5. input.llmProvider # "openai-compatible"
    BY <1>1, <1>3 DEF NeedsNoModel, ModelGiven
  <2> HIDE DEF k, planned
  <2>6. planned = buildPlanViaMockProvider(input.goal)
    BY <2>2, <2>3, <2>4, <2>5 DEF PlanOfMock
  <2> QED BY <1>1, <2>6 DEF PlannedFor, PlanMade
<1>4. ASSUME ~ IsWhole(entry)
      PROVE  HitByOverlap(r)'
  <2>1. k \in overlapped
    BY <1>1, <1>2, <1>4 DEF AgentInv, CacheInv, EntryWholeUnlessOverlapped
  <2>2. req'[r].input = input /\ req'[r].planned = planned
    <3> HIDE DEF planned
    <3>1. req'[r] = Arrived(r, "answered", input, planned)
      BY <1>1, BeginsAlone
    <3> QED BY ONLY <3>1 DEF Arrived
  <2>3. planned = Fails("SyntaxError")
    BY <1>4
  <2>4. overlapped' = overlapped
    BY <1>1 DEF cacheVars
  <2> QED BY <1>1, <2>1, <2>2, <2>3, <2>4, PlanOrError DEF HitByOverlap
<1> HIDE DEF planned, entry, k
<1> QED BY <1>1, <1>3, <1>4, BeginKeepsPlansMade

(* However a request arrives.                                              *)
LEMMA ReceiveKeepsPlansMade ==
    ASSUME AgentInv, QuestionInv, PlansAreMade, NEW r \in Request,
           NEW input \in Inputs[demand][r], Receive(r, input)
    PROVE  PlansAreMade'
<1>1. CASE PlanFromText(r, input)
  <2> DEFINE made == materializePlanFromLlmPlanText(input.llmPlanTextFormat,
                         input.llmPlanText, input.llmPlannerAvailableTools, input.maxSteps,
                         input.llmVerifiedPlanId)
  <2>1. TextGiven(input) /\ (IF made.result.ok THEN GoOn(r, "saving", input, made.result)
                             ELSE AnswerAtOnce(r, input, made.result))
    BY <1>1 DEF PlanFromText
  <2>2. made.result = PlannedFor(input)
    BY <1>1 DEF PlanFromText, AcceptsLive, PlannedFor, PlanMade
  <2> HIDE DEF made
  <2>3. UNCHANGED cacheVars /\ \E at : Begin(r, at, input, made.result)
    BY <2>1 DEF GoOn, AnswerAtOnce
  <2> QED BY <2>1, <2>2, <2>3, BeginKeepsPlansMade
<1>2. CASE PlanFromCache(r, input)
  BY <1>2, CacheKeepsPlansMade
<1>3. CASE Refuse(r, input)
  <2>1. /\ input.fault # "none" /\ UNCHANGED cacheVars
        /\ Begin(r, "answered", input, Fails(input.fault))
    BY <1>3 DEF Refuse, AnswerAtOnce
  <2> QED BY <2>1, BeginKeepsPlansMade
<1>4. CASE AnswerOutright(r, input)
  <2>1. /\ ~ Live(input) /\ UNCHANGED cacheVars
        /\ Begin(r, "answered", input, selectPlanner(input))
    BY <1>4 DEF AnswerOutright, AnswerAtOnce
  <2>2. selectPlanner(input) = PlannedFor(input)
    BY <2>1 DEF PlannedFor
  <2> QED BY <2>1, <2>2, BeginKeepsPlansMade
<1>5. CASE PlanByMockProvider(r, input)
  <2> DEFINE plan == buildPlanViaMockProvider(input.goal)
  <2>1. /\ Live(input) /\ ~ TextGiven(input)
        /\ IF plan.ok THEN GoOn(r, "saving", input, plan) ELSE AnswerAtOnce(r, input, plan)
    BY <1>5 DEF PlanByMockProvider, Misses, AcceptsLive
  <2>2. plan = PlannedFor(input)
    BY <2>1 DEF PlannedFor, PlanMade
  <2> HIDE DEF plan
  <2>3. UNCHANGED cacheVars /\ \E at : Begin(r, at, input, plan)
    BY <2>1 DEF GoOn, AnswerAtOnce
  <2> QED BY <2>2, <2>3, BeginKeepsPlansMade
<1>6. CASE AskModel(r, input)
  <2>1. /\ ~ NeedsNoModel(input) /\ UNCHANGED cacheVars
        /\ \E at, planned : Begin(r, at, input, planned)
    BY <1>6 DEF AskModel, Misses, AcceptsLive, NeedsNoModel, GoOn, AnswerAtOnce
  <2> QED BY <2>1, BeginKeepsPlansMade
<1> QED BY <1>1, <1>2, <1>3, <1>4, <1>5, <1>6 DEF Receive

(* The cache never forgets an overlap, and a save that finds its temporary *)
(* file gone was overlapped.                                               *)
LEMMA OverlapsStay ==
    ASSUME CacheInv, [CacheNext]_cacheVars
    PROVE  /\ overlapped \subseteq overlapped'
           /\ \A p \in Process : CacheRenameFails(p) => writer[p].key \in overlapped
<1>1. overlapped \subseteq overlapped'
  BY DEF CacheNext, CacheOpen, CacheWrite, CacheRename, CacheRenameFails, CacheDie, cacheVars
<1>2. ASSUME NEW p \in Process, CacheRenameFails(p), writer[p].key \notin overlapped
      PROVE  FALSE
  <2>1. writer[p].at = "written" /\ tmp[writer[p].key] = Absent
    BY <1>2 DEF CacheRenameFails
  <2>2. writer[p].key \in Key \ overlapped /\ Busy(p, writer[p].key)
    BY <1>2, <2>1 DEF CacheInv, CacheTypeOK, Idle, Busy
  <2>3. tmp[writer[p].key] = Whole(writer[p].body)
    BY <2>1, <2>2 DEF CacheInv, SaveOwnsItsFile
  <2> QED BY <2>1, <2>3, ContentsDiffer
<1> QED BY <1>1, <1>2

(* A save leaves its request the plan it has, unless it was overlapped.    *)
LEMMA SavesKeepPlansMade ==
    ASSUME AgentInv, PlansAreMade, NEW r \in Request, Saves(r)
    PROVE  PlansAreMade'
<1> DEFINE s == ServerOf[r]
<1>1. /\ CacheNext /\ At(r, "saving") /\ Planning(r) /\ s \in Process /\ CacheInv
      /\ RequestOK(r) /\ req[r] # Waiting
  BY SavesAreCacheSteps, SaverHasPlan DEF AgentInv, At, Waiting
<1>2. Live(req[r].input)
  BY <1>1 DEF RequestOK
<1>3. overlapped \subseteq overlapped'
  BY <1>1, OverlapsStay
<1>4. CASE SaveOpens(r) \/ SaveWrites(r)
  <2>1. req' = req
    BY <1>4 DEF SaveOpens, SaveWrites
  <2> QED BY <1>3, <2>1, KeptPlansAreMade DEF KeepsPlan
<1>5. CASE SaveRenames(r)
  <2>1. \A q \in Request : KeepsPlan(q)
    BY <1>1, <1>5, FinishesAlone DEF SaveRenames, KeepsPlan
  <2> QED BY <1>3, <2>1, KeptPlansAreMade
<1>6. CASE SaveRenameFails(r)
  <2>1. Finish(r, Fails("ENOENT")) /\ CacheRenameFails(s)
    BY <1>6 DEF SaveRenameFails
  <2>2. writer[s] # Idle /\ writer[s].key \in overlapped
    <3>1. writer[s] # Idle
      BY <2>1 DEF CacheRenameFails, Idle
    <3>2. \A p \in Process : CacheRenameFails(p) => writer[p].key \in overlapped
      BY <1>1, OverlapsStay
    <3> QED BY <1>1, <2>1, <3>1, <3>2
  <2>3. computeKey(req[r].input) \in overlapped
    BY <1>1, <2>2, WriterIsSaver DEF SavesOf
  <2>4. /\ req'[r].at = "answered" /\ req'[r].planned = Fails("ENOENT")
        /\ req'[r].input = req[r].input
        /\ \A q \in Request \ {r} : req'[q] = req[q]
    BY <1>1, <2>1, FinishesAlone
  <2>5. HitByOverlap(r)'
    BY <1>2, <1>3, <2>3, <2>4, PlanOrError DEF HitByOverlap
  <2>6. \A q \in Request : KeepsPlan(q)
    BY <1>1, <2>4, <2>5 DEF KeepsPlan
  <2> QED BY <1>3, <2>6, KeptPlansAreMade
<1> QED BY <1>4, <1>5, <1>6 DEF Saves

(* Who asks the model is left to it, and a crash changes no plan.          *)
LEMMA AnswersAndCrashesKeepPlansMade ==
    ASSUME AgentInv, PlansAreMade,
           (\E r \in Request : Answers(r)) \/ (\E s \in Server : Crash(s))
    PROVE  PlansAreMade'
<1>1. ASSUME NEW r \in Request, Answers(r)
      PROVE  PlansAreMade'
  <2>1. Resumes(r) /\ UNCHANGED cacheVars
    BY <1>1 DEF Answers, ModelAnswers, ModelFails
  <2>2. /\ Planning(r) /\ ~ NeedsNoModel(req[r].input)
        /\ r \in DOMAIN req /\ DOMAIN req[r] = {"at", "input", "planned", "previous", "after"}
    BY <2>1 DEF Resumes, Planning, At, AgentInv, RequestOK, Waiting, NeedsNoModel
  <2>3. ASSUME NEW planned, Finish(r, planned)
        PROVE  \A q \in Request : KeepsPlan(q)
    BY <2>2, <2>3, FinishesAlone DEF KeepsPlan
  <2>4. ASSUME NEW plan, req' = [req EXCEPT ![r].at = "saving", ![r].planned = plan]
        PROVE  \A q \in Request : KeepsPlan(q)
    <3>1. req'[r] = [req[r] EXCEPT !.at = "saving", !.planned = plan]
      BY <2>2, <2>4
    <3>2. /\ req'[r].at = "saving" /\ req'[r].input = req[r].input
          /\ \A q \in Request \ {r} : req'[q] = req[q]
      BY <2>2, <2>4, <3>1 DEF AgentInv
    <3> QED BY <2>2, <3>2 DEF KeepsPlan
  <2>5. \A q \in Request : KeepsPlan(q)
    BY <1>1, <2>3, <2>4 DEF Answers, ModelAnswers, ModelFails
  <2> QED BY <2>1, <2>5, KeptPlansAreMade DEF cacheVars
<1>2. ASSUME NEW s \in Server, Crash(s)
      PROVE  PlansAreMade'
  <2>1. (\A q \in Request : KeepsPlan(q)) /\ overlapped' = overlapped
    BY <1>2, CrashMoves DEF KeepsPlan
  <2> QED BY <2>1, KeptPlansAreMade
<1> QED BY <1>1, <1>2

(* A request that is not left to the model is answered with the plan made  *)
(* for it, whatever the cache and other requests do, unless saves          *)
(* overlapped.                                                             *)
THEOREM PlansAreAlwaysMade == Spec => []PlansAreMade
<1>1. Init => PlansAreMade
  BY DEF Init, PlansAreMade, At, Waiting
<1>2. AgentInv /\ QuestionInv /\ PlansAreMade /\ [Next]_vars => PlansAreMade'
  <2>1. ASSUME PlansAreMade, UNCHANGED vars PROVE PlansAreMade'
    BY <2>1, KeptPlansAreMade DEF KeepsPlan, vars, cacheVars
  <2> QED
    BY <2>1, ReceiveKeepsPlansMade, SavesKeepPlansMade, AnswersAndCrashesKeepPlansMade
       DEF Next
<1> QED BY <1>1, <1>2, AgentInvariant, QuestionInvariant, PTL DEF Spec

(* canonicalizePlan forgets the order in which the steps are listed and    *)
(* the blanks around their ids, also when it refuses the plan.             *)
LEMMA CanonicalForgetsOrder ==
    ASSUME NEW one, NEW two, SamePlan(one, two)
    PROVE  canonicalizePlan(one) = canonicalizePlan(two)
<1> DEFINE a == Named(one.steps)
           b == Named(two.steps)
<1>1. /\ one.planId = two.planId /\ one.version = two.version
      /\ isArray(one.steps) /\ isArray(two.steps)
  BY DEF SamePlan
<1>2. isArray(a) /\ isArray(b) /\ Len(a) = Len(b) /\ ToSet(a) = ToSet(b)
  BY NamedSteps DEF SamePlan
<1>3. /\ canonicalizePlan(one) = CanonicalPlan(one, a)
      /\ canonicalizePlan(two) = CanonicalPlan(two, b)
  BY DEF canonicalizePlan, Named
<1> HIDE DEF a, b
<1>4. /\ (\A i \in DOMAIN a : CanonicalStep(a[i])) <=> \A step \in ToSet(a) : CanonicalStep(step)
      /\ (\A i \in DOMAIN b : CanonicalStep(b[i])) <=> \A step \in ToSet(b) : CanonicalStep(step)
  BY DEF ToSet
<1>5. CASE ~ \A step \in ToSet(a) : CanonicalStep(step)
  BY <1>2, <1>3, <1>4, <1>5 DEF CanonicalPlan
<1>6. CASE \A step \in ToSet(a) : CanonicalStep(step)
  <2>1. DuplicateIds(a) <=> DuplicateIds(b)
    BY <1>2, SameItemsSameDuplicates
  <2>2. CASE DuplicateIds(a)
    BY <1>3, <2>1, <2>2 DEF CanonicalPlan
  <2>3. CASE ~ DuplicateIds(a)
    <3>1. \A step \in ToSet(a) : step.id \in Nat
      BY <1>6 DEF CanonicalStep, IsId
    <3>2. IdsSort(a) /\ IdsSort(b)
      BY <1>2, <2>1, <2>3, <3>1 DEF IdsSort, ToSet
    <3>3. Sorted(a) = Sorted(b)
      BY <1>2, <3>2, SortedIsOfItems
    <3> QED BY <1>1, <1>2, <1>3, <1>4, <1>6, <2>1, <2>3, <3>3 DEF CanonicalPlan
  <2> QED BY <2>2, <2>3
<1> QED BY <1>5, <1>6

(* So does what a text that is a plan becomes.                             *)
LEMMA SameTextsSamePlan ==
    ASSUME NEW a, NEW b, SamePlanGiven(a, b)
    PROVE  PlanMade(a) = PlanMade(b)
<1>1. \A input : PlanGiven(input) =>
          PlanMade(input) = parseDeterministicPlanFromModelText(input.llmPlanText)
  BY DEF PlanGiven, PlanMade, materializePlanFromLlmPlanText, Materialized
<1>2. canonicalizePlan(a.llmPlanText.plan) = canonicalizePlan(b.llmPlanText.plan)
  BY CanonicalForgetsOrder DEF SamePlanGiven
<1> QED BY <1>1, <1>2 DEF SamePlanGiven, parseDeterministicPlanFromModelText

(* The order in which a model lists its steps, and blanks around their     *)
(* ids, make no difference to what becomes of the plan nor to the hashes   *)
(* of its run.                                                             *)
THEOREM ListingOrderIsAlwaysIrrelevant == Spec => []ListingOrderIsIrrelevant
<1>1. PlansAreMade => ListingOrderIsIrrelevant
  <2> SUFFICES ASSUME PlansAreMade, NEW q \in Request, NEW r \in Request, Ran(q), Ran(r),
                      SamePlanGiven(req[q].input, req[r].input),
                      ~ HitByOverlap(q), ~ HitByOverlap(r)
               PROVE  Outcome(q) = Outcome(r)
    BY DEF ListingOrderIsIrrelevant
  <2>1. \A p \in {q, r} : PlanGiven(req[p].input) /\ req[p].input.maxSteps = req[q].input.maxSteps
    BY DEF SamePlanGiven
  <2>2. \A p \in {q, r} : req[p].planned = PlanMade(req[p].input)
    BY <2>1 DEF PlansAreMade, Ran, Answered, At, PlanGiven, NeedsNoModel, PlannedFor
  <2>3. req[q].planned = req[r].planned
    BY <2>2, SameTextsSamePlan
  <2> QED BY <2>1, <2>3 DEF Outcome, RunOf
<1> QED BY <1>1, PlansAreAlwaysMade, PTL

-----------------------------------------------------------------------------
(* Verified planner outputs.                                               *)

(* A plan of tool calls whose ids have no blanks: what canonicalizePlan    *)
(* makes of it passes the policy and canonicalizePlan again.               *)
LEMMA CallPlansPass ==
    ASSUME NEW plan, canonicalizePlan(plan).ok, plan.steps # << >>,
           \A step \in ToSet(plan.steps) : step.kind = "tool.call" /\ normalizeStepRaw(step) = step
    PROVE  LET canonical == canonicalizePlan(plan).value
           IN  validatePlan(canonical) /\ canonicalizePlan(canonical).ok
<1> DEFINE canonical == canonicalizePlan(plan).value
           steps == Sorted(Named(plan.steps))
<1>1. /\ normalizeStringStrict(plan.planId)
      /\ isArray(plan.steps) /\ IdsSort(Named(plan.steps))
      /\ \A step \in StepsAsNamed(plan) : CanonicalStep(step)
  BY CanonicalPlans
<1>2. canonical = [planId |-> plan.planId, version |-> 1, steps |-> steps]
  BY CanonicalPlans
<1>3. /\ isArray(steps) /\ Len(steps) = Len(plan.steps)
      /\ ToSet(steps) = StepsAsNamed(plan) /\ ~ DuplicateIds(steps)
  <2>1. /\ isArray(Named(plan.steps)) /\ Len(Named(plan.steps)) = Len(plan.steps)
        /\ ToSet(Named(plan.steps)) = StepsAsNamed(plan)
    BY <1>1, NamedSteps
  <2>2. isArray(steps) /\ Len(steps) = Len(plan.steps) /\ ToSet(steps) = StepsAsNamed(plan)
    BY <1>1, <2>1, SortedHolds
  <2> HIDE DEF steps
  <2>3. ~ DuplicateIds(steps)
    BY <1>1, <2>1, <2>2, SameItemsSameDuplicates DEF IdsSort
  <2> QED BY <2>2, <2>3
<1> HIDE DEF canonical, steps
<1>4. canonical.version = 1 /\ canonical.steps = steps /\ canonical.planId = plan.planId
  BY <1>2
<1>5. StepsAsNamed(plan) = ToSet(plan.steps)
  <2>1. StepsAsNamed(plan) = {normalizeStepRaw(step) : step \in ToSet(plan.steps)}
    BY DEF StepsAsNamed, normalizeStepRaw
  <2> QED BY <2>1
<1>6. /\ Len(steps) \in Nat /\ DOMAIN steps = 1..Len(steps)
      /\ \A i \in DOMAIN steps : /\ steps[i].kind = "tool.call" /\ CanonicalStep(steps[i])
                                 /\ normalizeStepRaw(steps[i]) = steps[i]
  BY <1>1, <1>3, <1>5, ArrayHasItems DEF ToSet
<1>7. validatePlan(canonical)
  <2>1. steps # << >>
    <3>1. Len(plan.steps) # 0
      BY <1>1, ArrayHasItems
    <3> QED BY <1>3, <3>1
  <2>2. ASSUME NEW step, CanonicalStep(step), step.kind = "tool.call"
        PROVE  validateStep(step)
    <3>1. /\ IsId(step.id) /\ isNonEmptyString(step.toolId) /\ isNonEmptyString(step.outputKey)
          /\ \A argument \in DOMAIN step.input : CanonicalInput(step.input[argument])
      BY <2>2, StrictStrings DEF CanonicalStep, SandboxKind
    <3>2. \A v : CanonicalInput(v) => isJsonValue(v)
      BY Zenon DEF CanonicalInput, isJsonValue
    <3>3. validateToolStep(step)
      BY <2>2, <3>1, <3>2 DEF validateToolStep
    <3> QED BY <2>2, <3>1, <3>3 DEF validateStep, SandboxKind
  <2>3. \A i, j \in DOMAIN steps : steps[i].id = steps[j].id => i = j
    BY <1>3 DEF DuplicateIds
  <2>4. \A i \in DOMAIN steps : validateStep(steps[i])
    BY <1>6, <2>2
  <2>5. isNonEmptyString(canonical.planId)
    BY <1>1, <1>4, StrictStrings
  <2> QED BY <1>3, <1>4, <2>1, <2>3, <2>4, <2>5 DEF validatePlan
<1>8. canonicalizePlan(canonical).ok
  <2>1. Named(steps) = [i \in 1..Len(steps) |-> steps[i]]
    BY <1>6 DEF Named
  <2>2. Named(steps) = steps
    BY <1>3, <2>1, ArrayHasItems
  <2>3. canonicalizePlan(canonical) = CanonicalPlan(canonical, Named(canonical.steps))
    BY DEF canonicalizePlan, Named
  <2>4. canonicalizePlan(canonical) = CanonicalPlan(canonical, steps)
    BY <1>4, <2>2, <2>3
  <2>5. \A i \in DOMAIN steps : CanonicalStep(steps[i])
    BY <1>6
  <2>6. CanonicalPlan(canonical, steps) =
          Gives([planId |-> canonical.planId, version |-> 1, steps |-> Sorted(steps)])
    BY <1>1, <1>3, <1>4, <2>5 DEF CanonicalPlan
  <2> QED BY <2>4, <2>6, PlanOrError
<1> QED BY <1>7, <1>8 DEF canonical

(* What the bridge makes of a verified output's steps.                     *)
Calls(text) ==
    [i \in DOMAIN text.steps |-> ToolCall(text.steps[i].step, text.steps[i].tool,
                                          text.steps[i].parameters.fields,
                                          StepKeys[text.steps[i].step])]

CallsOf(text, planId) == [planId |-> planId, version |-> 1, steps |-> Calls(text)]

(* An output the verifier let through.                                     *)
Executable(text, maxSteps) ==
    /\ validatePlannerPromptOutput(text, AnyTool, DEFAULT_MAX_STEPS)
    /\ \E allowed : validatePlannerPromptOutput(text, allowed, maxSteps)
    /\ ~ text.requiresClarification

(* Its steps are numbered, and the bridge makes each a tool call whose id  *)
(* has no blanks.                                                          *)
LEMMA CallsAreNumbered ==
    ASSUME NEW text, NEW maxSteps, Executable(text, maxSteps)
    PROVE  LET n == Len(text.steps)
               calls == Calls(text)
           IN  /\ n \in 1..8 /\ n <= maxSteps /\ DOMAIN text.steps = 1..n
               /\ isArray(calls) /\ Len(calls) = n /\ DOMAIN calls = 1..n /\ calls # << >>
               /\ Named(calls) = calls /\ ~ DuplicateIds(calls)
               /\ \A step \in ToSet(calls) :
                     step.kind = "tool.call" /\ normalizeStepRaw(step) = step
<1> DEFINE n == Len(text.steps)
           calls == Calls(text)
<1>1. /\ isArray(text.steps) /\ text.steps # << >> /\ n <= DEFAULT_MAX_STEPS /\ n <= maxSteps
      /\ \A i \in DOMAIN text.steps : text.steps[i].step = i
  BY DEF Executable, validatePlannerPromptOutput, ValidPromptStep
<1>2. n \in Nat /\ DOMAIN text.steps = 1..n /\ n # 0
  BY <1>1, ArrayHasItems
<1> HIDE DEF n
<1>3. ASSUME NEW i \in 1..n
      PROVE  calls[i].kind = "tool.call" /\ calls[i].id = i /\ normalizeStepRaw(calls[i]) = calls[i]
  <2> DEFINE tool == text.steps[i].tool
             fields == text.steps[i].parameters.fields
             outputKey == StepKeys[i]
  <2>1. calls[i] = ToolCall(i, tool, fields, outputKey)
    BY <1>1, <1>2 DEF Calls
  <2> HIDE DEF calls, tool, fields, outputKey
  <2>2. calls[i] = [id |-> i, kind |-> "tool.call", toolId |-> tool, input |-> fields,
                    outputKey |-> outputKey, irregular |-> FALSE]
    BY <2>1 DEF ToolCall
  <2>3. normalizedId(i) = i
    <3>1. i \in Nat /\ i <= 8
      BY <1>1, <1>2 DEF DEFAULT_MAX_STEPS
    <3>2. ~ (i > Padded)
      BY <3>1 DEF Padded
    <3> QED BY <3>2 DEF normalizedId
  <2>4. ASSUME NEW step, step = [id |-> i, kind |-> "tool.call", toolId |-> tool, input |-> fields,
                                 outputKey |-> outputKey, irregular |-> FALSE]
        PROVE  step.kind = "tool.call" /\ [step EXCEPT !.id = i] = step /\ step.id = i
    <3>1. step.id = i /\ step.kind = "tool.call"
      BY <2>4
    <3>2. step = [field \in DOMAIN step |-> step[field]]
      BY <2>4
    <3> QED BY ONLY <3>1, <3>2
  <2>5. /\ calls[i].kind = "tool.call" /\ [calls[i] EXCEPT !.id = i] = calls[i]
        /\ calls[i].id = i
    BY <2>2, <2>4
  <2> QED BY <2>3, <2>5 DEF normalizeStepRaw
<1>4. DOMAIN calls = 1..n /\ calls = [i \in 1..n |-> calls[i]]
  BY <1>2 DEF Calls
<1> HIDE DEF calls
<1>5. isArray(calls) /\ Len(calls) = n /\ ToSet(calls) = {calls[i] : i \in 1..n}
  BY <1>2, <1>4, ListIsArray
<1>6. calls # << >>
  BY <1>2, <1>5
<1>7. \A step \in ToSet(calls) : step.kind = "tool.call" /\ normalizeStepRaw(step) = step
  BY <1>3, <1>5
<1>8. Named(calls) = calls
  <2>1. Named(calls) = [i \in 1..n |-> calls[i]]
    BY <1>3, <1>4 DEF Named
  <2> QED BY <1>4, <2>1
<1>9. ~ DuplicateIds(calls)
  BY <1>3, <1>4 DEF DuplicateIds
<1>10. n \in 1..8
  BY <1>1, <1>2 DEF DEFAULT_MAX_STEPS
<1> QED BY <1>1, <1>2, <1>4, <1>5, <1>6, <1>7, <1>8, <1>9, <1>10 DEF n, calls

(* A step's key has a name, and one a plan has room for.                   *)
LEMMA StepsHaveKeys ==
    ASSUME NEW n \in 1..8
    PROVE  normalizeStringStrict(StepKeys[n])
<1> DEFINE Keys == {"llm_step_1", "llm_step_2", "llm_step_3", "llm_step_4",
                    "llm_step_5", "llm_step_6", "llm_step_7", "llm_step_8"}
<1>1. StepKeys[n] \in Keys
  BY DEF StepKeys
<1>2. \A key \in Keys : normalizeStringStrict(key)
  BY Zenon DEF normalizeStringStrict, TooLong
<1> QED BY <1>1, <1>2

(* What a canonical plan holds of a verified output.                       *)
WithinTheBridge(text, planId) ==
    /\ normalizeStringStrict(planId)
    /\ \A i \in DOMAIN text.steps :
          /\ text.steps[i].tool # TooLong
          /\ \A argument \in DOMAIN text.steps[i].parameters.fields :
                CanonicalInput(text.steps[i].parameters.fields[argument])

(* The bridge's plan is canonical if it holds no more than that, and is    *)
(* refused otherwise.                                                      *)
LEMMA BridgeTakes ==
    ASSUME NEW text, NEW maxSteps, Executable(text, maxSteps), NEW planId
    PROVE  /\ WithinTheBridge(text, planId) => canonicalizePlan(CallsOf(text, planId)).ok
           /\ ~ WithinTheBridge(text, planId) =>
                 canonicalizePlan(CallsOf(text, planId)) = Fails("PLAN_CANONICALIZATION_FAILED")
<1> DEFINE n == Len(text.steps)
           calls == Calls(text)
           plan == CallsOf(text, planId)
<1>1. /\ n \in 1..8 /\ DOMAIN text.steps = 1..n
      /\ isArray(calls) /\ DOMAIN calls = 1..n /\ Named(calls) = calls /\ ~ DuplicateIds(calls)
  BY CallsAreNumbered
<1> HIDE DEF n
<1>2. ASSUME NEW i \in 1..n
      PROVE  CanonicalStep(calls[i]) <=>
                 /\ text.steps[i].tool # TooLong
                 /\ \A argument \in DOMAIN text.steps[i].parameters.fields :
                       CanonicalInput(text.steps[i].parameters.fields[argument])
  <2> DEFINE tool == text.steps[i].tool
             fields == text.steps[i].parameters.fields
             key == StepKeys[i]
             step == calls[i]
  <2>1. text.steps[i].step = i /\ isNonEmptyString(tool)
    <3>1. PICK allowed : validatePlannerPromptOutput(text, allowed, maxSteps)
      BY DEF Executable
    <3>2. ValidPromptStep(text.steps[i], i, allowed)
      BY <1>1, <3>1, Zenon DEF validatePlannerPromptOutput
    <3> QED BY <3>2 DEF ValidPromptStep
  <2>2. i \in 1..8
    BY <1>1
  <2>3. normalizeStringStrict(key)
    BY <2>2, StepsHaveKeys
  <2>4. step = ToolCall(i, tool, fields, key)
    BY <1>1, <2>1 DEF Calls
  <2> HIDE DEF tool, fields, key, step, calls
  <2>5. /\ step.kind = "tool.call" /\ step.id = i /\ step.toolId = tool /\ step.input = fields
        /\ step.outputKey = key /\ step.irregular = FALSE
    BY <2>4 DEF ToolCall
  <2>6. IsId(i)
    BY <2>2 DEF IsId, Blank
  <2>7. CanonicalStep(step) <=>
            /\ normalizeStringStrict(tool) /\ normalizeStringStrict(key)
            /\ \A argument \in DOMAIN fields : CanonicalInput(fields[argument])
    BY <2>5, <2>6 DEF CanonicalStep, SandboxKind
  <2>8. normalizeStringStrict(tool) <=> tool # TooLong
    BY <2>1, StrictStrings DEF tool
  <2> QED BY <2>3, <2>7, <2>8 DEF tool, fields, step
<1> HIDE DEF calls
<1>3. /\ plan.planId = planId /\ plan.version = 1 /\ plan.steps = calls
      /\ canonicalizePlan(plan) = CanonicalPlan(plan, Named(plan.steps))
  BY DEF CallsOf, canonicalizePlan, Named, calls
<1> HIDE DEF plan
<1>4. canonicalizePlan(plan) = CanonicalPlan(plan, calls)
  BY <1>1, <1>3
<1>5. CASE WithinTheBridge(text, planId)
  <2>1. \A i \in DOMAIN calls : CanonicalStep(calls[i])
    BY <1>1, <1>2, <1>5 DEF WithinTheBridge
  <2>2. CanonicalPlan(plan, calls) =
            Gives([planId |-> plan.planId, version |-> 1, steps |-> Sorted(calls)])
    BY <1>1, <1>3, <1>5, <2>1 DEF CanonicalPlan, WithinTheBridge
  <2>3. canonicalizePlan(plan).ok
    BY <1>4, <2>2, PlanOrError
  <2> QED BY <1>5, <2>3 DEF plan
<1>6. CASE ~ WithinTheBridge(text, planId)
  <2>1. \/ ~ normalizeStringStrict(plan.planId)
        \/ \E i \in DOMAIN calls : ~ CanonicalStep(calls[i])
    BY <1>1, <1>2, <1>3, <1>6 DEF WithinTheBridge
  <2>2. CanonicalPlan(plan, calls) = Fails("PLAN_CANONICALIZATION_FAILED")
    BY <2>1 DEF CanonicalPlan
  <2> QED BY <1>4, <1>6, <2>2 DEF plan
<1> QED BY <1>5, <1>6

(* The plan the bridge makes of a verified output has its steps, and       *)
(* passes.                                                                 *)
LEMMA BridgedPlansPass ==
    ASSUME NEW text, NEW maxSteps, Executable(text, maxSteps), NEW planId,
           canonicalizePlan(CallsOf(text, planId)).ok
    PROVE  LET plan == canonicalizePlan(CallsOf(text, planId)).value
           IN  /\ validatePlan(plan) /\ canonicalizePlan(plan).ok
               /\ Len(canonicalizePlan(plan).value.steps) <= maxSteps
<1> DEFINE n == Len(text.steps)
           calls == Calls(text)
           plan == CallsOf(text, planId)
           bridged == canonicalizePlan(plan)
<1>1. /\ n <= maxSteps /\ Len(calls) = n /\ calls # << >>
      /\ \A step \in ToSet(calls) : step.kind = "tool.call" /\ normalizeStepRaw(step) = step
  BY CallsAreNumbered
<1>2. plan.steps = calls
  BY DEF CallsOf
<1> HIDE DEF n, calls, plan
<1>3. validatePlan(bridged.value) /\ canonicalizePlan(bridged.value).ok
  BY <1>1, <1>2, CallPlansPass DEF plan
<1>4. bridged.ok
  BY DEF plan
<1> HIDE DEF bridged
<1>5. Len(bridged.value.steps) = n
  BY <1>1, <1>2, <1>4, CanonicalRuns DEF bridged
<1>6. Len(canonicalizePlan(bridged.value).value.steps) = n
  BY <1>3, <1>5, CanonicalRuns
<1> QED BY <1>1, <1>3, <1>6 DEF bridged, plan

PlanError == {"PLAN_VALIDATION_FAILED", "PLAN_CANONICALIZATION_FAILED", "PLAN_EXCEEDS_MAX_STEPS"}

(* A plan that passes runs to its end, or to an error of a tool.           *)
LEMMA PassedPlansRun ==
    ASSUME NEW plan, NEW maxSteps \in Nat, validatePlan(plan), canonicalizePlan(plan).ok,
           Len(canonicalizePlan(plan).value.steps) <= maxSteps
    PROVE  runAgent(plan, maxSteps).code \notin PlanError
<1> DEFINE planned == canonicalizePlan(plan)
           canonical == planned.value
           steps == canonical.steps
           end == executeSteps(steps)
           run == ResultOf(canonical, end)
<1>1. Len(steps) \in Nat /\ IsRun(end)
  BY CanonicalRuns
<1>2. executeDeterministicPlan(plan, maxSteps) = ExecuteCanonical(planned, maxSteps)
  BY DEF executeDeterministicPlan
<1>3. ~ (Len(steps) > maxSteps)
  BY <1>1
<1> HIDE DEF end, run
<1>4. ExecuteCanonical(planned, maxSteps) = run
  <2> HIDE DEF planned
  <2> QED BY <1>3 DEF ExecuteCanonical, run, end, planned
<1>5. runAgent(plan, maxSteps) = Projected(run)
  BY <1>2, <1>4 DEF runAgent
<1>6. CASE end.ok
  <2>1. PICK result : run = Success(result)
    BY <1>6 DEF run, ResultOf
  <2>2. Projected(run) = [[ok |-> TRUE, code |-> "none", result |-> result]
                             EXCEPT !.result = projectDomainResult(result)]
    BY <2>1 DEF Projected, Success
  <2>3. Projected(run).code = "none"
    BY <2>2
  <2> QED BY <1>5, <2>3 DEF PlanError
<1>7. CASE ~ end.ok
  <2>1. run = Failure(end.code) /\ end.code \in ExecutionError
    BY <1>1, <1>7 DEF run, ResultOf, IsRun
  <2>2. Projected(run).code = end.code
    BY <2>1 DEF Projected, Failure
  <2> QED BY <1>5, <2>1, <2>2 DEF PlanError, ExecutionError
<1> QED BY <1>6, <1>7

(* A verified output is executable, and there is a tool for it.            *)
LEMMA VerifiedIsExecutable ==
    ASSUME NEW text, NEW tools, NEW maxSteps,
           verifyLlmLivePlannerPromptText(text, tools, maxSteps).ok
    PROVE  /\ verifyLlmLivePlannerPromptText(text, tools, maxSteps) = Gives(text)
           /\ Executable(text, maxSteps) /\ text.steps # << >> /\ tools # << >>
<1> DEFINE verified == verifyLlmLivePlannerPromptText(text, tools, maxSteps)
           found == verifyDeterministicPlan(text, tools, maxSteps, TRUE)
           toolMap == buildToolMap(tools)
<1>1. verified = Gives(text) \/ \E e \in VerifierErrors : verified = Fails(e)
  BY VerifierGives
<1>2. verified = Gives(text)
  <2> HIDE DEF verified
  <2> QED BY <1>1, PlanOrError DEF verified
<1>3. validatePlannerPromptOutput(text, AnyTool, DEFAULT_MAX_STEPS) /\ found.ok
  BY PlanOrError DEF verifyLlmLivePlannerPromptText
<1>4. /\ validatePlannerPromptOutput(text, DOMAIN toolMap, maxSteps)
      /\ ~ text.requiresClarification
      /\ \A i \in DOMAIN text.steps : VerifiedStep(text.steps[i], toolMap)
  BY <1>3, PlanOrError DEF verifyDeterministicPlan
<1>5. Executable(text, maxSteps)
  BY <1>3, <1>4 DEF Executable
<1>6. text.steps # << >>
  BY <1>3, <1>4 DEF validatePlannerPromptOutput
<1>7. tools # << >>
  <2>1. 1 \in DOMAIN text.steps
    BY <1>5, CallsAreNumbered
  <2>2. text.steps[1].tool \in DOMAIN toolMap
    BY <1>4, <2>1 DEF VerifiedStep
  <2>3. PICK i \in DOMAIN tools : TRUE
    BY <2>2 DEF buildToolMap
  <2> QED BY <2>3
<1> QED BY <1>2, <1>5, <1>6, <1>7

(* What a live request makes of a verified output: its calls as a          *)
(* canonical plan, or the error of the bridge.                             *)
LEMMA PlanOfVerified ==
    ASSUME NEW input, PromptGiven(input), Verified(input)
    PROVE  /\ Executable(input.llmPlanText, input.maxSteps)
           /\ PlanMade(input) =
                 canonicalizePlan(CallsOf(input.llmPlanText, PlanIdOf(input.llmVerifiedPlanId)))
<1> DEFINE text == input.llmPlanText
           tools == input.llmPlannerAvailableTools
           maxSteps == input.maxSteps
           planId == PlanIdOf(input.llmVerifiedPlanId)
           verified == verifyLlmLivePlannerPromptText(text, tools, maxSteps)
           bridged == bridgeVerifiedLlmLivePlannerPromptTextToAgentPlan(text, tools, maxSteps, planId)
           canonical == canonicalizePlan(CallsOf(text, planId))
<1>1. verified = Gives(text) /\ Executable(text, maxSteps) /\ text.steps # << >> /\ tools # << >>
  BY VerifiedIsExecutable DEF Verified
<1>2. bridged = Bridged(Asserted(verified), planId)
  BY DEF bridgeVerifiedLlmLivePlannerPromptTextToAgentPlan, assertVerifiedLlmLivePlannerPromptText
<1>3. bridged = bridgeVerifiedPlannerOutputToAgentPlan(text, planId)
  <2> HIDE DEF verified, bridged, text, planId
  <2> QED BY <1>1, <1>2, PlanOrError DEF Bridged, Asserted
<1>4. bridged = canonical
  BY <1>1, <1>3 DEF bridgeVerifiedPlannerOutputToAgentPlan, CallsOf, Calls, Executable
<1>5. PlanMade(input) = MaterializedFrom(bridged).result
  BY <1>1 DEF PromptGiven, PlanMade, materializePlanFromLlmPlanText
<1>6. \/ canonical = Gives(canonical.value)
      \/ canonical = Fails("PLAN_CANONICALIZATION_FAILED")
  BY CanonicalGives
<1> HIDE DEF bridged, canonical, text, maxSteps, planId
<1>7. MaterializedFrom(bridged).result = canonical
  BY <1>4, <1>6, PlanOrError DEF MaterializedFrom, Materialized
<1> QED BY <1>1, <1>5, <1>7 DEF canonical, text, maxSteps, planId

(* The exceptions are those of the canonical plan.                         *)
LEMMA BeyondIsNotWithin ==
    ASSUME NEW input
    PROVE  BeyondTheBridge(input) <=>
               ~ WithinTheBridge(input.llmPlanText, PlanIdOf(input.llmVerifiedPlanId))
<1>1. normalizeStringStrict(PlanIdOf(input.llmVerifiedPlanId)) <=> input.llmVerifiedPlanId # TooLong
  <2>1. normalizeStringStrict("plan")
    BY DEF normalizeStringStrict, TooLong
  <2>2. CASE isNonEmptyString(input.llmVerifiedPlanId)
    BY <2>2, StrictStrings DEF PlanIdOf, isNonEmptyString
  <2>3. CASE ~ isNonEmptyString(input.llmVerifiedPlanId)
    <3>1. input.llmVerifiedPlanId # TooLong
      BY <2>3, Zenon DEF isNonEmptyString, TooLong
    <3>2. PlanIdOf(input.llmVerifiedPlanId) = "plan"
      BY <2>3, Zenon DEF PlanIdOf, isNonEmptyString
    <3> QED BY <2>1, <3>1, <3>2
  <2> QED BY <2>2, <2>3
<1>2. \A v : CanonicalInput(v) <=> v \notin {Undefined, Infinite, Ref("", << >>)}
  BY Zenon DEF CanonicalInput
<1> QED BY <1>1, <1>2, Zenon DEF BeyondTheBridge, WithinTheBridge

(* A planner output that passed the verifier becomes a plan the policy,    *)
(* canonicalizePlan and the bound on steps accept, unless it holds what    *)
(* the verifier does not look for, which the bridge throws on and is       *)
(* answered as an internal error.                                          *)
THEOREM VerifiedPlansAreAlwaysAccepted == Spec => []VerifiedPlansAreAccepted
<1>1. AgentInv /\ PlansAreMade => VerifiedPlansAreAccepted
  <2> SUFFICES ASSUME AgentInv, PlansAreMade, NEW r \in Request, Ran(r),
                      PromptGiven(req[r].input), Verified(req[r].input), ~ HitByOverlap(r)
               PROVE  IF BeyondTheBridge(req[r].input)
                      THEN ReplyTo(r) = Reply(500, FALSE, "INTERNAL_ERROR")
                      ELSE ReplyTo(r).status = 200 /\ ReplyTo(r).code \notin PlanError
    BY DEF VerifiedPlansAreAccepted, PlanError
  <2> DEFINE input == req[r].input
             planned == req[r].planned
             text == input.llmPlanText
             planId == PlanIdOf(input.llmVerifiedPlanId)
             canonical == canonicalizePlan(CallsOf(text, planId))
  <2>1. /\ input.fault = "none" /\ input.maxSteps \in Nat /\ At(r, "answered")
        /\ Live(input) /\ TextGiven(input)
    BY InputAssumption DEF AgentInv, RequestOK, Ran, Answered, At, Waiting, PromptGiven
  <2>2. planned = PlanMade(input)
    BY <2>1 DEF PlansAreMade, At, NeedsNoModel, PlannedFor
  <2>3. Executable(text, input.maxSteps) /\ planned = canonical
    BY <2>2, PlanOfVerified
  <2>4. BeyondTheBridge(input) <=> ~ WithinTheBridge(text, planId)
    BY BeyondIsNotWithin
  <2>5. ReplyTo(r) = sendJson(input, planned)
    BY DEF ReplyTo
  <2> HIDE DEF input, planned, text, planId
  <2>6. CASE BeyondTheBridge(input)
    <3>1. planned = Fails("PLAN_CANONICALIZATION_FAILED")
      BY <2>3, <2>4, <2>6, BridgeTakes
    <3>2. ~ planned.ok /\ LlmLiveCode(input, planned.error) = "none"
      BY <3>1, PlanOrError DEF LlmLiveCode
    <3>3. ReplyTo(r) = Reply(500, FALSE, "INTERNAL_ERROR")
      BY <2>1, <2>5, <3>2 DEF sendJson
    <3> QED BY <2>6, <3>3 DEF input
  <2>7. CASE ~ BeyondTheBridge(input)
    <3>1. canonical.ok
      BY <2>3, <2>4, <2>7, BridgeTakes
    <3>2. /\ validatePlan(canonical.value) /\ canonicalizePlan(canonical.value).ok
          /\ Len(canonicalizePlan(canonical.value).value.steps) <= input.maxSteps
      BY <2>3, <3>1, BridgedPlansPass
    <3> HIDE DEF canonical
    <3>3. runAgent(planned.value, input.maxSteps).code \notin PlanError
      BY <2>1, <2>3, <3>2, PassedPlansRun
    <3>4. planned.ok
      BY <2>3, <3>1
    <3>5. /\ ReplyTo(r).status = 200
          /\ ReplyTo(r).code = runAgent(planned.value, input.maxSteps).code
      BY <2>1, <2>5, <3>4 DEF sendJson, ReplyOfRun, Reply
    <3> QED BY <2>7, <3>3, <3>5 DEF input
  <2> QED BY <2>6, <2>7
<1> QED BY <1>1, AgentInvariant, PlansAreAlwaysMade, PTL

-----------------------------------------------------------------------------
(* Plans made from goals.                                                  *)

(* A state has the value V gives to a key.                                 *)
Has(state, k, V) == k \in DOMAIN state.values /\ state.values[k] = V[k]

(* What may go wrong with a step is a set E: errors it may fail with, and  *)
(* TooLong where it may hold more than a canonical plan does.              *)

(* With the keys K, a step goes through and leaves what was there and what *)
(* it produces, or it fails with one of the errors E.                      *)
RunsWith(step, V, K, E) ==
    \A state : (IsState(state) /\ \A k \in K : Has(state, k, V)) =>
        LET next == applyMockStep(state, step)
        IN  \/ /\ next.ok
               /\ \A k \in DOMAIN V : Has(state, k, V) \/ Produces(step, k) => Has(next.value, k, V)
            \/ ~ next.ok /\ next.error \in E \ {TooLong}

(* The keys of V the steps before the n-th produce.                        *)
Earlier(steps, n, V) == {k \in DOMAIN V : \E j \in 1..(n - 1) : Produces(steps[j], k)}

(* Steps each of which runs with what is produced before it run to their   *)
(* end, or to one of the errors.                                           *)
LEMMA StepsRun ==
    ASSUME NEW steps, Len(steps) \in Nat, NEW V, NEW E,
           \A n \in 1..Len(steps) : /\ steps[n].kind \in StepKind
                                    /\ RunsWith(steps[n], V, Earlier(steps, n, V), E)
    PROVE  \/ executeSteps(steps).ok
           \/ \E e \in E \ {TooLong} : executeSteps(steps).code = mapToolErrorCode(e)
<1>1. PICK run : /\ run = [i \in 0..Len(steps) |->
                              IF i = 0 THEN Begun ELSE ExecuteStep(run[i - 1], steps[i])]
                 /\ executeSteps(steps) = run[Len(steps)]
  BY ExecutedSteps
<1> DEFINE SoFar(r, n) ==
               /\ IsRun(r)
               /\ \/ r.ok /\ \A k \in Earlier(steps, n, V) : Has(r.state, k, V)
                  \/ ~ r.ok /\ \E e \in E \ {TooLong} : r.code = mapToolErrorCode(e)
<1> DEFINE T == {i \in 0..Len(steps) : ~ SoFar(run[i], i + 1)}
<1>2. SUFFICES ASSUME T # {} PROVE FALSE
  <2>1. T = {}
    BY <1>2
  <2>2. Len(steps) \in 0..Len(steps) /\ Len(steps) \notin T
    BY <2>1
  <2>3. SoFar(run[Len(steps)], Len(steps) + 1)
    BY <2>2
  <2> QED BY <1>1, <2>3
<1>3. PICK n \in T : \A j \in T : n <= j
  <2>1. T \subseteq Nat
    OBVIOUS
  <2> HIDE DEF T
  <2> QED BY <1>2, <2>1, LeastOf
<1>4. SoFar(run[0], 0 + 1)
  <2>1. run[0] = Begun /\ IsRun(Begun) /\ Begun.ok
    BY <1>1 DEF Begun, IsRun, IsState, createInitialAgentState
  <2>2. Earlier(steps, 0 + 1, V) = {}
    BY DEF Earlier
  <2> QED BY <2>1, <2>2
<1> HIDE DEF SoFar
<1>5. n \in 1..Len(steps) /\ n - 1 \in 0..Len(steps)
  BY <1>3, <1>4
<1>6. SoFar(run[n - 1], n)
  <2>1. n - 1 \notin T
    BY <1>3, <1>5
  <2>2. (n - 1) + 1 = n
    BY <1>5
  <2> QED BY <1>5, <2>1, <2>2
<1>7. run[n] = ExecuteStep(run[n - 1], steps[n])
  BY <1>1, <1>5
<1>8. ASSUME NEW r, SoFar(r, n)
      PROVE  SoFar(ExecuteStep(r, steps[n]), n + 1)
  <2> DEFINE step == steps[n]
             next == applyMockStep(r.state, step)
             after == ExecuteStep(r, step)
  <2>1. IsRun(r) /\ IsState(r.state)
    BY <1>8 DEF SoFar, IsRun
  <2>2. step.kind \in StepKind /\ RunsWith(step, V, Earlier(steps, n, V), E)
    BY <1>5
  <2>3. CASE ~ r.ok
    BY <1>8, <2>3 DEF ExecuteStep, SoFar
  <2>4. CASE r.ok /\ ~ next.ok
    <3>1. next.error \in E \ {TooLong}
      BY <1>8, <2>1, <2>2, <2>4 DEF RunsWith, SoFar
    <3>2. after = Advanced(r, step, next)
      BY <2>4 DEF ExecuteStep
    <3>3. mapToolErrorCode(next.error) \in ExecutionError
      BY DEF mapToolErrorCode, ExecutionError
    <3> HIDE DEF next, step, after
    <3>4. Advanced(r, step, next) = [ok |-> FALSE, code |-> mapToolErrorCode(next.error),
                                     state |-> r.state, trace |-> r.trace]
      BY <2>1, <2>4 DEF Advanced, IsRun
    <3>5. /\ after.ok = FALSE /\ after.code = mapToolErrorCode(next.error)
          /\ after.state = r.state /\ IsRun(after)
      BY <2>1, <3>2, <3>3, <3>4 DEF IsRun
    <3> QED BY <3>1, <3>5 DEF SoFar, after, step
  <2>5. CASE r.ok /\ next.ok
    <3>1. \A k \in DOMAIN V :
             Has(r.state, k, V) \/ Produces(step, k) => Has(next.value, k, V)
      BY <1>8, <2>1, <2>2, <2>5 DEF RunsWith, SoFar
    <3>2. IsState(next.value)
      BY <2>1, <2>2, <2>5, MockStepKeepsState
    <3>3. \A k \in Earlier(steps, n, V) : Has(r.state, k, V)
      BY <1>8, <2>5 DEF SoFar
    <3>4. \A k \in Earlier(steps, n + 1, V) : Has(next.value, k, V)
      <4> SUFFICES ASSUME NEW k \in Earlier(steps, n + 1, V) PROVE Has(next.value, k, V)
        OBVIOUS
      <4>1. PICK j \in 1..((n + 1) - 1) : Produces(steps[j], k)
        BY DEF Earlier
      <4>2. k \in DOMAIN V
        BY DEF Earlier
      <4>3. CASE j = n
        BY <3>1, <4>1, <4>2, <4>3
      <4>4. CASE j # n
        <5>1. j \in 1..(n - 1)
          BY <1>5, <4>4
        <5> QED BY <3>1, <3>3, <4>1, <4>2, <5>1 DEF Earlier
      <4> QED BY <4>3, <4>4
    <3>5. after = Advanced(r, step, next)
      BY <2>5 DEF ExecuteStep
    <3> HIDE DEF next, step, after
    <3>6. Advanced(r, step, next) = [ok |-> r.ok, code |-> r.code, state |-> next.value,
                                     trace |-> Append(r.trace, StepTrace(step, r.state, next.value))]
      BY <2>1, <2>5 DEF Advanced, IsRun
    <3>7. after.ok /\ after.state = next.value /\ IsRun(after)
      BY <2>1, <2>5, <3>2, <3>5, <3>6 DEF IsRun
    <3> QED BY <3>4, <3>7 DEF SoFar, after, step
  <2> QED BY <2>3, <2>4, <2>5
<1>9. SoFar(run[n], n + 1)
  BY <1>6, <1>7, <1>8
<1> QED BY <1>3, <1>9

(* Policy and canonical plan have nothing against a step, but that it may  *)
(* hold too much, nor change it.                                           *)
Passes(step, E) ==
    /\ step.id \in Nat /\ normalizeStepRaw(step) = step
    /\ validateStep(step)
    /\ CanonicalStep(step) \/ TooLong \in E

(* The keys of V steps with smaller ids produce.                           *)
Below(steps, i, V) ==
    {k \in DOMAIN V : \E j \in DOMAIN steps : steps[j].id < steps[i].id /\ Produces(steps[j], k)}

(* A step that runs with some keys runs with more.                         *)
LEMMA RunsWithMore ==
    ASSUME NEW step, NEW V, NEW K, NEW L, NEW E, RunsWith(step, V, K, E), K \subseteq L
    PROVE  RunsWith(step, V, L, E)
BY DEF RunsWith

(* Once sorted, what has a smaller id is earlier.                          *)
LEMMA BelowIsEarlier ==
    ASSUME NEW steps, IdsSort(steps), NEW V, NEW E,
           \A i \in DOMAIN steps : RunsWith(steps[i], V, Below(steps, i, V), E)
    PROVE  \A n \in 1..Len(steps) : RunsWith(Sorted(steps)[n], V, Earlier(Sorted(steps), n, V), E)
<1> SUFFICES ASSUME NEW n \in 1..Len(steps)
             PROVE  RunsWith(Sorted(steps)[n], V, Earlier(Sorted(steps), n, V), E)
  OBVIOUS
<1>1. DOMAIN steps = 1..Len(steps) /\ Len(steps) \in Nat
  BY ArrayHasItems DEF IdsSort
<1>2. PICK i \in DOMAIN steps : Before(steps, i) + 1 = n /\ Sorted(steps)[n] = steps[i]
  BY <1>1, SortedPlaces
<1>3. Below(steps, i, V) \subseteq Earlier(Sorted(steps), n, V)
  <2> SUFFICES ASSUME NEW k \in Below(steps, i, V) PROVE k \in Earlier(Sorted(steps), n, V)
    OBVIOUS
  <2>1. PICK j \in DOMAIN steps : steps[j].id < steps[i].id /\ Produces(steps[j], k)
    BY DEF Below
  <2>2. Before(steps, j) < Before(steps, i)
    BY <2>1, PlacesOrdered
  <2>3. Before(steps, j) \in Nat /\ Before(steps, i) \in Nat
    BY PlacesAreOneEach
  <2>4. Sorted(steps)[Before(steps, j) + 1] = steps[j]
    BY SortedPlaces
  <2>5. Before(steps, j) + 1 \in 1..(n - 1)
    BY <1>2, <2>2, <2>3
  <2>6. Produces(Sorted(steps)[Before(steps, j) + 1], k) /\ k \in DOMAIN V
    BY <2>1, <2>4 DEF Below
  <2> QED BY ONLY <2>5, <2>6 DEF Earlier
<1> QED BY <1>2, <1>3, RunsWithMore

(* A plan runs to its end, or to an error it may meet, or it has more      *)
(* steps than it may have or holds too much.                               *)
RunsUnless(plan, maxSteps, E) ==
    LET reply == runAgent(plan, maxSteps)
    IN  \/ reply.ok
        \/ reply.code = "PLAN_EXCEEDS_MAX_STEPS"
        \/ TooLong \in E /\ reply.code = "PLAN_CANONICALIZATION_FAILED"
        \/ \E e \in E \ {TooLong} : reply.code = mapToolErrorCode(e)

(* A plan whose steps pass, and each of which runs with what steps of      *)
(* smaller ids produce, runs.                                              *)
LEMMA PlansRun ==
    ASSUME NEW plan, NEW maxSteps \in Nat, NEW V, NEW E,
           isNonEmptyString(plan.planId), plan.planId # TooLong \/ TooLong \in E,
           plan.version = 1, isArray(plan.steps), plan.steps # << >>,
           \A i \in DOMAIN plan.steps : /\ Passes(plan.steps[i], E)
                                        /\ RunsWith(plan.steps[i], V, Below(plan.steps, i, V), E),
           \A i, j \in DOMAIN plan.steps : plan.steps[i].id = plan.steps[j].id => i = j
    PROVE  RunsUnless(plan, maxSteps, E)
<1> DEFINE steps == plan.steps
           sorted == Sorted(steps)
           canonical == [planId |-> plan.planId, version |-> 1, steps |-> sorted]
           end == executeSteps(sorted)
           run == ResultOf(canonical, end)
<1>1. validatePlan(plan)
  BY DEF validatePlan, Passes
<1>2. IdsSort(steps)
  BY DEF IdsSort, DuplicateIds, Passes
<1>3. Len(steps) \in Nat /\ DOMAIN steps = 1..Len(steps) /\ steps = [i \in 1..Len(steps) |-> steps[i]]
  BY <1>2, ArrayHasItems DEF IdsSort
<1>4. Named(steps) = steps
  <2>1. Named(steps) = [i \in 1..Len(steps) |-> steps[i]]
    BY <1>3 DEF Named, Passes
  <2> QED BY <1>3, <2>1
<1> DEFINE Fine == plan.planId # TooLong /\ \A i \in DOMAIN steps : CanonicalStep(steps[i])
<1>5. /\ Fine => canonicalizePlan(plan) = Gives(canonical)
      /\ ~ Fine => /\ canonicalizePlan(plan) = Fails("PLAN_CANONICALIZATION_FAILED")
                   /\ TooLong \in E
  <2>1. canonicalizePlan(plan) = CanonicalPlan(plan, steps)
    BY <1>4 DEF canonicalizePlan, Named
  <2>2. normalizeStringStrict(plan.planId) <=> plan.planId # TooLong
    BY StrictStrings
  <2>3. ~ Fine => TooLong \in E
    BY DEF Passes
  <2>4. isArray(steps) /\ ~ DuplicateIds(steps)
    BY <1>2 DEF IdsSort
  <2> QED BY <2>1, <2>2, <2>3, <2>4 DEF CanonicalPlan
<1>6. isArray(sorted) /\ Len(sorted) = Len(steps) /\ ToSet(sorted) = ToSet(steps)
  BY <1>2, SortedHolds
<1>7. ASSUME Fine
      PROVE  \A n \in 1..Len(sorted) :
                /\ sorted[n].kind \in StepKind
                /\ RunsWith(sorted[n], V, Earlier(sorted, n, V), E)
  <2>1. \A n \in 1..Len(steps) : RunsWith(sorted[n], V, Earlier(sorted, n, V), E)
    BY <1>2, BelowIsEarlier
  <2>2. \A i \in DOMAIN steps : steps[i].kind \in StepKind
    BY <1>7 DEF CanonicalStep, StepKind
  <2>3. \A n \in DOMAIN steps : \E i \in DOMAIN steps : sorted[n] = steps[i]
    <3> HIDE DEF steps
    <3>1. \A n \in DOMAIN steps : \E i \in DOMAIN steps :
             Before(steps, i) + 1 = n /\ Sorted(steps)[n] = steps[i]
      BY <1>2, SortedPlaces
    <3> QED BY <3>1
  <2> HIDE DEF steps, sorted
  <2> QED BY <1>3, <1>6, <2>1, <2>2, <2>3
<1> HIDE DEF sorted, steps
<1>8. executeDeterministicPlan(plan, maxSteps) = ExecuteCanonical(canonicalizePlan(plan), maxSteps)
  BY <1>1 DEF executeDeterministicPlan
<1>9. canonical.steps = sorted
  OBVIOUS
<1>10. CASE ~ Fine
  <2>1. canonicalizePlan(plan) = Fails("PLAN_CANONICALIZATION_FAILED") /\ TooLong \in E
    BY <1>5, <1>10
  <2>2. runAgent(plan, maxSteps) = Failure("PLAN_CANONICALIZATION_FAILED")
    BY <1>8, <2>1, PlanOrError DEF ExecuteCanonical, runAgent, Projected, Failure
  <2> QED BY <2>1, <2>2 DEF RunsUnless, Failure
<1>11. CASE Fine
  <2>1. IsRun(end) /\ (end.ok \/ \E e \in E \ {TooLong} : end.code = mapToolErrorCode(e))
    <3>1. \A n \in 1..Len(sorted) : /\ sorted[n].kind \in StepKind
                                    /\ RunsWith(sorted[n], V, Earlier(sorted, n, V), E)
      BY <1>7, <1>11
    <3> HIDE DEF Fine
    <3> QED BY <1>3, <1>6, <3>1, StepsRun, ExecutionKeepsRun
  <2>2. executeDeterministicPlan(plan, maxSteps) = ExecuteCanonical(Gives(canonical), maxSteps)
    BY <1>5, <1>8, <1>11
  <2> HIDE DEF end, run, canonical, Fine
  <2>3. ExecuteCanonical(Gives(canonical), maxSteps) =
            IF Len(sorted) > maxSteps THEN Failure("PLAN_EXCEEDS_MAX_STEPS") ELSE run
    BY <1>9, PlanOrError DEF ExecuteCanonical, run, end
  <2>4. CASE Len(sorted) > maxSteps
    <3>1. runAgent(plan, maxSteps) = Failure("PLAN_EXCEEDS_MAX_STEPS")
      BY <2>2, <2>3, <2>4 DEF runAgent, Projected, Failure
    <3> QED BY <3>1 DEF RunsUnless, Failure
  <2>5. CASE ~ (Len(sorted) > maxSteps)
    <3>1. runAgent(plan, maxSteps) = Projected(run)
      BY <2>2, <2>3, <2>5 DEF runAgent
    <3>2. CASE end.ok
      <4>1. PICK result : run = Success(result)
        BY <3>2 DEF run, ResultOf
      <4>2. Projected(run).ok
        BY <4>1 DEF Projected, Success
      <4> QED BY <3>1, <4>2 DEF RunsUnless
    <3>3. CASE ~ end.ok
      <4>1. run = Failure(end.code)
        BY <3>3 DEF run, ResultOf
      <4>2. Projected(run).code = end.code
        BY <4>1 DEF Projected, Failure
      <4> QED BY <2>1, <3>1, <3>3, <4>2 DEF RunsUnless
    <3> QED BY <3>2, <3>3
  <2> QED BY <2>4, <2>5
<1> QED BY <1>10, <1>11

-----------------------------------------------------------------------------
(* Steps and their letters.                                                *)

(* A step under a letter.                                                  *)
IsLettered(lettered, step) ==
    /\ lettered.id \in 1..Padded /\ normalizeStepRaw(lettered) = lettered
    /\ \A field \in DOMAIN step \ {"id"} : lettered[field] = step[field]

(* Whatever letter a step gets, it passes and runs with the keys K.        *)
Fits(step, V, K, E) ==
    /\ "id" \in DOMAIN step
    /\ \A lettered : IsLettered(lettered, step) =>
          /\ Passes(lettered, E)
          /\ RunsWith(lettered, V, K, E)
          /\ \A key : Produces(lettered, key) <=> Produces(step, key)

(* A step that needs no key fits where there are some.                     *)
LEMMA FitsWithMore ==
    ASSUME NEW step, NEW V, NEW K, NEW L, NEW E, Fits(step, V, K, E), K \subseteq L
    PROVE  Fits(step, V, L, E)
BY RunsWithMore DEF Fits

(* A letter is an id without blanks.                                       *)
LEMMA LettersAreIds ==
    ASSUME NEW id \in 1..Padded
    PROVE  IsId(id) /\ id \in Nat /\ normalizedId(id) = id
BY DEF IsId, Padded, Blank, normalizedId

(* The step of a letter is under that letter.                              *)
LEMMA Lettering ==
    ASSUME NEW step, NEW id \in 1..Padded, "id" \in DOMAIN step
    PROVE  /\ IsLettered([step EXCEPT !.id = id], step)
           /\ [step EXCEPT !.id = id].id = id
<1> DEFINE lettered == [step EXCEPT !.id = id]
<1>1. lettered.id = id
  BY Zenon
<1>2. [lettered EXCEPT !.id = id] = lettered
  BY Zenon
<1>3. normalizeStepRaw(lettered) = lettered
  BY <1>1, <1>2, LettersAreIds, Zenon DEF normalizeStepRaw
<1>4. \A field \in DOMAIN step \ {"id"} : lettered[field] = step[field]
  BY Zenon
<1> HIDE DEF lettered
<1>5. IsLettered(lettered, step)
  BY <1>1, <1>3, <1>4 DEF IsLettered
<1> QED BY <1>1, <1>5, Zenon DEF lettered

(* A value put under a key leaves those of other keys of V.                *)
LEMMA PutKeeps ==
    ASSUME NEW state, IsState(state), NEW V, NEW key, NEW v, NEW k \in DOMAIN V
    PROVE  LET next == Stored(state, key, v)
           IN  /\ IsState(next) /\ next.values = Put(state.values, key, v)
               /\ Has(state, k, V) /\ k # key => Has(next, k, V)
               /\ k = key /\ V[k] = v => Has(next, k, V)
<1> DEFINE values == Put(state.values, key, v)
           next == Stored(state, key, v)
<1>1. /\ k # key /\ k \in DOMAIN state.values => k \in DOMAIN values /\ values[k] = state.values[k]
      /\ key \in DOMAIN values /\ values[key] = v
  BY DEF Put
<1>2. next = [state EXCEPT !.values = values]
  BY DEF Stored
<1> HIDE DEF values
<1>3. next = [counters |-> state.counters, values |-> values, logs |-> state.logs]
  BY <1>2 DEF IsState
<1> HIDE DEF next
<1>4. IsState(next) /\ next.values = values
  BY <1>3 DEF IsState
<1> QED BY <1>1, <1>4 DEF Has, values, next

(* An entry in the log leaves the values.                                  *)
LEMMA LogKeeps ==
    ASSUME NEW state, IsState(state), NEW entry
    PROVE  Logged(state, entry).values = state.values
<1> DEFINE logs == Append(state.logs, entry)
<1>1. Logged(state, entry) = [state EXCEPT !.logs = logs]
  BY DEF Logged
<1> HIDE DEF logs
<1> QED BY <1>1 DEF IsState

(* What becomes of a step that goes on in any state, and leaves the values *)
(* V gives.                                                                *)
LEMMA RunsIf ==
    ASSUME NEW step, NEW V, NEW E, \A k : ~ Produces(step, k),
           \A state : IsState(state) =>
               \E next : /\ applyMockStep(state, step) = Gives(next)
                         /\ \A k \in DOMAIN V : Has(state, k, V) => Has(next, k, V)
    PROVE  RunsWith(step, V, {}, E)
<1> SUFFICES ASSUME NEW state, IsState(state)
             PROVE  LET next == applyMockStep(state, step)
                    IN  next.ok /\ \A k \in DOMAIN V : Has(state, k, V) => Has(next.value, k, V)
  BY DEF RunsWith
<1>1. PICK next : /\ applyMockStep(state, step) = Gives(next)
                  /\ \A k \in DOMAIN V : Has(state, k, V) => Has(next, k, V)
  OBVIOUS
<1> QED BY <1>1 DEF Gives

(* Setting a key V does not give, to a value that may be too long.         *)
LEMMA SetFits ==
    ASSUME NEW key, NEW v, NEW V, NEW E, normalizeStringStrict(key), key \notin DOMAIN V,
           CanonicalValue(v) \/ TooLong \in E
    PROVE  Fits(Set(0, key, v), V, {}, E)
<1> DEFINE made == Set(0, key, v)
<1>1. /\ DOMAIN made = {"id", "kind", "key", "value", "irregular"}
      /\ made.kind = "set" /\ made.key = key /\ made.value = v /\ made.irregular = FALSE
  BY DEF Set
<1> HIDE DEF made
<1>2. \A k : ~ Produces(made, k)
  BY <1>1 DEF Produces, isProducerStep
<1> SUFFICES ASSUME NEW step, IsLettered(step, made)
             PROVE  Passes(step, E) /\ RunsWith(step, V, {}, E) /\ \A k : ~ Produces(step, k)
  BY <1>1, <1>2 DEF Fits, made
<1>3. /\ step.id \in 1..Padded /\ normalizeStepRaw(step) = step
      /\ step.kind = "set" /\ step.key = key /\ step.value = v /\ step.irregular = FALSE
  BY <1>1 DEF IsLettered
<1>4. Passes(step, E)
  BY <1>3, LettersAreIds, StrictStrings DEF Passes, validateStep, CanonicalStep, SandboxKind
<1>5. \A k : ~ Produces(step, k)
  BY <1>3 DEF Produces, isProducerStep
<1>6. \A state : IsState(state) =>
         \E next : /\ applyMockStep(state, step) = Gives(next)
                   /\ \A k \in DOMAIN V : Has(state, k, V) => Has(next, k, V)
  <2> SUFFICES ASSUME NEW state, IsState(state)
               PROVE  /\ applyMockStep(state, step) = Gives(Stored(state, key, v))
                      /\ \A k \in DOMAIN V : Has(state, k, V) => Has(Stored(state, key, v), k, V)
    BY Zenon
  <2>1. applyMockStep(state, step) = Gives(Stored(state, key, v))
    BY <1>3 DEF applyMockStep
  <2>2. \A k \in DOMAIN V : Has(state, k, V) => Has(Stored(state, key, v), k, V)
    BY PutKeeps
  <2> QED BY <2>1, <2>2
<1> QED BY <1>4, <1>5, <1>6, RunsIf

(* Counting.                                                               *)
LEMMA IncrementFits ==
    ASSUME NEW key, NEW n, NEW V, NEW E, normalizeStringStrict(key)
    PROVE  Fits(Increment(0, key, n), V, {}, E)
<1> DEFINE made == Increment(0, key, n)
<1>1. /\ DOMAIN made = {"id", "kind", "key", "value", "irregular"}
      /\ made.kind = "increment" /\ made.key = key /\ made.value = n /\ made.irregular = FALSE
  BY DEF Increment
<1> HIDE DEF made
<1>2. \A k : ~ Produces(made, k)
  BY <1>1 DEF Produces, isProducerStep
<1> SUFFICES ASSUME NEW step, IsLettered(step, made)
             PROVE  Passes(step, E) /\ RunsWith(step, V, {}, E) /\ \A k : ~ Produces(step, k)
  BY <1>1, <1>2 DEF Fits, made
<1>3. /\ step.id \in 1..Padded /\ normalizeStepRaw(step) = step
      /\ step.kind = "increment" /\ step.key = key /\ step.value = n /\ step.irregular = FALSE
  BY <1>1 DEF IsLettered
<1>4. Passes(step, E)
  BY <1>3, LettersAreIds, StrictStrings DEF Passes, validateStep, CanonicalStep, SandboxKind
<1>5. \A k : ~ Produces(step, k)
  BY <1>3 DEF Produces, isProducerStep
<1>6. ASSUME NEW state, IsState(state)
      PROVE  \E next : /\ applyMockStep(state, step) = Gives(next)
                       /\ \A k \in DOMAIN V : Has(state, k, V) => Has(next, k, V)
  <2> DEFINE counters == Put(state.counters, step.key,
                             step.value + (IF step.key \in DOMAIN state.counters
                                           THEN state.counters[step.key] ELSE 0))
             next == [state EXCEPT !.counters = counters]
  <2>1. applyMockStep(state, step) = Gives(next)
    BY <1>3 DEF applyMockStep
  <2> HIDE DEF counters
  <2>2. next.values = state.values
    BY <1>6 DEF IsState
  <2> HIDE DEF next
  <2> QED BY <2>1, <2>2 DEF Has
<1> QED BY <1>4, <1>5, <1>6, RunsIf

(* Logging a word.                                                         *)
LEMMA AppendLogFits ==
    ASSUME NEW word, NEW V, NEW E, normalizeStringStrict(word)
    PROVE  Fits(AppendLog(0, word), V, {}, E)
<1> DEFINE made == AppendLog(0, word)
<1>1. /\ DOMAIN made = {"id", "kind", "value", "irregular"}
      /\ made.kind = "append_log" /\ made.value = Text(word) /\ made.irregular = FALSE
  BY DEF AppendLog
<1> HIDE DEF made
<1>2. \A k : ~ Produces(made, k)
  BY <1>1 DEF Produces, isProducerStep
<1> SUFFICES ASSUME NEW step, IsLettered(step, made)
             PROVE  Passes(step, E) /\ RunsWith(step, V, {}, E) /\ \A k : ~ Produces(step, k)
  BY <1>1, <1>2 DEF Fits, made
<1>3. /\ step.id \in 1..Padded /\ normalizeStepRaw(step) = step
      /\ step.kind = "append_log" /\ step.value = Text(word) /\ step.irregular = FALSE
  BY <1>1 DEF IsLettered
<1>4. Passes(step, E)
  <2>1. CanonicalValue(Text(word))
    BY Zenon DEF Text, CanonicalValue, normalizeStringStrict
  <2> QED BY <1>3, <2>1, LettersAreIds DEF Passes, validateStep, CanonicalStep, SandboxKind
<1>5. \A k : ~ Produces(step, k)
  BY <1>3 DEF Produces, isProducerStep
<1>6. ASSUME NEW state, IsState(state)
      PROVE  \E next : /\ applyMockStep(state, step) = Gives(next)
                       /\ \A k \in DOMAIN V : Has(state, k, V) => Has(next, k, V)
  <2> DEFINE entry == Entry(step.kind, step.value.word)
             next == Logged(state, entry)
  <2>1. applyMockStep(state, step) = Gives(next)
    BY <1>3 DEF applyMockStep
  <2>2. next.values = state.values
    BY <1>6, LogKeeps
  <2> HIDE DEF next
  <2> QED BY <2>1, <2>2 DEF Has
<1> QED BY <1>4, <1>5, <1>6, RunsIf

(* Opening a sandbox, or clicking or typing in one.                        *)
LEMMA SandboxFits ==
    ASSUME NEW sessionId, NEW V, NEW E, normalizeStringStrict(sessionId),
           NEW kind \in {"sandbox.open", "sandbox.click", "sandbox.type"}
    PROVE  Fits(Sandbox(0, kind, sessionId, ""), V, {}, E)
<1> DEFINE made == Sandbox(0, kind, sessionId, "")
<1>1. /\ DOMAIN made = {"id", "kind", "sessionId", "outputKey", "irregular"}
      /\ made.kind = kind /\ made.sessionId = sessionId /\ made.irregular = FALSE
  BY DEF Sandbox
<1> HIDE DEF made
<1>2. \A k : ~ Produces(made, k)
  BY <1>1 DEF Produces, isProducerStep
<1> SUFFICES ASSUME NEW step, IsLettered(step, made)
             PROVE  Passes(step, E) /\ RunsWith(step, V, {}, E) /\ \A k : ~ Produces(step, k)
  BY <1>1, <1>2 DEF Fits, made
<1>3. /\ step.id \in 1..Padded /\ normalizeStepRaw(step) = step
      /\ step.kind = kind /\ step.sessionId = sessionId /\ step.irregular = FALSE
  BY <1>1 DEF IsLettered
<1>4. Passes(step, E)
  BY <1>3, LettersAreIds, StrictStrings DEF Passes, validateStep, CanonicalStep, SandboxKind
<1>5. \A k : ~ Produces(step, k)
  BY <1>3 DEF Produces, isProducerStep
<1>6. ASSUME NEW state, IsState(state)
      PROVE  \E next : /\ applyMockStep(state, step) = Gives(next)
                       /\ \A k \in DOMAIN V : Has(state, k, V) => Has(next, k, V)
  <2> DEFINE entry == Entry(step.kind, step.sessionId)
             next == Logged(state, entry)
  <2>1. applyMockStep(state, step) = Gives(next)
    BY <1>3 DEF applyMockStep
  <2>2. next.values = state.values
    BY <1>6, LogKeeps
  <2> HIDE DEF next
  <2> QED BY <2>1, <2>2 DEF Has
<1> QED BY <1>4, <1>5, <1>6, RunsIf

(* Extracting from a sandbox to a key V does not give.                     *)
LEMMA ExtractFits ==
    ASSUME NEW sessionId, NEW key, NEW V, NEW E,
           normalizeStringStrict(sessionId), normalizeStringStrict(key), key \notin DOMAIN V
    PROVE  Fits(Sandbox(0, "sandbox.extract", sessionId, key), V, {}, E)
<1> DEFINE made == Sandbox(0, "sandbox.extract", sessionId, key)
<1>1. /\ DOMAIN made = {"id", "kind", "sessionId", "outputKey", "irregular"}
      /\ made.kind = "sandbox.extract" /\ made.sessionId = sessionId /\ made.outputKey = key
      /\ made.irregular = FALSE
  BY DEF Sandbox
<1> HIDE DEF made
<1>2. \A k : ~ Produces(made, k)
  BY <1>1 DEF Produces, isProducerStep
<1> SUFFICES ASSUME NEW step, IsLettered(step, made)
             PROVE  Passes(step, E) /\ RunsWith(step, V, {}, E) /\ \A k : ~ Produces(step, k)
  BY <1>1, <1>2 DEF Fits, made
<1>3. /\ step.id \in 1..Padded /\ normalizeStepRaw(step) = step
      /\ step.kind = "sandbox.extract" /\ step.sessionId = sessionId /\ step.outputKey = key
      /\ step.irregular = FALSE
  BY <1>1 DEF IsLettered
<1>4. Passes(step, E)
  BY <1>3, LettersAreIds, StrictStrings DEF Passes, validateStep, CanonicalStep, SandboxKind
<1>5. \A k : ~ Produces(step, k)
  BY <1>3 DEF Produces, isProducerStep
<1>6. ASSUME NEW state, IsState(state)
      PROVE  \E next : /\ applyMockStep(state, step) = Gives(next)
                       /\ \A k \in DOMAIN V : Has(state, k, V) => Has(next, k, V)
  <2> DEFINE entry == Entry(step.kind, step.sessionId)
             stored == Stored(state, key, Text("mock"))
             next == Logged(stored, entry)
  <2>1. applyMockStep(state, step) = Gives(next)
    BY <1>3 DEF applyMockStep
  <2>2. \A k \in DOMAIN V : IsState(stored) /\ (Has(state, k, V) => Has(stored, k, V))
    BY <1>6, PutKeeps
  <2> HIDE DEF stored
  <2>3. IsState(stored) => next.values = stored.values
    BY LogKeeps
  <2> HIDE DEF next
  <2> QED BY <2>1, <2>2, <2>3 DEF Has
<1> QED BY <1>4, <1>5, <1>6, RunsIf

-----------------------------------------------------------------------------
(* Tools.                                                                  *)

(* With the keys K, a tool finds what its input refers to and gives what V *)
(* has under the key, or fails with one of the errors E.                   *)
Yields(toolId, input, key, V, K, E) ==
    \A values : (\A k \in K : k \in DOMAIN values /\ values[k] = V[k]) =>
        \E given : /\ resolveInputRefs(input, values) = Gives(given)
                   /\ \/ \E out : /\ registryRun(toolId, given) = Gives(out)
                                  /\ key \in DOMAIN V => V[key] = JsonText(out)
                      \/ \E e \in E \ {TooLong} : registryRun(toolId, given) = Fails(e)

(* An input the canonical plan takes.                                      *)
CanonicalArguments(input) ==
    \A argument \in DOMAIN input : isJsonValue(input[argument]) /\ CanonicalInput(input[argument])

(* What a tool gives is put under the key of its step.                     *)
LEMMA ToolStoredValues ==
    ASSUME NEW state, IsState(state), NEW step, NEW v
    PROVE  ToolStored(state, step, v).values = Stored(state, step.outputKey, v).values
<1> DEFINE stored == Stored(state, step.outputKey, v)
           values == Put(state.values, step.outputKey, v)
<1>1. stored = [state EXCEPT !.values = values]
  BY DEF Stored
<1>2. PICK logs : ToolStored(state, step, v) = [stored EXCEPT !.logs = logs]
  BY DEF ToolStored
<1> HIDE DEF values
<1>3. IsState(stored)
  BY <1>1 DEF IsState
<1> HIDE DEF stored
<1> QED BY <1>2, <1>3 DEF IsState, stored

(* A step that applies a tool.                                             *)
LEMMA ToolStepRuns ==
    ASSUME NEW step, NEW V, NEW K, NEW E, step.kind \in {"tool.call", "tool.loop"},
           Yields(step.toolId, step.input, step.outputKey, V, K, E)
    PROVE  RunsWith(step, V, K, E)
<1> DEFINE key == step.outputKey
<1> SUFFICES ASSUME NEW state, IsState(state), \A k \in K : Has(state, k, V)
             PROVE  LET next == applyMockStep(state, step)
                    IN  \/ /\ next.ok
                           /\ \A k \in DOMAIN V :
                                 Has(state, k, V) \/ Produces(step, k) => Has(next.value, k, V)
                        \/ ~ next.ok /\ next.error \in E \ {TooLong}
  BY DEF RunsWith
<1>1. PICK given : /\ resolveInputRefs(step.input, state.values) = Gives(given)
                   /\ \/ \E out : /\ registryRun(step.toolId, given) = Gives(out)
                                  /\ key \in DOMAIN V => V[key] = JsonText(out)
                      \/ \E e \in E \ {TooLong} : registryRun(step.toolId, given) = Fails(e)
  BY DEF Yields, Has
<1>2. applyMockStep(state, step) = ToolRan(state, step, registryRun(step.toolId, given))
  <2>1. applyMockStep(state, step) = applyTool(state, step)
    BY DEF applyMockStep, SandboxKind
  <2>2. applyTool(state, step) = ToolResolved(state, step, Gives(given))
    BY <1>1 DEF applyTool
  <2>3. ToolResolved(state, step, Gives(given)) =
            ToolRan(state, step, registryRun(step.toolId, given))
    BY PlanOrError DEF ToolResolved
  <2> QED BY <2>1, <2>2, <2>3
<1>3. CASE \E e \in E \ {TooLong} : registryRun(step.toolId, given) = Fails(e)
  <2>1. PICK e \in E \ {TooLong} : registryRun(step.toolId, given) = Fails(e)
    BY <1>3
  <2>2. applyMockStep(state, step) = Fails(e)
    BY <1>2, <2>1, PlanOrError DEF ToolRan
  <2> QED BY <2>2, PlanOrError
<1>4. CASE \E out : /\ registryRun(step.toolId, given) = Gives(out)
                    /\ key \in DOMAIN V => V[key] = JsonText(out)
  <2>1. PICK out : /\ registryRun(step.toolId, given) = Gives(out)
                   /\ key \in DOMAIN V => V[key] = JsonText(out)
    BY <1>4
  <2> DEFINE stored == Stored(state, key, JsonText(out))
             next == ToolStored(state, step, JsonText(out))
  <2>2. applyMockStep(state, step) = Gives(next)
    BY <1>2, <2>1, PlanOrError DEF ToolRan
  <2>3. next.values = stored.values
    BY ToolStoredValues
  <2>4. \A k \in DOMAIN V : /\ Has(state, k, V) /\ k # key => Has(stored, k, V)
                            /\ k = key => Has(stored, k, V)
    BY <2>1, PutKeeps
  <2> HIDE DEF next, stored
  <2>5. \A k \in DOMAIN V : Has(stored, k, V) => Has(next, k, V)
    BY <2>3 DEF Has
  <2>6. \A k : Produces(step, k) => k = key
    BY DEF Produces
  <2> HIDE DEF key
  <2> QED BY <2>2, <2>4, <2>5, <2>6, PlanOrError
<1> QED BY <1>1, <1>3, <1>4

(* A call of a tool.                                                       *)
LEMMA ToolCallFits ==
    ASSUME NEW toolId, NEW input, NEW key, NEW V, NEW K, NEW E,
           normalizeStringStrict(toolId), normalizeStringStrict(key),
           CanonicalArguments(input), Yields(toolId, input, key, V, K, E)
    PROVE  /\ Fits(ToolCall(0, toolId, input, key), V, K, E)
           /\ \A k : Produces(ToolCall(0, toolId, input, key), k) <=> k = key
<1> DEFINE made == ToolCall(0, toolId, input, key)
<1>1. /\ DOMAIN made = {"id", "kind", "toolId", "input", "outputKey", "irregular"}
      /\ made.kind = "tool.call" /\ made.toolId = toolId /\ made.input = input
      /\ made.outputKey = key /\ made.irregular = FALSE
  BY DEF ToolCall
<1> HIDE DEF made
<1>0. isNonEmptyString(key)
  BY StrictStrings
<1>2. \A k : Produces(made, k) <=> k = key
  BY <1>0, <1>1 DEF Produces, isProducerStep
<1> SUFFICES ASSUME NEW step, IsLettered(step, made)
             PROVE  Passes(step, E) /\ RunsWith(step, V, K, E) /\ \A k : Produces(step, k) <=> k = key
  BY <1>1, <1>2 DEF Fits, made
<1>3. /\ step.id \in 1..Padded /\ normalizeStepRaw(step) = step
      /\ step.kind = "tool.call" /\ step.toolId = toolId /\ step.input = input
      /\ step.outputKey = key /\ step.irregular = FALSE
  BY <1>1 DEF IsLettered
<1>4. Passes(step, E)
  <2>1. \A argument \in DOMAIN step.input :
           isJsonValue(step.input[argument]) /\ CanonicalInput(step.input[argument])
    BY <1>3 DEF CanonicalArguments
  <2>2. validateToolStep(step)
    <3>1. isNonEmptyString(step.toolId) /\ isNonEmptyString(step.outputKey)
      BY <1>3, StrictStrings
    <3> QED BY <1>3, <2>1, <3>1 DEF validateToolStep
  <2>3. IsId(step.id) /\ step.id \in Nat
    BY <1>3, LettersAreIds
  <2>4. validateStep(step)
    BY <1>3, <2>2, <2>3 DEF validateStep, SandboxKind
  <2>5. CanonicalStep(step)
    <3>1. normalizeStringStrict(step.toolId) /\ normalizeStringStrict(step.outputKey)
      BY <1>3
    <3> QED BY <1>3, <2>1, <2>3, <3>1 DEF CanonicalStep, SandboxKind
  <2> QED BY <1>3, <2>3, <2>4, <2>5 DEF Passes
<1>5. \A k : Produces(step, k) <=> k = key
  BY <1>0, <1>3 DEF Produces, isProducerStep
<1>6. RunsWith(step, V, K, E)
  <2>1. step.kind \in {"tool.call", "tool.loop"}
    BY <1>3
  <2>2. Yields(step.toolId, step.input, step.outputKey, V, K, E)
    BY <1>3
  <2> QED BY <2>1, <2>2, ToolStepRuns
<1> QED BY <1>4, <1>5, <1>6

(* A loop over a tool.                                                     *)
LEMMA ToolLoopFits ==
    ASSUME NEW toolId, NEW input, NEW key, NEW max, NEW V, NEW K, NEW E,
           normalizeStringStrict(toolId), normalizeStringStrict(key), max > 0,
           CanonicalArguments(input), Yields(toolId, input, key, V, K, E)
    PROVE  Fits(ToolLoop(0, toolId, input, key, max), V, K, E)
<1> DEFINE made == ToolLoop(0, toolId, input, key, max)
<1>1. /\ DOMAIN made = {"id", "kind", "toolId", "input", "outputKey", "maxIterations", "irregular"}
      /\ made.kind = "tool.loop" /\ made.toolId = toolId /\ made.input = input
      /\ made.outputKey = key /\ made.maxIterations = max /\ made.irregular = FALSE
  BY DEF ToolLoop
<1> HIDE DEF made
<1>2. \A k : ~ Produces(made, k)
  BY <1>1 DEF Produces, isProducerStep
<1> SUFFICES ASSUME NEW step, IsLettered(step, made)
             PROVE  Passes(step, E) /\ RunsWith(step, V, K, E) /\ \A k : ~ Produces(step, k)
  BY <1>1, <1>2 DEF Fits, made
<1>3. /\ step.id \in 1..Padded /\ normalizeStepRaw(step) = step
      /\ step.kind = "tool.loop" /\ step.toolId = toolId /\ step.input = input
      /\ step.outputKey = key /\ step.maxIterations = max /\ step.irregular = FALSE
  BY <1>1 DEF IsLettered
<1>4. Passes(step, E)
  <2>1. \A argument \in DOMAIN step.input :
           isJsonValue(step.input[argument]) /\ CanonicalInput(step.input[argument])
    BY <1>3 DEF CanonicalArguments
  <2>2. validateToolStep(step)
    <3>1. isNonEmptyString(step.toolId) /\ isNonEmptyString(step.outputKey)
      BY <1>3, StrictStrings
    <3> QED BY <1>3, <2>1, <3>1 DEF validateToolStep
  <2>3. IsId(step.id) /\ step.id \in Nat
    BY <1>3, LettersAreIds
  <2>4. validateStep(step)
    BY <1>3, <2>2, <2>3 DEF validateStep, SandboxKind
  <2>5. CanonicalStep(step)
    <3>1. normalizeStringStrict(step.toolId) /\ normalizeStringStrict(step.outputKey)
      BY <1>3
    <3> QED BY <1>3, <2>1, <2>3, <3>1 DEF CanonicalStep, SandboxKind
  <2> QED BY <1>3, <2>3, <2>4, <2>5 DEF Passes
<1>5. \A k : ~ Produces(step, k)
  BY <1>3 DEF Produces, isProducerStep
<1>6. RunsWith(step, V, K, E)
  <2>1. step.kind \in {"tool.call", "tool.loop"}
    BY <1>3
  <2>2. Yields(step.toolId, step.input, step.outputKey, V, K, E)
    BY <1>3
  <2> QED BY <2>1, <2>2, ToolStepRuns
<1> QED BY <1>4, <1>5, <1>6

-----------------------------------------------------------------------------
(* Lists of steps.                                                         *)

(* One array after another.                                                *)
LEMMA ArraysConcat ==
    ASSUME NEW s, NEW t, isArray(s), isArray(t)
    PROVE  /\ isArray(s \o t) /\ Len(s \o t) = Len(s) + Len(t)
           /\ Len(s) \in Nat /\ Len(t) \in Nat
           /\ DOMAIN s = 1..Len(s) /\ DOMAIN t = 1..Len(t)
           /\ DOMAIN (s \o t) = 1..(Len(s) + Len(t))
           /\ \A i \in 1..Len(s) : (s \o t)[i] = s[i]
           /\ \A i \in 1..Len(t) : (s \o t)[Len(s) + i] = t[i]
<1> DEFINE S == ToSet(s) \cup ToSet(t)
           whole == s \o t
<1>1. Len(s) \in Nat /\ Len(t) \in Nat /\ DOMAIN s = 1..Len(s) /\ DOMAIN t = 1..Len(t)
  BY ArrayHasItems
<1>2. s \in Seq(S) /\ t \in Seq(S)
  <2>1. s \in Seq(ToSet(s)) /\ t \in Seq(ToSet(t))
    BY DEF isArray
  <2> QED BY <2>1
<1> HIDE DEF S
<1>3. /\ whole \in Seq(S) /\ Len(whole) = Len(s) + Len(t)
      /\ \A i \in 1..Len(s) + Len(t) : whole[i] = IF i <= Len(s) THEN s[i] ELSE t[i - Len(s)]
  BY <1>2, ConcatProperties
<1> HIDE DEF whole
<1>4. whole = [i \in 1..Len(whole) |-> whole[i]]
  BY <1>3
<1>5. isArray(whole) /\ DOMAIN whole = 1..Len(whole)
  BY <1>1, <1>3, <1>4, ListIsArray
<1>6. \A i \in 1..Len(s) : whole[i] = s[i]
  BY <1>1, <1>3
<1>7. \A i \in 1..Len(t) : whole[Len(s) + i] = t[i]
  <2> SUFFICES ASSUME NEW i \in 1..Len(t) PROVE whole[Len(s) + i] = t[i]
    OBVIOUS
  <2>1. /\ Len(s) + i \in 1..Len(s) + Len(t) /\ ~ (Len(s) + i <= Len(s))
        /\ (Len(s) + i) - Len(s) = i
    BY <1>1
  <2> QED BY <1>3, <2>1
<1> QED BY <1>1, <1>3, <1>5, <1>6, <1>7 DEF whole

(* A list of one step.                                                     *)
LEMMA OneStep ==
    ASSUME NEW step
    PROVE  /\ isArray(<< step >>) /\ Len(<< step >>) = 1 /\ DOMAIN << step >> = {1}
           /\ << step >>[1] = step
<1> DEFINE list == << step >>
<1>1. list \in Seq({step}) /\ Len(list) = 1 /\ list[1] = step
  OBVIOUS
<1>2. DOMAIN list = {1}
  OBVIOUS
<1>3. ToSet(list) = {step}
  <2> HIDE DEF list
  <2> QED BY <1>1, <1>2 DEF ToSet
<1>4. isArray(list)
  BY <1>1, <1>3 DEF isArray
<1> QED BY <1>1, <1>2, <1>4

(* Every step fits with the keys K and those the steps before it produce.  *)
Good(steps, V, K, E) ==
    /\ isArray(steps)
    /\ \A i \in DOMAIN steps : Fits(steps[i], V, K \cup Earlier(steps, i, V), E)

(* The keys of V a list of steps produces.                                 *)
Leaves(steps, V) == {k \in DOMAIN V : \E j \in DOMAIN steps : Produces(steps[j], k)}

(* One step is a list.                                                     *)
LEMMA GoodOne ==
    ASSUME NEW step, NEW V, NEW K, NEW E, Fits(step, V, K, E)
    PROVE  /\ Good(<< step >>, V, K, E)
           /\ \A k \in DOMAIN V : Produces(step, k) => k \in Leaves(<< step >>, V)
<1> DEFINE list == << step >>
<1>1. isArray(list) /\ DOMAIN list = {1} /\ list[1] = step
  BY OneStep
<1> HIDE DEF list
<1>2. Fits(list[1], V, K \cup Earlier(list, 1, V), E)
  BY <1>1, FitsWithMore
<1> QED BY <1>1, <1>2 DEF Good, Leaves, list

(* A list that needs what another one leaves goes after it.                *)
LEMMA GoodThen ==
    ASSUME NEW s, NEW t, NEW V, NEW K, NEW L, NEW E,
           Good(s, V, K, E), Good(t, V, L, E), L \subseteq K \cup Leaves(s, V)
    PROVE  Good(s \o t, V, K, E) /\ Leaves(s \o t, V) = Leaves(s, V) \cup Leaves(t, V)
<1> DEFINE whole == s \o t
<1>1. isArray(s) /\ isArray(t)
  BY DEF Good
<1>2. /\ isArray(whole) /\ Len(s) \in Nat /\ Len(t) \in Nat
      /\ DOMAIN s = 1..Len(s) /\ DOMAIN t = 1..Len(t)
      /\ DOMAIN whole = 1..(Len(s) + Len(t))
      /\ \A i \in 1..Len(s) : whole[i] = s[i]
      /\ \A i \in 1..Len(t) : whole[Len(s) + i] = t[i]
  BY <1>1, ArraysConcat
<1> HIDE DEF whole
<1>3. \A i \in DOMAIN whole : i \in 1..Len(s) \/ \E j \in 1..Len(t) : i = Len(s) + j
  <2> SUFFICES ASSUME NEW i \in DOMAIN whole, i \notin 1..Len(s)
               PROVE  \E j \in 1..Len(t) : i = Len(s) + j
    OBVIOUS
  <2>1. i - Len(s) \in 1..Len(t) /\ i = Len(s) + (i - Len(s))
    BY <1>2
  <2> QED BY <2>1
<1>4. \A j \in 1..Len(t) : Len(s) + j \in DOMAIN whole
  BY <1>2
<1>5. 1..Len(s) \subseteq DOMAIN whole
  BY <1>2
<1>6. ASSUME NEW i \in 1..Len(s)
      PROVE  Fits(whole[i], V, K \cup Earlier(whole, i, V), E)
  <2>1. Fits(s[i], V, K \cup Earlier(s, i, V), E)
    BY <1>2 DEF Good
  <2>2. \A j \in 1..(i - 1) : whole[j] = s[j]
    BY <1>2
  <2>3. Earlier(s, i, V) = Earlier(whole, i, V)
    BY <2>2 DEF Earlier
  <2> QED BY <1>2, <2>1, <2>3
<1>7. ASSUME NEW j \in 1..Len(t)
      PROVE  Fits(whole[Len(s) + j], V, K \cup Earlier(whole, Len(s) + j, V), E)
  <2>1. Fits(t[j], V, L \cup Earlier(t, j, V), E)
    BY <1>2 DEF Good
  <2>2. Leaves(s, V) \subseteq Earlier(whole, Len(s) + j, V)
    <3> SUFFICES ASSUME NEW k \in DOMAIN V, NEW i \in 1..Len(s), Produces(s[i], k)
                 PROVE  k \in Earlier(whole, Len(s) + j, V)
      BY <1>2 DEF Leaves
    <3>1. i \in 1..(Len(s) + j - 1) /\ Produces(whole[i], k)
      BY <1>2
    <3> QED BY <3>1 DEF Earlier
  <2>3. Earlier(t, j, V) \subseteq Earlier(whole, Len(s) + j, V)
    <3> SUFFICES ASSUME NEW k \in DOMAIN V, NEW i \in 1..(j - 1), Produces(t[i], k)
                 PROVE  k \in Earlier(whole, Len(s) + j, V)
      BY DEF Earlier
    <3>1. /\ Len(s) + i \in 1..(Len(s) + j - 1)
          /\ Produces(whole[Len(s) + i], k)
      BY <1>2
    <3> QED BY <3>1 DEF Earlier
  <2>4. L \cup Earlier(t, j, V) \subseteq K \cup Earlier(whole, Len(s) + j, V)
    BY <2>2, <2>3
  <2>5. whole[Len(s) + j] = t[j]
    BY <1>2
  <2> QED BY <2>1, <2>4, <2>5, FitsWithMore
<1>8. Good(whole, V, K, E)
  BY <1>2, <1>3, <1>6, <1>7 DEF Good
<1>9. Leaves(whole, V) = Leaves(s, V) \cup Leaves(t, V)
  <2>1. ASSUME NEW k \in Leaves(whole, V) PROVE k \in Leaves(s, V) \cup Leaves(t, V)
    <3>1. PICK i \in DOMAIN whole : Produces(whole[i], k)
      BY <2>1 DEF Leaves
    <3>2. k \in DOMAIN V
      BY <2>1 DEF Leaves
    <3>3. CASE i \in 1..Len(s)
      BY <1>2, <3>1, <3>2, <3>3 DEF Leaves
    <3>4. CASE \E j \in 1..Len(t) : i = Len(s) + j
      BY <1>2, <3>1, <3>2, <3>4 DEF Leaves
    <3> QED BY <1>3, <3>3, <3>4
  <2>2. Leaves(s, V) \subseteq Leaves(whole, V)
    BY <1>2, <1>5 DEF Leaves
  <2>3. Leaves(t, V) \subseteq Leaves(whole, V)
    <3> SUFFICES ASSUME NEW k \in DOMAIN V, NEW j \in 1..Len(t), Produces(t[j], k)
                 PROVE  k \in Leaves(whole, V)
      BY <1>2 DEF Leaves
    <3> QED BY <1>2, <1>4 DEF Leaves
  <2> QED BY <2>1, <2>2, <2>3
<1> QED BY <1>8, <1>9 DEF whole

(* A plan of such steps under the letters a, b, c, ... runs, unless it is  *)
(* named too long.                                                         *)
LEMMA LetteredRuns ==
    ASSUME NEW steps, NEW V, NEW E, NEW maxSteps \in Nat,
           Good(steps, V, {}, E), steps # << >>, Len(steps) <= Padded,
           NEW plan, plan.version = 1, plan.steps = Lettered(steps),
           isNonEmptyString(plan.planId), plan.planId # TooLong \/ TooLong \in E
    PROVE  RunsUnless(plan, maxSteps, E)
<1> DEFINE lettered == Lettered(steps)
           n == Len(steps)
<1>1. n \in Nat /\ DOMAIN steps = 1..n /\ n # 0
  <2>1. n \in Nat /\ DOMAIN steps = 1..n /\ steps \in Seq(ToSet(steps))
    BY ArrayHasItems DEF Good, isArray
  <2> QED BY <2>1
<1> HIDE DEF n
<1>2. lettered = [i \in 1..n |-> [steps[i] EXCEPT !.id = i]]
  BY <1>1 DEF Lettered
<1>3. ASSUME NEW i \in 1..n
      PROVE  IsLettered(lettered[i], steps[i]) /\ lettered[i].id = i
  <2>1. i \in 1..Padded
    BY <1>1, <1>3 DEF n, Padded
  <2>2. "id" \in DOMAIN steps[i]
    BY <1>1 DEF Good, Fits
  <2>3. lettered[i] = [steps[i] EXCEPT !.id = i]
    BY <1>2, Zenon
  <2> HIDE DEF lettered
  <2>4. IsLettered([steps[i] EXCEPT !.id = i], steps[i]) /\ [steps[i] EXCEPT !.id = i].id = i
    BY <2>1, <2>2, Lettering
  <2> QED BY <2>3, <2>4, Zenon
<1>4. lettered = [i \in 1..n |-> lettered[i]]
  BY <1>2, Zenon
<1> HIDE DEF lettered
<1>5. isArray(lettered) /\ Len(lettered) = n /\ DOMAIN lettered = 1..n
  BY <1>1, <1>4, ListIsArray
<1>6. lettered # << >>
  BY <1>1, <1>5
<1>7. ASSUME NEW i \in 1..n
      PROVE  /\ Passes(lettered[i], E)
             /\ RunsWith(lettered[i], V, Below(lettered, i, V), E)
  <2>1. Fits(steps[i], V, {} \cup Earlier(steps, i, V), E)
    BY <1>1 DEF Good
  <2>2. Passes(lettered[i], E) /\ RunsWith(lettered[i], V, {} \cup Earlier(steps, i, V), E)
    BY <1>3, <2>1 DEF Fits
  <2>3. {} \cup Earlier(steps, i, V) \subseteq Below(lettered, i, V)
    <3> SUFFICES ASSUME NEW k \in DOMAIN V, NEW j \in 1..(i - 1), Produces(steps[j], k)
                 PROVE  k \in Below(lettered, i, V)
      BY DEF Earlier
    <3>1. j \in 1..n /\ j < i
      BY <1>1
    <3>2. Produces(lettered[j], k)
      BY <1>1, <1>3, <3>1 DEF Good, Fits
    <3>3. lettered[j].id < lettered[i].id
      BY <1>3, <3>1
    <3> QED BY <1>5, <3>1, <3>2, <3>3 DEF Below
  <2> QED BY <2>2, <2>3, RunsWithMore
<1>8. \A i, j \in 1..n : lettered[i].id = lettered[j].id => i = j
  BY <1>3
<1>9. plan.steps = lettered
  BY DEF lettered
<1> QED BY <1>5, <1>6, <1>7, <1>8, <1>9, PlansRun

-----------------------------------------------------------------------------
(* Paths and references.                                                   *)

(* The values on the way along a path are defined up to every field.       *)
LEMMA PathExists ==
    ASSUME NEW v, NEW path, NEW notFound, NEW n \in Nat
    PROVE  \E found : found = [i \in 0..n |-> IF i = 0 THEN Gives(v)
                                              ELSE FieldOf(found[i - 1], path[i], notFound)]
<1> DEFINE Is(found, k) == found = [i \in 0..k |-> IF i = 0 THEN Gives(v)
                                                   ELSE FieldOf(found[i - 1], path[i], notFound)]
<1> DEFINE T == {k \in Nat : ~ \E found : Is(found, k)}
<1>1. SUFFICES ASSUME T # {} PROVE FALSE
  BY DEF T
<1>2. PICK k \in T : \A j \in T : k <= j
  BY <1>1, LeastOf
<1>3. k # 0
  <2>1. Is([i \in 0..0 |-> Gives(v)], 0)
    OBVIOUS
  <2> QED BY <2>1
<1>4. PICK found : Is(found, k - 1)
  <2>1. k - 1 \in Nat /\ ~ (k <= k - 1)
    BY <1>3
  <2> QED BY <1>2, <2>1
<1> DEFINE longer == [i \in 0..k |-> IF i = 0 THEN Gives(v)
                                     ELSE FieldOf(found[i - 1], path[i], notFound)]
<1>5. Is(longer, k)
  <2>1. \A i \in 0..k : i # 0 => longer[i - 1] = found[i - 1]
    <3> SUFFICES ASSUME NEW i \in 0..k, i # 0 PROVE longer[i - 1] = found[i - 1]
      OBVIOUS
    <3>1. i - 1 \in 0..k /\ i - 1 \in 0..(k - 1)
      OBVIOUS
    <3> QED BY <1>4, <3>1
  <2> HIDE DEF longer
  <2>2. longer = [i \in 0..k |-> IF i = 0 THEN Gives(v)
                                 ELSE FieldOf(found[i - 1], path[i], notFound)]
    BY DEF longer
  <2> QED BY <2>1, <2>2
<1> QED BY <1>5

(* What extractPath makes of one, two and three fields.                    *)
LEMMA PathsOfFields ==
    ASSUME NEW v, NEW notFound, NEW a, NEW b, NEW c
    PROVE  /\ extractPath(v, << a >>, notFound) = FieldOf(Gives(v), a, notFound)
           /\ extractPath(v, << a, b >>, notFound) =
                  FieldOf(FieldOf(Gives(v), a, notFound), b, notFound)
           /\ extractPath(v, << a, b, c >>, notFound) =
                  FieldOf(FieldOf(FieldOf(Gives(v), a, notFound), b, notFound), c, notFound)
<1>1. ASSUME NEW path, Len(path) \in Nat
      PROVE  \E found : /\ found = [i \in 0..Len(path) |->
                                        IF i = 0 THEN Gives(v)
                                        ELSE FieldOf(found[i - 1], path[i], notFound)]
                        /\ extractPath(v, path, notFound) = found[Len(path)]
  <2> DEFINE found == CHOOSE f : f = [i \in 0..Len(path) |->
                                          IF i = 0 THEN Gives(v)
                                          ELSE FieldOf(f[i - 1], path[i], notFound)]
  <2>1. found = [i \in 0..Len(path) |-> IF i = 0 THEN Gives(v)
                                        ELSE FieldOf(found[i - 1], path[i], notFound)]
    BY <1>1, PathExists
  <2>2. extractPath(v, path, notFound) = found[Len(path)]
    BY DEF extractPath
  <2> HIDE DEF found
  <2> QED BY <2>1, <2>2
<1>2. extractPath(v, << a >>, notFound) = FieldOf(Gives(v), a, notFound)
  <2> DEFINE path == << a >>
  <2>1. Len(path) = 1 /\ path[1] = a
    OBVIOUS
  <2> HIDE DEF path
  <2>2. PICK found : /\ found = [i \in 0..1 |->
                                      IF i = 0 THEN Gives(v)
                                      ELSE FieldOf(found[i - 1], path[i], notFound)]
                     /\ extractPath(v, path, notFound) = found[1]
    BY <1>1, <2>1
  <2>3. found[0] = Gives(v) /\ found[1] = FieldOf(found[0], path[1], notFound)
    BY <2>2
  <2> QED BY <2>1, <2>2, <2>3 DEF path
<1>3. extractPath(v, << a, b >>, notFound) = FieldOf(FieldOf(Gives(v), a, notFound), b, notFound)
  <2> DEFINE path == << a, b >>
  <2>1. Len(path) = 2 /\ path[1] = a /\ path[2] = b
    OBVIOUS
  <2> HIDE DEF path
  <2>2. PICK found : /\ found = [i \in 0..2 |->
                                      IF i = 0 THEN Gives(v)
                                      ELSE FieldOf(found[i - 1], path[i], notFound)]
                     /\ extractPath(v, path, notFound) = found[2]
    BY <1>1, <2>1
  <2>3. /\ found[0] = Gives(v) /\ found[1] = FieldOf(found[0], path[1], notFound)
        /\ found[2] = FieldOf(found[1], path[2], notFound)
    BY <2>2
  <2> QED BY <2>1, <2>2, <2>3 DEF path
<1>4. extractPath(v, << a, b, c >>, notFound) =
          FieldOf(FieldOf(FieldOf(Gives(v), a, notFound), b, notFound), c, notFound)
  <2> DEFINE path == << a, b, c >>
  <2>1. Len(path) = 3 /\ path[1] = a /\ path[2] = b /\ path[3] = c
    OBVIOUS
  <2> HIDE DEF path
  <2>2. PICK found : /\ found = [i \in 0..3 |->
                                      IF i = 0 THEN Gives(v)
                                      ELSE FieldOf(found[i - 1], path[i], notFound)]
                     /\ extractPath(v, path, notFound) = found[3]
    BY <1>1, <2>1
  <2>3. /\ found[0] = Gives(v) /\ found[1] = FieldOf(found[0], path[1], notFound)
        /\ found[2] = FieldOf(found[1], path[2], notFound)
        /\ found[3] = FieldOf(found[2], path[3], notFound)
    BY <2>2
  <2> QED BY <2>1, <2>2, <2>3 DEF path
<1> QED BY <1>2, <1>3, <1>4

(* An object has its fields.                                               *)
LEMMA ObjectsHaveFields ==
    ASSUME NEW fields, NEW name \in DOMAIN fields, NEW notFound
    PROVE  /\ FieldOf(Gives(Object(fields)), name, notFound) = Gives(fields[name])
           /\ IsObject(Object(fields)) /\ Object(fields).fields = fields
           /\ ~ IsText(Object(fields)) /\ Object(fields) # NotJson
BY DEF FieldOf, Gives, Object, IsObject, IsText, NotJson

(* An argument that is no reference, or one to a field of what V gives,    *)
(* and what becomes of it.                                                 *)
Leads(v, given, V, K) ==
    \/ ~ IsRef(v) /\ given = v
    \/ \E key \in K : \E field, fields :
          /\ v = Ref(key, << field >>)
          /\ V[key] = JsonText(Object(fields))
          /\ field \in DOMAIN fields /\ given = fields[field]

(* References are resolved to what V gives.                                *)
LEMMA Resolves ==
    ASSUME NEW input, NEW given, NEW V, NEW K, NEW values,
           DOMAIN input = DOMAIN given, given = [argument \in DOMAIN given |-> given[argument]],
           \A argument \in DOMAIN input : Leads(input[argument], given[argument], V, K),
           \A k \in K : k \in DOMAIN values /\ values[k] = V[k]
    PROVE  resolveInputRefs(input, values) = Gives(given)
<1>1. ASSUME NEW v, NEW w, Leads(v, w, V, K) PROVE resolveArgument(v, values) = Gives(w)
  <2>1. CASE ~ IsRef(v) /\ w = v
    BY <2>1 DEF resolveArgument
  <2>2. CASE ~ (~ IsRef(v) /\ w = v)
    <3>1. PICK key \in K : \E field, fields :
             /\ v = Ref(key, << field >>) /\ V[key] = JsonText(Object(fields))
             /\ field \in DOMAIN fields /\ w = fields[field]
      BY <1>1, <2>2 DEF Leads
    <3>2. PICK field, fields :
             /\ v = Ref(key, << field >>) /\ V[key] = JsonText(Object(fields))
             /\ field \in DOMAIN fields /\ w = fields[field]
      BY <3>1
    <3> DEFINE path == << field >>
    <3>3. path # << >>
      OBVIOUS
    <3> HIDE DEF path
    <3>4. IsRef(v) /\ v.key = key /\ v.path = path
      BY <3>2 DEF Ref, IsRef, path
    <3>5. /\ key \in DOMAIN values /\ values[key].json = Object(fields)
          /\ Object(fields) # NotJson
      BY <3>2 DEF JsonText, Object, NotJson
    <3>6. resolveRef(v, values) = extractPath(Object(fields), path, "tool_input_ref_not_found")
      BY <3>3, <3>4, <3>5 DEF resolveRef
    <3>7. extractPath(Object(fields), path, "tool_input_ref_not_found") = Gives(w)
      <4>1. extractPath(Object(fields), path, "tool_input_ref_not_found") =
                FieldOf(Gives(Object(fields)), field, "tool_input_ref_not_found")
        BY PathsOfFields DEF path
      <4>2. FieldOf(Gives(Object(fields)), field, "tool_input_ref_not_found") = Gives(w)
        BY <3>2, ObjectsHaveFields
      <4> QED BY <4>1, <4>2
    <3> QED BY <3>4, <3>6, <3>7 DEF resolveArgument
  <2> QED BY <2>1, <2>2
<1> DEFINE resolved == [argument \in DOMAIN input |-> resolveArgument(input[argument], values)]
           failed == {argument \in DOMAIN input : ~ resolved[argument].ok}
<1>2. \A argument \in DOMAIN input : resolved[argument] = Gives(given[argument])
  BY <1>1
<1> HIDE DEF resolved
<1>3. failed = {}
  BY <1>2, PlanOrError
<1>4. [argument \in DOMAIN input |-> resolved[argument].value] = given
  BY <1>2, PlanOrError
<1>5. resolveInputRefs(input, values) =
          IF failed = {}
          THEN [ok |-> TRUE, value |-> [argument \in DOMAIN input |-> resolved[argument].value]]
          ELSE resolved[CHOOSE argument \in failed : TRUE]
  BY DEF resolveInputRefs, resolved
<1> HIDE DEF failed
<1> QED BY <1>3, <1>4, <1>5 DEF Gives

(* A tool that takes what its references lead to.                          *)
LEMMA YieldsThere ==
    ASSUME NEW toolId, NEW input, NEW given, NEW out, NEW key, NEW V, NEW K, NEW E,
           DOMAIN input = DOMAIN given, given = [argument \in DOMAIN given |-> given[argument]],
           \A argument \in DOMAIN input : Leads(input[argument], given[argument], V, K),
           registryRun(toolId, given) = Gives(out), key \in DOMAIN V => V[key] = JsonText(out)
    PROVE  Yields(toolId, input, key, V, K, E)
<1> SUFFICES ASSUME NEW values, \A k \in K : k \in DOMAIN values /\ values[k] = V[k]
             PROVE  resolveInputRefs(input, values) = Gives(given)
  BY DEF Yields
<1> QED BY Resolves

(* A tool whose input has no references.                                   *)
LEMMA YieldsAnyway ==
    ASSUME NEW toolId, NEW input, NEW out, NEW key, NEW V, NEW K, NEW E,
           input = [argument \in DOMAIN input |-> input[argument]],
           \A argument \in DOMAIN input : ~ IsRef(input[argument]),
           registryRun(toolId, input) = Gives(out), key \in DOMAIN V => V[key] = JsonText(out)
    PROVE  Yields(toolId, input, key, V, K, E)
<1>1. \A argument \in DOMAIN input : Leads(input[argument], input[argument], V, K)
  BY DEF Leads
<1> QED BY <1>1, YieldsThere

-----------------------------------------------------------------------------
(* What the tools give.                                                    *)

(* A lookup gives a record, found or not.                                  *)
LEMMA LookupRuns ==
    ASSUME NEW toolId \in Lookup, NEW input,
           LookupArgument(toolId) \in DOMAIN input, IsText(input[LookupArgument(toolId)])
    PROVE  \E out : registryRun(toolId, input) = Gives(out)
<1>1. validateInput(toolId, input)
  BY DEF validateInput, Lookup
<1>2. registryRun(toolId, input) = toolRun(toolId, input)
  BY <1>1 DEF registryRun, ToolId
<1>3. \E out : toolRun(toolId, input) = Gives(out)
  BY DEF toolRun, Lookup
<1> QED BY <1>2, <1>3

(* The echo of a value.                                                    *)
LEMMA EchoRuns ==
    ASSUME NEW v
    PROVE  registryRun("echo", [value |-> v]) = Gives(Object([value |-> v]))
<1> DEFINE input == [value |-> v]
<1>1. "value" \in DOMAIN input /\ input["value"] = v
  OBVIOUS
<1> HIDE DEF input
<1>2. validateInput("echo", input)
  BY <1>1 DEF validateInput, Lookup
<1>3. registryRun("echo", input) = toolRun("echo", input)
  BY <1>2 DEF registryRun, ToolId
<1>4. toolRun("echo", input) = Gives(Object([value |-> v]))
  BY <1>1 DEF toolRun, Lookup
<1> QED BY <1>3, <1>4 DEF input

(* A sum.                                                                  *)
LEMMA AddRuns == registryRun("math/add", AddInput) = Gives(Object([sum |-> Number]))
<1>1. /\ "a" \in DOMAIN AddInput /\ AddInput["a"] = Number
      /\ "b" \in DOMAIN AddInput /\ AddInput["b"] = Number
  BY DEF AddInput
<1>2. validateInput("math/add", AddInput)
  BY <1>1 DEF validateInput, Lookup
<1>3. registryRun("math/add", AddInput) = toolRun("math/add", AddInput)
  BY <1>2 DEF registryRun, ToolId
<1>4. toolRun("math/add", AddInput) = Gives(Object([sum |-> Number]))
  BY DEF toolRun, Lookup
<1> QED BY <1>3, <1>4

(* A text normalized.                                                      *)
LEMMA NormalizeRuns ==
    ASSUME NEW text, IsText(text)
    PROVE  registryRun("text/normalize", NormalizeInput(text)) = Gives(Object([text |-> text]))
<1> DEFINE input == NormalizeInput(text)
<1>1. /\ DOMAIN input = {"text", "trim", "lowercase", "collapseWhitespace"}
      /\ input["text"] = text
      /\ \A flag \in {"trim", "lowercase", "collapseWhitespace"} : input[flag] = Flag
  BY DEF NormalizeInput
<1> HIDE DEF input
<1>2. validateInput("text/normalize", input)
  BY <1>1 DEF validateInput, Lookup
<1>3. registryRun("text/normalize", input) = toolRun("text/normalize", input)
  BY <1>2 DEF registryRun, ToolId
<1>4. toolRun("text/normalize", input) = Gives(Object([text |-> text]))
  BY <1>1 DEF toolRun, Lookup
<1> QED BY <1>3, <1>4 DEF input

(* What a path leads to.                                                   *)
LEMMA ExtractRuns ==
    ASSUME NEW text, IsText(text), text.json # NotJson, NEW path, NEW w,
           extractPath(text.json, path, "json_extract_path_not_found") = Gives(w)
    PROVE  registryRun("json/extract", ExtractInput(text, path)) = Gives(Object([value |-> w]))
<1> DEFINE input == ExtractInput(text, path)
<1>1. /\ DOMAIN input = {"text", "path"} /\ input["text"] = text
      /\ input["path"].is = "names" /\ input["path"].names = path
  BY DEF ExtractInput, Names
<1> HIDE DEF input
<1>2. validateInput("json/extract", input)
  BY <1>1 DEF validateInput, Lookup
<1>3. registryRun("json/extract", input) = toolRun("json/extract", input)
  BY <1>2 DEF registryRun, ToolId
<1>4. toolRun("json/extract", input) = Gives(Object([value |-> w]))
  BY <1>1, PlanOrError DEF toolRun, Lookup
<1> QED BY <1>3, <1>4 DEF input

(* The fields of an object that are asked for.                             *)
LEMMA SelectRuns ==
    ASSUME NEW object, IsObject(object), ~ IsText(object), NEW keys
    PROVE  registryRun("json/select-keys", [text |-> object, keys |-> Names(keys)]) =
               Gives(Object([value |-> Selected(object, ToSet(keys))]))
<1> DEFINE input == [text |-> object, keys |-> Names(keys)]
<1>1. /\ DOMAIN input = {"text", "keys"} /\ input["text"] = object
      /\ input["keys"].is = "names" /\ input["keys"].names = keys
  BY DEF Names
<1> HIDE DEF input
<1>2. validateInput("json/select-keys", input)
  BY <1>1 DEF validateInput, Lookup
<1>3. registryRun("json/select-keys", input) = toolRun("json/select-keys", input)
  BY <1>2 DEF registryRun, ToolId
<1>4. Decoded(object) = object /\ DecodesToObject(object)
  BY DEF Decoded, DecodesToObject
<1>5. toolRun("json/select-keys", input) = Gives(Object([value |-> Selected(object, ToSet(keys))]))
  BY <1>1, <1>4 DEF toolRun, Lookup
<1> QED BY <1>3, <1>5 DEF input

(* An object merged with what the planner adds.                            *)
LEMMA MergeRuns ==
    ASSUME NEW object, IsObject(object), ~ IsText(object)
    PROVE  \E out : registryRun("json/merge", [left |-> object, right |-> extraJson]) = Gives(out)
<1> DEFINE input == [left |-> object, right |-> extraJson]
<1>1. DOMAIN input = {"left", "right"} /\ input["left"] = object /\ input["right"] = extraJson
  OBVIOUS
<1> HIDE DEF input
<1>2. IsText(extraJson) /\ DecodesToObject(extraJson)
  BY DEF extraJson, JsonText, IsText, DecodesToObject, Decoded, IsObject, Object
<1>3. validateInput("json/merge", input)
  BY <1>1, <1>2 DEF validateInput, Lookup
<1>4. registryRun("json/merge", input) = toolRun("json/merge", input)
  BY <1>3 DEF registryRun, ToolId
<1>5. DecodesToObject(object)
  BY DEF Decoded, DecodesToObject
<1>6. \E out : toolRun("json/merge", input) = Gives(out)
  BY <1>1, <1>2, <1>5 DEF toolRun, Lookup
<1> QED BY <1>4, <1>6 DEF input

(* A tool nobody registered.                                               *)
LEMMA MissingToolFails ==
    ASSUME NEW input
    PROVE  registryRun("nope/tool", input) = Fails("tool_not_found")
BY DEF registryRun, ToolId, Lookup

-----------------------------------------------------------------------------
(* The calls planners make.                                                *)

(* Values that are neither references nor missing.                         *)
IsPlain(v) == v.is \in {"text", "number", "boolean", "object", "names"}

(* The canonical plan takes them, and a reference to a key.                *)
LEMMA PlainIsCanonical ==
    ASSUME NEW v
    PROVE  /\ IsPlain(v) => isJsonValue(v) /\ CanonicalInput(v) /\ ~ IsRef(v)
           /\ \A key, field : v = Ref(key, << field >>) /\ key # "" =>
                  isJsonValue(v) /\ CanonicalInput(v)
<1>1. IsPlain(v) => isJsonValue(v) /\ CanonicalInput(v) /\ ~ IsRef(v)
  <2>1. \A key, path : Ref(key, path).is = "ref"
    BY DEF Ref
  <2>2. Undefined.is = "undefined" /\ Infinite.is = "infinite"
    BY DEF Undefined, Infinite
  <2> QED BY <2>1, <2>2 DEF IsPlain, isJsonValue, CanonicalInput, IsRef
<1>2. ASSUME NEW key, NEW field, v = Ref(key, << field >>), key # ""
      PROVE  isJsonValue(v) /\ CanonicalInput(v)
  <2>1. v.is = "ref" /\ v.key = key
    BY <1>2 DEF Ref
  <2>2. v # Undefined /\ v # Infinite
    BY <2>1 DEF Undefined, Infinite
  <2>3. v # Ref("", << >>)
    BY <1>2, <2>1 DEF Ref
  <2> QED BY <2>2, <2>3 DEF isJsonValue, CanonicalInput
<1> QED BY <1>1, <1>2

(* A call that gives what V has under its key.                             *)
LEMMA CallIsGood ==
    ASSUME NEW toolId, NEW input, NEW key, NEW V, NEW K, NEW E,
           normalizeStringStrict(toolId), normalizeStringStrict(key),
           CanonicalArguments(input), Yields(toolId, input, key, V, K, E)
    PROVE  /\ Good(Call(toolId, input, key), V, K, E)
           /\ key \in DOMAIN V => key \in Leaves(Call(toolId, input, key), V)
<1> DEFINE step == ToolCall(0, toolId, input, key)
<1>1. Fits(step, V, K, E) /\ \A k : Produces(step, k) <=> k = key
  BY ToolCallFits
<1> HIDE DEF step
<1>2. /\ Good(<< step >>, V, K, E)
      /\ \A k \in DOMAIN V : Produces(step, k) => k \in Leaves(<< step >>, V)
  BY <1>1, GoodOne
<1>3. Call(toolId, input, key) = << step >>
  BY DEF Call, step
<1> QED BY <1>1, <1>2, <1>3

(* A call whose input is plain.                                            *)
LEMMA PlainCallIsGood ==
    ASSUME NEW toolId, NEW input, NEW key, NEW out, NEW V, NEW E,
           normalizeStringStrict(toolId), normalizeStringStrict(key),
           input = [argument \in DOMAIN input |-> input[argument]],
           \A argument \in DOMAIN input : IsPlain(input[argument]),
           registryRun(toolId, input) = Gives(out), key \in DOMAIN V => V[key] = JsonText(out)
    PROVE  /\ Good(Call(toolId, input, key), V, {}, E)
           /\ key \in DOMAIN V => key \in Leaves(Call(toolId, input, key), V)
<1>1. CanonicalArguments(input)
  BY PlainIsCanonical DEF CanonicalArguments
<1>2. Yields(toolId, input, key, V, {}, E)
  BY PlainIsCanonical, YieldsAnyway
<1> QED BY <1>1, <1>2, CallIsGood

(* What the steps of a pipeline leave for each other, when what is         *)
(* normalized is the text.                                                 *)
ValuesOf(text) ==
    [normalizedJson |-> JsonText(Object([text |-> text])),
     extractedUser |-> JsonText(Object([value |-> User])),
     selected |-> JsonText(Object([value |-> Selected(User, ToSet(<< "name", "role" >>))]))]

(* These are the keys.                                                     *)
LEMMA KeysOfValues ==
    ASSUME NEW text
    PROVE  /\ DOMAIN ValuesOf(text) = {"normalizedJson", "extractedUser", "selected"}
           /\ ValuesOf(text)["normalizedJson"] = JsonText(Object([text |-> text]))
           /\ ValuesOf(text)["extractedUser"] = JsonText(Object([value |-> User]))
           /\ ValuesOf(text)["selected"] =
                  JsonText(Object([value |-> Selected(User, ToSet(<< "name", "role" >>))]))
BY DEF ValuesOf

(* Objects, texts and the like are plain.                                  *)
LEMMA PlainValues ==
    /\ \A v : IsPlain(JsonText(v)) /\ IsText(JsonText(v)) /\ JsonText(v).json = v
    /\ \A word : IsPlain(Text(word)) /\ IsText(Text(word))
    /\ \A fields : IsPlain(Object(fields))
    /\ \A names : IsPlain(Names(names))
    /\ IsPlain(Number) /\ IsPlain(Flag)
BY DEF IsPlain, JsonText, Text, IsText, Object, Names, Number, Flag

(* The texts the planners have, and what they say.                         *)
LEMMA TextsOfPlanners ==
    /\ IsText(rawJson) /\ IsPlain(rawJson)
    /\ IsText(UserAndItems) /\ IsPlain(UserAndItems) /\ IsPlain(extraJson)
    /\ \E meta : rawJson.json = Object([user |-> User, meta |-> meta])
    /\ \E items : /\ UserAndItems.json = Object([user |-> User, items |-> Object(items)])
                  /\ "0" \in DOMAIN items
                  /\ \E fields : items["0"] = Object(fields) /\ "id" \in DOMAIN fields
    /\ \E fields : User = Object(fields) /\ DOMAIN fields = {"name", "role"}
<1>1. IsText(rawJson) /\ IsPlain(rawJson)
  BY PlainValues DEF rawJson
<1>2. IsText(UserAndItems) /\ IsPlain(UserAndItems) /\ IsPlain(extraJson)
  BY PlainValues DEF UserAndItems, extraJson
<1>3. \E meta : rawJson.json = Object([user |-> User, meta |-> meta])
  <2>1. rawJson.json = Object([user |-> User, meta |-> Object([ok |-> Flag])])
    BY PlainValues DEF rawJson
  <2> QED BY <2>1
<1>4. \E items : /\ UserAndItems.json = Object([user |-> User, items |-> Object(items)])
                 /\ "0" \in DOMAIN items
                 /\ \E fields : items["0"] = Object(fields) /\ "id" \in DOMAIN fields
  <2> DEFINE items == [index \in {"0"} |-> Object([id |-> Text("a1")])]
  <2>1. UserAndItems.json = Object([user |-> User, items |-> Object(items)])
    BY PlainValues DEF UserAndItems
  <2>2. "0" \in DOMAIN items /\ items["0"] = Object([id |-> Text("a1")])
    OBVIOUS
  <2>3. "id" \in DOMAIN [id |-> Text("a1")]
    OBVIOUS
  <2> HIDE DEF items
  <2> QED BY <2>1, <2>2, <2>3
<1>5. \E fields : User = Object(fields) /\ DOMAIN fields = {"name", "role"}
  <2> DEFINE fields == [name |-> Text("Oscar"), role |-> Text("inventor")]
  <2>1. User = Object(fields)
    BY DEF User
  <2>2. DOMAIN fields = {"name", "role"}
    OBVIOUS
  <2> HIDE DEF fields
  <2> QED BY <2>1, <2>2
<1> QED BY <1>1, <1>2, <1>3, <1>4, <1>5

(* A text normalized, under any key.                                       *)
LEMMA NormalizeCall ==
    ASSUME NEW text, IsText(text), IsPlain(text), NEW V, NEW E, NEW key, normalizeStringStrict(key),
           key \in DOMAIN V => V[key] = JsonText(Object([text |-> text]))
    PROVE  /\ Good(Call("text/normalize", NormalizeInput(text), key), V, {}, E)
           /\ key \in DOMAIN V =>
                  key \in Leaves(Call("text/normalize", NormalizeInput(text), key), V)
<1> DEFINE input == NormalizeInput(text)
<1>1. input = [argument \in DOMAIN input |-> input[argument]]
  BY DEF NormalizeInput
<1>2. \A argument \in DOMAIN input : input[argument] = text \/ input[argument] = Flag
  BY DEF NormalizeInput
<1>3. registryRun("text/normalize", input) = Gives(Object([text |-> text]))
  BY NormalizeRuns
<1> HIDE DEF input
<1>4. \A argument \in DOMAIN input : IsPlain(input[argument])
  BY <1>2, PlainValues
<1>5. normalizeStringStrict("text/normalize")
  BY Zenon DEF normalizeStringStrict, TooLong
<1> QED BY <1>1, <1>3, <1>4, <1>5, PlainCallIsGood DEF input

(* A path followed in a text.                                              *)
LEMMA ExtractCall ==
    ASSUME NEW text, IsText(text), IsPlain(text), text.json # NotJson, NEW path, NEW w,
           extractPath(text.json, path, "json_extract_path_not_found") = Gives(w),
           NEW V, NEW E, NEW key, normalizeStringStrict(key),
           key \in DOMAIN V => V[key] = JsonText(Object([value |-> w]))
    PROVE  /\ Good(Call("json/extract", ExtractInput(text, path), key), V, {}, E)
           /\ key \in DOMAIN V =>
                  key \in Leaves(Call("json/extract", ExtractInput(text, path), key), V)
<1> DEFINE input == ExtractInput(text, path)
<1>1. input = [argument \in DOMAIN input |-> input[argument]]
  BY DEF ExtractInput
<1>2. \A argument \in DOMAIN input : input[argument] = text \/ input[argument] = Names(path)
  BY DEF ExtractInput
<1>3. registryRun("json/extract", input) = Gives(Object([value |-> w]))
  BY ExtractRuns
<1> HIDE DEF input
<1>4. \A argument \in DOMAIN input : IsPlain(input[argument])
  BY <1>2, PlainValues
<1>5. normalizeStringStrict("json/extract")
  BY Zenon DEF normalizeStringStrict, TooLong
<1> QED BY <1>1, <1>3, <1>4, <1>5, PlainCallIsGood DEF input

(* An input with one reference, to a field of what V gives under the key,  *)
(* and what becomes of it.                                                 *)
Refers(input, given, from, V) ==
    /\ normalizeStringStrict(from)
    /\ DOMAIN input = DOMAIN given /\ given = [argument \in DOMAIN given |-> given[argument]]
    /\ \E there, field, fields :
          /\ input[there] = Ref(from, << field >>)
          /\ V[from] = JsonText(Object(fields))
          /\ field \in DOMAIN fields /\ given[there] = fields[field]
          /\ \A argument \in DOMAIN input \ {there} :
                IsPlain(input[argument]) /\ given[argument] = input[argument]

(* A call with one reference.                                              *)
LEMMA CallThereIsGood ==
    ASSUME NEW toolId, NEW input, NEW given, NEW out, NEW key, NEW V, NEW E, NEW from,
           normalizeStringStrict(toolId), normalizeStringStrict(key), Refers(input, given, from, V),
           registryRun(toolId, given) = Gives(out), key \in DOMAIN V => V[key] = JsonText(out)
    PROVE  /\ Good(Call(toolId, input, key), V, {from}, E)
           /\ key \in DOMAIN V => key \in Leaves(Call(toolId, input, key), V)
<1>1. PICK there, field, fields :
          /\ input[there] = Ref(from, << field >>)
          /\ V[from] = JsonText(Object(fields))
          /\ field \in DOMAIN fields /\ given[there] = fields[field]
          /\ \A argument \in DOMAIN input \ {there} :
                IsPlain(input[argument]) /\ given[argument] = input[argument]
  BY DEF Refers
<1>2. isJsonValue(input[there]) /\ CanonicalInput(input[there])
  <2>1. from # ""
    BY Zenon DEF Refers, normalizeStringStrict
  <2> QED BY <1>1, <2>1, PlainIsCanonical
<1>3. CanonicalArguments(input)
  BY <1>1, <1>2, PlainIsCanonical DEF CanonicalArguments
<1>4. Leads(input[there], given[there], V, {from})
  BY <1>1 DEF Leads
<1>5. \A argument \in DOMAIN input \ {there} : Leads(input[argument], given[argument], V, {from})
  BY <1>1, PlainIsCanonical DEF Leads
<1>6. \A argument \in DOMAIN input : Leads(input[argument], given[argument], V, {from})
  BY <1>4, <1>5
<1>7. DOMAIN input = DOMAIN given /\ given = [argument \in DOMAIN given |-> given[argument]]
  BY DEF Refers
<1>8. Yields(toolId, input, key, V, {from}, E)
  BY <1>6, <1>7, YieldsThere
<1> QED BY <1>3, <1>8, CallIsGood

(* A path followed in what was normalized.                                 *)
LEMMA ExtractThere ==
    ASSUME NEW text, IsText(text), IsPlain(text), text.json # NotJson, NEW path, NEW w,
           extractPath(text.json, path, "json_extract_path_not_found") = Gives(w),
           NEW E, NEW key, normalizeStringStrict(key),
           key \in DOMAIN ValuesOf(text) => ValuesOf(text)[key] = JsonText(Object([value |-> w]))
    PROVE  LET call == Call("json/extract",
                            ExtractInput(Ref("normalizedJson", << "text" >>), path), key)
           IN  /\ Good(call, ValuesOf(text), {"normalizedJson"}, E)
               /\ key \in DOMAIN ValuesOf(text) => key \in Leaves(call, ValuesOf(text))
<1> DEFINE V == ValuesOf(text)
           ref == Ref("normalizedJson", << "text" >>)
           input == ExtractInput(ref, path)
           given == ExtractInput(text, path)
           fields == [text |-> text]
<1>1. given = [argument \in DOMAIN given |-> given[argument]] /\ given["text"] = text
  BY DEF ExtractInput
<1> HIDE DEF ref
<1>2. /\ DOMAIN input = {"text", "path"} /\ DOMAIN given = {"text", "path"}
      /\ input["text"] = ref /\ input["path"] = Names(path) /\ given["path"] = Names(path)
  BY DEF ExtractInput
<1>3. registryRun("json/extract", given) = Gives(Object([value |-> w]))
  BY ExtractRuns
<1>4. "text" \in DOMAIN fields /\ fields["text"] = text
  OBVIOUS
<1>5. V["normalizedJson"] = JsonText(Object(fields))
  BY KeysOfValues
<1>6. normalizeStringStrict("json/extract") /\ normalizeStringStrict("normalizedJson")
  BY Zenon DEF normalizeStringStrict, TooLong
<1>7. IsPlain(Names(path))
  BY PlainValues
<1> HIDE DEF input, given, fields, V
<1>8. \A argument \in DOMAIN input \ {"text"} :
         IsPlain(input[argument]) /\ given[argument] = input[argument]
  BY <1>2, <1>7
<1>9. key \in DOMAIN V => V[key] = JsonText(Object([value |-> w]))
  BY DEF V
<1>10. /\ Good(Call("json/extract", input, key), V, {"normalizedJson"}, E)
       /\ key \in DOMAIN V => key \in Leaves(Call("json/extract", input, key), V)
  <2> DEFINE out == Object([value |-> w])
             from == "normalizedJson"
             field == "text"
             there == "text"
  <2>1. registryRun("json/extract", given) = Gives(out) /\ (key \in DOMAIN V => V[key] = JsonText(out))
    BY <1>3, <1>9
  <2>2. input[there] = Ref(from, << field >>) /\ V[from] = JsonText(Object(fields))
    BY <1>2, <1>5 DEF ref
  <2>3. given[there] = fields[field] /\ field \in DOMAIN fields /\ DOMAIN input = DOMAIN given
    BY <1>1, <1>2, <1>4
  <2>4. \A argument \in DOMAIN input \ {there} :
           IsPlain(input[argument]) /\ given[argument] = input[argument]
    BY <1>8
  <2>5. normalizeStringStrict(from)
    BY <1>6
  <2> HIDE DEF out, from, field, there
  <2>6. Refers(input, given, from, V)
    BY <1>1, <2>2, <2>3, <2>4, <2>5 DEF Refers
  <2>7. Refers(input, given, "normalizedJson", V)
    BY <2>6 DEF from
  <2> QED BY <1>6, <2>1, <2>7, CallThereIsGood
<1> QED BY <1>10 DEF input, V, ref

(* Keys selected from what was extracted.                                  *)
LEMMA SelectThere ==
    ASSUME NEW text, NEW E
    PROVE  LET call == Call("json/select-keys",
                            [text |-> Ref("extractedUser", << "value" >>),
                             keys |-> Names(<< "name", "role" >>)], "selected")
           IN  /\ Good(call, ValuesOf(text), {"extractedUser"}, E)
               /\ "selected" \in Leaves(call, ValuesOf(text))
<1> DEFINE V == ValuesOf(text)
           names == Names(<< "name", "role" >>)
           ref == Ref("extractedUser", << "value" >>)
           input == [text |-> ref, keys |-> names]
           given == [text |-> User, keys |-> names]
           fields == [value |-> User]
           out == Object([value |-> Selected(User, ToSet(<< "name", "role" >>))])
<1>1. IsObject(User) /\ ~ IsText(User)
  BY DEF User, IsObject, IsText, Object
<1>2. registryRun("json/select-keys", given) = Gives(out)
  BY <1>1, SelectRuns
<1>3. IsPlain(names)
  BY PlainValues
<1> HIDE DEF names, ref
<1>4. given = [argument \in DOMAIN given |-> given[argument]] /\ given["text"] = User
  OBVIOUS
<1>5. /\ DOMAIN input = {"text", "keys"} /\ DOMAIN given = {"text", "keys"}
      /\ input["text"] = ref /\ input["keys"] = names /\ given["keys"] = names
  OBVIOUS
<1>6. "value" \in DOMAIN fields /\ fields["value"] = User
  OBVIOUS
<1>7. V["extractedUser"] = JsonText(Object(fields)) /\ "selected" \in DOMAIN V
  BY KeysOfValues
<1>8. V["selected"] = JsonText(out)
  BY KeysOfValues
<1>9. /\ normalizeStringStrict("json/select-keys") /\ normalizeStringStrict("selected")
      /\ normalizeStringStrict("extractedUser")
  BY Zenon DEF normalizeStringStrict, TooLong
<1> HIDE DEF input, given, fields, V, out
<1>10. \A argument \in DOMAIN input \ {"text"} :
          IsPlain(input[argument]) /\ given[argument] = input[argument]
  BY <1>3, <1>5
<1>11. /\ Good(Call("json/select-keys", input, "selected"), V, {"extractedUser"}, E)
       /\ "selected" \in Leaves(Call("json/select-keys", input, "selected"), V)
  <2> DEFINE from == "extractedUser"
             field == "value"
             there == "text"
  <2>1. input[there] = Ref(from, << field >>) /\ V[from] = JsonText(Object(fields))
    BY <1>5, <1>7 DEF ref
  <2>2. given[there] = fields[field] /\ field \in DOMAIN fields /\ DOMAIN input = DOMAIN given
    BY <1>4, <1>5, <1>6
  <2>3. \A argument \in DOMAIN input \ {there} :
           IsPlain(input[argument]) /\ given[argument] = input[argument]
    BY <1>10
  <2>4. normalizeStringStrict(from)
    BY <1>9
  <2> HIDE DEF from, field, there
  <2>5. Refers(input, given, from, V)
    BY <1>4, <2>1, <2>2, <2>3, <2>4 DEF Refers
  <2>6. Refers(input, given, "extractedUser", V)
    BY <2>5 DEF from
  <2> QED BY <1>2, <1>7, <1>8, <1>9, <2>6, CallThereIsGood
<1> QED BY <1>11 DEF input, V, ref, names

(* What was selected, or extracted, merged with what the planner adds.     *)
LEMMA MergeThere ==
    ASSUME NEW text, NEW E, NEW from \in {"selected", "extractedUser"}
    PROVE  Good(Call("json/merge", [left |-> Ref(from, << "value" >>), right |-> extraJson],
                     "merged"),
                ValuesOf(text), {from}, E)
<1> DEFINE V == ValuesOf(text)
           ref == Ref(from, << "value" >>)
<1>1. PICK object : IsObject(object) /\ ~ IsText(object) /\ V[from] = JsonText(Object([value |-> object]))
  <2>1. \A all : IsObject(Object(all)) /\ ~ IsText(Object(all))
    BY DEF IsObject, IsText, Object
  <2>2. IsObject(User) /\ ~ IsText(User)
    BY <2>1 DEF User
  <2>3. /\ IsObject(Selected(User, ToSet(<< "name", "role" >>)))
        /\ ~ IsText(Selected(User, ToSet(<< "name", "role" >>)))
    BY <2>1 DEF Selected
  <2>4. CASE from = "selected"
    BY <2>3, <2>4, KeysOfValues
  <2>5. CASE from = "extractedUser"
    BY <2>2, <2>5, KeysOfValues
  <2> QED BY <2>4, <2>5
<1> DEFINE input == [left |-> ref, right |-> extraJson]
           given == [left |-> object, right |-> extraJson]
           fields == [value |-> object]
<1>2. "merged" \notin DOMAIN V
  <2>1. DOMAIN V = {"normalizedJson", "extractedUser", "selected"}
    BY KeysOfValues
  <2> HIDE DEF V
  <2> QED BY <2>1
<1>3. IsPlain(extraJson)
  BY TextsOfPlanners
<1> HIDE DEF ref
<1>4. PICK out : registryRun("json/merge", given) = Gives(out)
  BY <1>1, MergeRuns
<1>5. given = [argument \in DOMAIN given |-> given[argument]] /\ given["left"] = object
  OBVIOUS
<1>6. /\ DOMAIN input = {"left", "right"} /\ DOMAIN given = {"left", "right"}
      /\ input["left"] = ref /\ input["right"] = extraJson /\ given["right"] = extraJson
  OBVIOUS
<1>7. "value" \in DOMAIN fields /\ fields["value"] = object /\ V[from] = JsonText(Object(fields))
  BY <1>1
<1>8. /\ normalizeStringStrict("json/merge") /\ normalizeStringStrict("merged")
      /\ normalizeStringStrict(from)
  BY Zenon DEF normalizeStringStrict, TooLong
<1> HIDE DEF input, given, fields, V
<1>9. \A argument \in DOMAIN input \ {"left"} :
         IsPlain(input[argument]) /\ given[argument] = input[argument]
  BY <1>3, <1>6
<1>10. Good(Call("json/merge", input, "merged"), V, {from}, E)
  <2> DEFINE field == "value"
             there == "left"
  <2>1. input[there] = Ref(from, << field >>) /\ V[from] = JsonText(Object(fields))
    BY <1>6, <1>7 DEF ref
  <2>2. given[there] = fields[field] /\ field \in DOMAIN fields /\ DOMAIN input = DOMAIN given
    BY <1>5, <1>6, <1>7
  <2>3. \A argument \in DOMAIN input \ {there} :
           IsPlain(input[argument]) /\ given[argument] = input[argument]
    BY <1>9
  <2> HIDE DEF field, there
  <2>4. Refers(input, given, from, V)
    BY <1>5, <1>8, <2>1, <2>2, <2>3 DEF Refers
  <2> QED BY <1>2, <1>4, <1>8, <2>4, CallThereIsGood
<1> QED BY <1>10 DEF input, V, ref

-----------------------------------------------------------------------------
(* The pieces plans are made of.                                           *)

(* n steps that need the keys K and leave the keys L.                      *)
Piece(steps, V, K, L, E, n) ==
    Good(steps, V, K, E) /\ L \subseteq Leaves(steps, V) /\ Len(steps) = n /\ n \in Nat

(* A piece after another one.                                              *)
LEMMA PieceThen ==
    ASSUME NEW s, NEW t, NEW V, NEW K, NEW L, NEW M, NEW N, NEW E, NEW m, NEW n, NEW l,
           Piece(s, V, {}, L, E, m), Piece(t, V, K, M, E, n),
           K \subseteq L, N \subseteq L \cup M, l = m + n
    PROVE  Piece(s \o t, V, {}, N, E, l)
<1>1. Good(s, V, {}, E) /\ Good(t, V, K, E) /\ K \subseteq {} \cup Leaves(s, V)
  BY DEF Piece
<1>2. Good(s \o t, V, {}, E) /\ Leaves(s \o t, V) = Leaves(s, V) \cup Leaves(t, V)
  BY <1>1, GoodThen
<1>3. Len(s \o t) = Len(s) + Len(t)
  BY <1>1, ArraysConcat DEF Good
<1> QED BY <1>2, <1>3 DEF Piece

(* Pieces that leave each other nothing.                                   *)
LEMMA PieceAndPiece ==
    ASSUME NEW s, NEW t, NEW V, NEW E, NEW m, NEW n, NEW l,
           Piece(s, V, {}, {}, E, m), Piece(t, V, {}, {}, E, n), l = m + n
    PROVE  Piece(s \o t, V, {}, {}, E, l)
<1>1. {} \subseteq {} /\ {} \subseteq {} \cup {}
  OBVIOUS
<1> QED BY <1>1, PieceThen

(* One step.                                                               *)
LEMMA PieceOfOne ==
    ASSUME NEW step, NEW V, NEW E, Fits(step, V, {}, E)
    PROVE  Piece(<< step >>, V, {}, {}, E, 1)
BY GoodOne, OneStep DEF Piece

(* Two steps.                                                              *)
LEMMA PieceOfTwo ==
    ASSUME NEW a, NEW b, NEW V, NEW E, Fits(a, V, {}, E), Fits(b, V, {}, E)
    PROVE  Piece(<< a, b >>, V, {}, {}, E, 2)
<1> DEFINE list == << a, b >>
<1>1. Len(list) = 2 /\ DOMAIN list = 1..2 /\ list[1] = a /\ list[2] = b
  OBVIOUS
<1>2. list = [i \in 1..2 |-> list[i]]
  OBVIOUS
<1> HIDE DEF list
<1>3. isArray(list)
  BY <1>2, ListIsArray
<1>4. ASSUME NEW i \in DOMAIN list PROVE Fits(list[i], V, {} \cup Earlier(list, i, V), E)
  <2>1. Fits(list[i], V, {}, E)
    BY <1>1, <1>4
  <2> QED BY <2>1, FitsWithMore
<1> QED BY <1>1, <1>3, <1>4 DEF Piece, Good, list

(* A plan of pieces runs.                                                  *)
LEMMA PiecesRun ==
    ASSUME NEW s, NEW plan, NEW V, NEW L, NEW E, NEW n, NEW maxSteps \in Nat,
           Piece(s, V, {}, L, E, n), n \in 1..Padded,
           plan.version = 1, plan.steps = Lettered(s),
           isNonEmptyString(plan.planId), plan.planId # TooLong \/ TooLong \in E
    PROVE  RunsUnless(plan, maxSteps, E)
<1>1. Good(s, V, {}, E) /\ Len(s) = n
  BY DEF Piece
<1>2. s # << >> /\ Len(s) <= Padded
  BY <1>1 DEF Padded
<1> QED BY <1>1, <1>2, LetteredRuns

(* Most plans have the same id.                                            *)
LEMMA PieceRuns ==
    ASSUME NEW s, NEW V, NEW L, NEW E, NEW n, NEW maxSteps \in Nat,
           Piece(s, V, {}, L, E, n), n \in 1..Padded
    PROVE  RunsUnless(Plan(Lettered(s)), maxSteps, E)
<1> DEFINE plan == Plan(Lettered(s))
<1>1. plan.version = 1 /\ plan.steps = Lettered(s) /\ plan.planId = "plan"
  BY DEF Plan
<1>2. normalizeStringStrict("plan")
  BY Zenon DEF normalizeStringStrict, TooLong
<1> HIDE DEF plan
<1>3. isNonEmptyString(plan.planId) /\ plan.planId # TooLong
  BY <1>1, <1>2, StrictStrings
<1>4. RunsUnless(plan, maxSteps, E)
  BY <1>1, <1>3, PiecesRun
<1> QED BY <1>4 DEF plan

(* A call is a piece.                                                      *)
LEMMA CallIsOne ==
    ASSUME NEW toolId, NEW input, NEW key
    PROVE  Len(Call(toolId, input, key)) = 1
BY OneStep DEF Call

(* The names of the tools and of what the steps of a pipeline leave.       *)
LEMMA NamesAreStrict ==
    \A name \in {"math/add", "echo", "nope/tool", "text/normalize", "json/extract",
                 "json/select-keys", "json/merge", "normalizedJson", "extractedUser", "selected"} :
        normalizeStringStrict(name)
BY Zenon DEF normalizeStringStrict, TooLong

(* The keys a plan has of its own.                                         *)
LEMMA OtherKeys ==
    ASSUME NEW text, NEW key \in {"goal", "intent", "title", "lastErrorCode", "sum", "output", "out",
                                  "normalized", "extracted", "merged", "productLookup",
                                  "priceLookup", "availabilityLookup", "orderLookup",
                                  "knowledgeLookup"}
    PROVE  key \notin DOMAIN ValuesOf(text) /\ normalizeStringStrict(key)
<1>1. DOMAIN ValuesOf(text) = {"normalizedJson", "extractedUser", "selected"}
  BY KeysOfValues
<1>2. normalizeStringStrict(key)
  BY Zenon DEF normalizeStringStrict, TooLong
<1> QED BY <1>1, <1>2

(* What goals become.                                                      *)
Intent == {"sandbox", "compute", "extract-chain", "extract-merge", "cap-synth", "extract",
           "normalize", "core"}

(* deriveIntent makes one of these of a goal.                              *)
LEMMA GoalsHaveIntent ==
    ASSUME NEW goal
    PROVE  deriveIntent(goal) \in Intent
BY DEF deriveIntent, Intent

(* What stands for plans that are refused because of a string that is too  *)
(* long: the goal's, or that of the code a second plan is made for.        *)
LongGoal(goal) == IF "long" \in goal THEN {TooLong} ELSE {}
LongCode(code) == IF code = LongToolError THEN {TooLong} ELSE {}

(* The values and words plans have of their own are not too long.          *)
LEMMA ShortTexts ==
    \A word \in Intent \cup {"goal", "error", "done", "planned", "replan2", "inserted"} :
        normalizeStringStrict(word) /\ CanonicalValue(Text(word))
<1> SUFFICES ASSUME NEW word \in Intent \cup {"goal", "error", "done", "planned", "replan2", "inserted"}
             PROVE  normalizeStringStrict(word) /\ CanonicalValue(Text(word))
  OBVIOUS
<1>1. normalizeStringStrict(word)
  BY Zenon DEF normalizeStringStrict, TooLong, Intent
<1>2. \A other : Text(word) = Text(other) => word = other
  <2>1. \A other : Text(other).word = other
    BY DEF Text
  <2> QED BY <2>1
<1>3. word # "" /\ word # TooLong
  BY <1>1, Zenon DEF normalizeStringStrict
<1> QED BY <1>1, <1>2, <1>3, Zenon DEF CanonicalValue

(* The goal is kept, unless it is too long.                                *)
LEMMA SetGoalFits ==
    ASSUME NEW goal, NEW text, NEW E, LongGoal(goal) \subseteq E
    PROVE  Fits(SetGoal(goal), ValuesOf(text), {}, E)
<1> DEFINE v == GoalText(goal)
           key == "goal"
           V == ValuesOf(text)
<1>1. CanonicalValue(v) \/ TooLong \in E
  <2>1. CASE "long" \in goal
    BY <2>1 DEF LongGoal
  <2>2. CASE "long" \notin goal
    <3>1. v = Text("goal")
      BY <2>2 DEF GoalText
    <3> QED BY <3>1, ShortTexts
  <2> QED BY <2>1, <2>2
<1>2. normalizeStringStrict(key) /\ key \notin DOMAIN V
  BY OtherKeys
<1> HIDE DEF v, key, V
<1>3. Fits(Set(0, key, v), V, {}, E)
  BY <1>1, <1>2, SetFits
<1> QED BY <1>3 DEF SetGoal, v, key, V

(* The first two steps of most plans.                                      *)
LEMMA AboutGoalPiece ==
    ASSUME NEW goal, NEW intent \in Intent, NEW text, NEW E, LongGoal(goal) \subseteq E
    PROVE  Piece(AboutGoal(goal, intent), ValuesOf(text), {}, {}, E, 2)
<1> DEFINE V == ValuesOf(text)
           a == SetGoal(goal)
           b == Set(0, "intent", Text(intent))
<1>1. Fits(a, V, {}, E)
  BY SetGoalFits
<1>2. CanonicalValue(Text(intent))
  BY ShortTexts DEF Intent
<1>3. normalizeStringStrict("intent") /\ "intent" \notin DOMAIN V
  BY OtherKeys
<1> HIDE DEF V
<1>4. Fits(b, V, {}, E)
  BY <1>2, <1>3, SetFits
<1> HIDE DEF a, b
<1>5. Piece(<< a, b >>, V, {}, {}, E, 2)
  BY <1>1, <1>4, PieceOfTwo
<1> QED BY <1>5 DEF AboutGoal, V, a, b

(* A word for the log.                                                     *)
LEMMA LogPiece ==
    ASSUME NEW word \in {"done", "planned", "replan2"}, NEW V, NEW E
    PROVE  Piece(Log(word), V, {}, {}, E, 1)
<1> DEFINE step == AppendLog(0, word)
<1>1. normalizeStringStrict(word)
  BY ShortTexts
<1>2. Fits(step, V, {}, E)
  BY <1>1, AppendLogFits
<1> HIDE DEF step
<1>3. Piece(<< step >>, V, {}, {}, E, 1)
  BY <1>2, PieceOfOne
<1> QED BY <1>3 DEF Log, step

(* The echo of a text.                                                     *)
LEMMA EchoPiece ==
    ASSUME NEW word, NEW key \in {"output", "sum"}, NEW text, NEW E
    PROVE  Piece(Call("echo", [value |-> Text(word)], key), ValuesOf(text), {}, {}, E, 1)
<1> DEFINE input == [value |-> Text(word)]
           V == ValuesOf(text)
<1>1. registryRun("echo", input) = Gives(Object([value |-> Text(word)]))
  BY EchoRuns
<1>2. input = [argument \in DOMAIN input |-> input[argument]]
  OBVIOUS
<1>3. \A argument \in DOMAIN input : input[argument] = Text(word)
  OBVIOUS
<1>4. normalizeStringStrict("echo") /\ normalizeStringStrict(key) /\ key \notin DOMAIN V
  BY OtherKeys, NamesAreStrict
<1> HIDE DEF input, V
<1>5. \A argument \in DOMAIN input : IsPlain(input[argument])
  BY <1>3, PlainValues
<1>6. Good(Call("echo", input, key), V, {}, E)
  BY <1>1, <1>2, <1>4, <1>5, PlainCallIsGood
<1> QED BY <1>6, CallIsOne DEF Piece, input, V

(* The arguments of a sum.                                                 *)
LEMMA AddInputPlain ==
    /\ AddInput = [argument \in DOMAIN AddInput |-> AddInput[argument]]
    /\ \A argument \in DOMAIN AddInput : IsPlain(AddInput[argument])
<1>1. \A argument \in DOMAIN AddInput : AddInput[argument] = Number
  BY DEF AddInput
<1> QED BY <1>1, PlainValues DEF AddInput

(* A sum.                                                                  *)
LEMMA AddPiece ==
    ASSUME NEW text, NEW E
    PROVE  Piece(Call("math/add", AddInput, "sum"), ValuesOf(text), {}, {}, E, 1)
<1> DEFINE V == ValuesOf(text)
<1>1. normalizeStringStrict("math/add") /\ normalizeStringStrict("sum") /\ "sum" \notin DOMAIN V
  BY OtherKeys, NamesAreStrict
<1> HIDE DEF V
<1>2. Good(Call("math/add", AddInput, "sum"), V, {}, E)
  BY <1>1, AddRuns, AddInputPlain, PlainCallIsGood
<1> QED BY <1>2, CallIsOne DEF Piece, V

(* The same sum over and over.                                             *)
LEMMA AddLoopPiece ==
    ASSUME NEW text, NEW E
    PROVE  Piece(<< ToolLoop(0, "math/add", AddInput, "sum", 10) >>, ValuesOf(text), {}, {}, E, 1)
<1> DEFINE V == ValuesOf(text)
           step == ToolLoop(0, "math/add", AddInput, "sum", 10)
<1>1. normalizeStringStrict("math/add") /\ normalizeStringStrict("sum") /\ "sum" \notin DOMAIN V
  BY OtherKeys, NamesAreStrict
<1> HIDE DEF V
<1>2. CanonicalArguments(AddInput)
  BY AddInputPlain, PlainIsCanonical DEF CanonicalArguments
<1>3. Yields("math/add", AddInput, "sum", V, {}, E)
  BY <1>1, AddRuns, AddInputPlain, PlainIsCanonical, YieldsAnyway
<1>4. 10 > 0
  OBVIOUS
<1>5. Fits(step, V, {}, E)
  BY <1>1, <1>2, <1>3, <1>4, ToolLoopFits
<1> HIDE DEF step
<1>6. Piece(<< step >>, V, {}, {}, E, 1)
  BY <1>5, PieceOfOne
<1> QED BY <1>6 DEF step, V

(* The call of a tool nobody registered.                                   *)
LEMMA MissingToolPiece ==
    ASSUME NEW text, NEW E, "tool_not_found" \in E
    PROVE  Piece(MissingTool, ValuesOf(text), {}, {}, E, 1)
<1> DEFINE V == ValuesOf(text)
           input == [x |-> Number]
<1>1. normalizeStringStrict("nope/tool") /\ normalizeStringStrict("out")
  BY Zenon DEF normalizeStringStrict, TooLong
<1>2. input = [argument \in DOMAIN input |-> input[argument]]
  OBVIOUS
<1>3. \A argument \in DOMAIN input : input[argument] = Number
  OBVIOUS
<1> HIDE DEF V, input
<1>4. \A argument \in DOMAIN input : IsPlain(input[argument])
  BY <1>3, PlainValues
<1>5. CanonicalArguments(input)
  BY <1>4, PlainIsCanonical DEF CanonicalArguments
<1>6. \A argument \in DOMAIN input : Leads(input[argument], input[argument], V, {})
  BY <1>4, PlainIsCanonical DEF Leads
<1>7. Yields("nope/tool", input, "out", V, {}, E)
  <2> SUFFICES ASSUME NEW values
               PROVE  /\ resolveInputRefs(input, values) = Gives(input)
                      /\ \E e \in E \ {TooLong} : registryRun("nope/tool", input) = Fails(e)
    BY DEF Yields
  <2>1. resolveInputRefs(input, values) = Gives(input)
    BY <1>2, <1>6, Resolves
  <2>2. "tool_not_found" \in E \ {TooLong}
    BY DEF TooLong
  <2> QED BY <2>1, <2>2, MissingToolFails
<1>8. Good(Call("nope/tool", input, "out"), V, {}, E)
  BY <1>1, <1>5, <1>7, CallIsGood
<1> QED BY <1>8, CallIsOne DEF Piece, V, input, MissingTool

-----------------------------------------------------------------------------
(* Plans that are no pipeline.                                             *)

(* The paths planners ask for lead somewhere.                              *)
LEMMA PathsLead ==
    ASSUME NEW notFound
    PROVE  /\ extractPath(rawJson.json, << "user" >>, notFound) = Gives(User)
           /\ rawJson.json # NotJson /\ UserAndItems.json # NotJson
           /\ \A field \in {"name", "role"} : \E w :
                 extractPath(UserAndItems.json, << "user", field >>, notFound) = Gives(w)
           /\ \E w : extractPath(UserAndItems.json, << "items", "0", "id" >>, notFound) = Gives(w)
<1>1. PICK meta : rawJson.json = Object([user |-> User, meta |-> meta])
  BY TextsOfPlanners
<1>2. PICK items, fields : /\ UserAndItems.json = Object([user |-> User, items |-> Object(items)])
                           /\ "0" \in DOMAIN items
                           /\ items["0"] = Object(fields) /\ "id" \in DOMAIN fields
  BY TextsOfPlanners
<1>3. PICK user : User = Object(user) /\ DOMAIN user = {"name", "role"}
  BY TextsOfPlanners
<1>4. extractPath(rawJson.json, << "user" >>, notFound) = Gives(User)
  <2> DEFINE raw == [user |-> User, meta |-> meta]
  <2>1. "user" \in DOMAIN raw /\ raw["user"] = User
    OBVIOUS
  <2> HIDE DEF raw
  <2>2. FieldOf(Gives(Object(raw)), "user", notFound) = Gives(User)
    BY <2>1, ObjectsHaveFields
  <2>3. extractPath(Object(raw), << "user" >>, notFound) =
            FieldOf(Gives(Object(raw)), "user", notFound)
    BY PathsOfFields
  <2> QED BY <1>1, <2>2, <2>3 DEF raw
<1> DEFINE all == [user |-> User, items |-> Object(items)]
<1>5. /\ "user" \in DOMAIN all /\ all["user"] = User
      /\ "items" \in DOMAIN all /\ all["items"] = Object(items)
  OBVIOUS
<1>6. UserAndItems.json = Object(all)
  BY <1>2
<1> HIDE DEF all
<1>7. /\ FieldOf(Gives(Object(all)), "user", notFound) = Gives(Object(user))
      /\ FieldOf(Gives(Object(all)), "items", notFound) = Gives(Object(items))
  BY <1>3, <1>5, ObjectsHaveFields
<1>8. ASSUME NEW field \in {"name", "role"}
      PROVE  extractPath(UserAndItems.json, << "user", field >>, notFound) = Gives(user[field])
  <2>1. FieldOf(Gives(Object(user)), field, notFound) = Gives(user[field])
    BY <1>3, ObjectsHaveFields
  <2>2. extractPath(Object(all), << "user", field >>, notFound) =
            FieldOf(FieldOf(Gives(Object(all)), "user", notFound), field, notFound)
    BY PathsOfFields
  <2> QED BY <1>6, <1>7, <2>1, <2>2
<1>9. extractPath(UserAndItems.json, << "items", "0", "id" >>, notFound) = Gives(fields["id"])
  <2>1. FieldOf(Gives(Object(items)), "0", notFound) = Gives(Object(fields))
    BY <1>2, ObjectsHaveFields
  <2>2. FieldOf(Gives(Object(fields)), "id", notFound) = Gives(fields["id"])
    BY <1>2, ObjectsHaveFields
  <2>3. extractPath(Object(all), << "items", "0", "id" >>, notFound) =
            FieldOf(FieldOf(FieldOf(Gives(Object(all)), "items", notFound), "0", notFound), "id", notFound)
    BY PathsOfFields
  <2> QED BY <1>6, <1>7, <2>1, <2>2, <2>3
<1>10. rawJson.json # NotJson /\ UserAndItems.json # NotJson
  BY <1>1, <1>2, ObjectsHaveFields DEF NotJson, Object
<1> QED BY <1>4, <1>8, <1>9, <1>10

(* The text of the planners normalized.                                    *)
LEMMA NormalizedPiece ==
    ASSUME NEW text \in {rawJson, UserAndItems}, NEW E
    PROVE  Piece(Normalized(text), ValuesOf(text), {}, {"normalizedJson"}, E, 1)
<1> DEFINE V == ValuesOf(text)
           key == "normalizedJson"
           call == Call("text/normalize", NormalizeInput(text), key)
<1>1. IsText(text) /\ IsPlain(text)
  BY TextsOfPlanners
<1>2. key \in DOMAIN V /\ V[key] = JsonText(Object([text |-> text])) /\ normalizeStringStrict(key)
  BY KeysOfValues, NamesAreStrict
<1> HIDE DEF V, key
<1>3. Good(call, V, {}, E) /\ key \in Leaves(call, V)
  BY <1>1, <1>2, NormalizeCall
<1>4. Piece(call, V, {}, {key}, E, 1)
  BY <1>3, CallIsOne DEF Piece
<1> QED BY <1>4 DEF V, key, Normalized

(* The user extracted from what was normalized.                            *)
LEMMA ExtractUserPiece ==
    ASSUME NEW E
    PROVE  Piece(Call("json/extract", ExtractInput(FromNormalized, << "user" >>), "extractedUser"),
                 ValuesOf(rawJson), {"normalizedJson"}, {"extractedUser"}, E, 1)
<1> DEFINE V == ValuesOf(rawJson)
           key == "extractedUser"
           path == << "user" >>
           call == Call("json/extract", ExtractInput(Ref("normalizedJson", << "text" >>), path), key)
<1>1. IsText(rawJson) /\ IsPlain(rawJson) /\ rawJson.json # NotJson
  BY TextsOfPlanners, PathsLead
<1>2. extractPath(rawJson.json, path, "json_extract_path_not_found") = Gives(User)
  BY PathsLead
<1>3. key \in DOMAIN V /\ V[key] = JsonText(Object([value |-> User])) /\ normalizeStringStrict(key)
  BY KeysOfValues, NamesAreStrict
<1> HIDE DEF key, path
<1>4. /\ Good(call, V, {"normalizedJson"}, E)
      /\ key \in DOMAIN V => key \in Leaves(call, V)
  BY <1>1, <1>2, <1>3, ExtractThere
<1> HIDE DEF V
<1>5. Piece(call, V, {"normalizedJson"}, {key}, E, 1)
  BY <1>3, <1>4, CallIsOne DEF Piece
<1> QED BY <1>5 DEF V, key, path, FromNormalized

(* What the mock model calls for a goal that is no pipeline.               *)
LEMMA CallsPiece ==
    ASSUME NEW goal, NEW intent \in Intent \ {"cap-synth"}, NEW E
    PROVE  \E text : \E n \in 1..3 :
               Piece(CallsOfIntent(goal, intent), ValuesOf(text), {}, {}, E, n)
<1> DEFINE calls == CallsOfIntent(goal, intent)
           notFound == "json_extract_path_not_found"
<1>0. 1 \in 1..3 /\ 2 \in 1..3 /\ 3 \in 1..3
  OBVIOUS
<1>1. CASE intent = "compute"
  <2>1. calls = Call("math/add", AddInput, "sum")
    BY <1>1 DEF CallsOfIntent
  <2>2. Piece(calls, ValuesOf(rawJson), {}, {}, E, 1)
    BY <2>1, AddPiece
  <2> HIDE DEF calls
  <2> QED BY <1>0, <2>2, Zenon DEF calls
<1>2. CASE intent \in {"sandbox", "core"}
  <2>1. calls = Call("echo", [value |-> Text("intent")], "output")
    BY <1>2 DEF CallsOfIntent
  <2>2. Piece(calls, ValuesOf(rawJson), {}, {}, E, 1)
    BY <2>1, EchoPiece
  <2> HIDE DEF calls
  <2> QED BY <1>0, <2>2, Zenon DEF calls
<1>3. CASE intent = "normalize"
  <2> DEFINE text == GoalText(goal)
             V == ValuesOf(text)
             key == "normalized"
  <2>1. calls = Call("text/normalize", NormalizeInput(text), key)
    BY <1>3 DEF CallsOfIntent
  <2>2. IsText(text) /\ IsPlain(text) /\ key \notin DOMAIN V /\ normalizeStringStrict(key)
    BY PlainValues, OtherKeys DEF GoalText
  <2> HIDE DEF calls, V, text, key
  <2>3. Good(Call("text/normalize", NormalizeInput(text), key), V, {}, E)
    BY <2>2, NormalizeCall
  <2>4. Piece(calls, V, {}, {}, E, 1)
    BY <2>1, <2>3, CallIsOne DEF Piece
  <2> QED BY <1>0, <2>4, Zenon DEF V, calls
<1>4. CASE intent = "extract"
  <2> DEFINE path == ExtractPath(goal)
             V == ValuesOf(UserAndItems)
             key == "extracted"
  <2>1. calls = Call("json/extract", ExtractInput(UserAndItems, path), key)
    BY <1>4 DEF CallsOfIntent
  <2>2. \/ path = << "user", "name" >> \/ path = << "user", "role" >>
        \/ path = << "items", "0", "id" >>
    BY DEF ExtractPath
  <2> HIDE DEF path
  <2>3. \E w : extractPath(UserAndItems.json, path, notFound) = Gives(w)
    <3>1. CASE path = << "user", "name" >>
      BY <3>1, PathsLead
    <3>2. CASE path = << "user", "role" >>
      BY <3>2, PathsLead
    <3>3. CASE path = << "items", "0", "id" >>
      BY <3>3, PathsLead
    <3> QED BY <2>2, <3>1, <3>2, <3>3
  <2>4. PICK w : extractPath(UserAndItems.json, path, notFound) = Gives(w)
    BY <2>3
  <2>5. IsText(UserAndItems) /\ IsPlain(UserAndItems) /\ UserAndItems.json # NotJson
    BY TextsOfPlanners, PathsLead
  <2>6. key \notin DOMAIN V /\ normalizeStringStrict(key)
    BY OtherKeys
  <2> HIDE DEF calls, V, key
  <2>7. Good(Call("json/extract", ExtractInput(UserAndItems, path), key), V, {}, E)
    BY <2>4, <2>5, <2>6, ExtractCall
  <2>8. Piece(calls, V, {}, {}, E, 1)
    BY <2>1, <2>7, CallIsOne DEF Piece
  <2> QED BY <1>0, <2>8, Zenon DEF V, calls
<1>5. CASE intent = "extract-merge"
  <2> DEFINE V == ValuesOf(rawJson)
             a == Normalized(rawJson)
             b == Call("json/extract", ExtractInput(FromNormalized, << "user" >>), "extractedUser")
             c == Call("json/merge", [left |-> Ref("extractedUser", << "value" >>),
                                      right |-> extraJson], "merged")
  <2>1. calls = a \o b \o c
    BY <1>5 DEF CallsOfIntent
  <2>2. Piece(a, V, {}, {"normalizedJson"}, E, 1)
    BY NormalizedPiece
  <2>3. Piece(b, V, {"normalizedJson"}, {"extractedUser"}, E, 1)
    BY ExtractUserPiece
  <2>4. Piece(c, V, {"extractedUser"}, {}, E, 1)
    BY MergeThere, CallIsOne DEF Piece
  <2> HIDE DEF a, b, c, V, calls
  <2>5. Piece(a \o b, V, {}, {"extractedUser"}, E, 2)
    BY <2>2, <2>3, PieceThen
  <2>6. Piece(a \o b \o c, V, {}, {}, E, 3)
    BY <2>4, <2>5, PieceThen
  <2> QED BY <1>0, <2>1, <2>6, Zenon DEF V, calls
<1>6. CASE intent = "extract-chain"
  <2> DEFINE V == ValuesOf(UserAndItems)
             field == IF "role" \in goal THEN "role" ELSE "name"
             path == << "user", field >>
             key == "extracted"
             a == Normalized(UserAndItems)
             b == Call("json/extract", ExtractInput(FromNormalized, path), key)
  <2>1. calls = a \o b
    BY <1>6 DEF CallsOfIntent
  <2>2. Piece(a, V, {}, {"normalizedJson"}, E, 1)
    BY NormalizedPiece
  <2>3. PICK w : extractPath(UserAndItems.json, path, notFound) = Gives(w)
    <3>1. field \in {"name", "role"}
      OBVIOUS
    <3> HIDE DEF field
    <3> QED BY <3>1, PathsLead
  <2>4. IsText(UserAndItems) /\ IsPlain(UserAndItems) /\ UserAndItems.json # NotJson
    BY TextsOfPlanners, PathsLead
  <2>5. key \notin DOMAIN V /\ normalizeStringStrict(key)
    BY OtherKeys
  <2> HIDE DEF path, key
  <2>6. Good(Call("json/extract", ExtractInput(Ref("normalizedJson", << "text" >>), path), key),
             V, {"normalizedJson"}, E)
    BY <2>3, <2>4, <2>5, ExtractThere
  <2>7. Piece(b, V, {"normalizedJson"}, {}, E, 1)
    BY <2>6, CallIsOne DEF Piece, FromNormalized
  <2> HIDE DEF a, b, V, calls
  <2>8. Piece(a \o b, V, {}, {}, E, 2)
    BY <2>2, <2>7, PieceThen
  <2> QED BY <1>0, <2>1, <2>8, Zenon DEF V, calls
<1> QED BY <1>1, <1>2, <1>3, <1>4, <1>5, <1>6 DEF Intent

(* How long the pieces are together.                                       *)
LEMMA Sums == 2 = 1 + 1 /\ 3 = 2 + 1 /\ 4 = 3 + 1 /\ 5 = 4 + 1 /\ 6 = 5 + 1
OBVIOUS

(* The plan of calls that are a piece.                                     *)
LEMMA PlannedRuns ==
    ASSUME NEW goal, NEW intent \in Intent, NEW calls, NEW text, NEW E, NEW n \in 1..3,
           NEW maxSteps \in Nat, LongGoal(goal) \subseteq E,
           Piece(calls, ValuesOf(text), {}, {}, E, n)
    PROVE  RunsUnless(Planned(goal, intent, calls), maxSteps, E)
<1> DEFINE V == ValuesOf(text)
           a == AboutGoal(goal, intent)
           b == Log("planned")
           c == Log("done")
<1>1. Piece(a, V, {}, {}, E, 2) /\ Piece(b, V, {}, {}, E, 1) /\ Piece(c, V, {}, {}, E, 1)
  BY AboutGoalPiece, LogPiece
<1> HIDE DEF a, b, c, V
<1>2. Piece(a \o b, V, {}, {}, E, 3)
  BY <1>1, Sums, PieceAndPiece
<1>3. Piece(calls, V, {}, {}, E, n)
  BY DEF V
<1>4. Piece(a \o b \o calls, V, {}, {}, E, 3 + n)
  BY <1>2, <1>3, Sums, PieceAndPiece
<1>5. Piece(a \o b \o calls \o c, V, {}, {}, E, (3 + n) + 1)
  <2> DEFINE s == a \o b \o calls
             m == 3 + n
  <2>1. Piece(s, V, {}, {}, E, m)
    BY <1>4
  <2> HIDE DEF s, m
  <2>2. Piece(s \o c, V, {}, {}, E, m + 1)
    BY <1>1, <2>1, PieceAndPiece
  <2> QED BY <2>2 DEF s, m
<1>6. (3 + n) + 1 \in 1..Padded /\ 3 + n \in Nat
  BY DEF Padded
<1>7. RunsUnless(Plan(Lettered(a \o b \o calls \o c)), maxSteps, E)
  BY <1>5, <1>6, PieceRuns
<1> QED BY <1>7 DEF Planned, a, b, c

(* The plan made after a tool's error.                                     *)
LEMMA ReplannedRuns ==
    ASSUME NEW goal, NEW intent \in Intent, NEW code, NEW E, NEW maxSteps \in Nat,
           LongGoal(goal) \subseteq E, LongCode(code) \subseteq E
    PROVE  RunsUnless(Replanned(goal, intent, code), maxSteps, E)
<1> DEFINE V == ValuesOf(rawJson)
           plan == Replanned(goal, intent, code)
           a == AboutGoal(goal, intent)
           step == Set(0, "lastErrorCode", Text("error"))
           b == << step >>
           c == Log("replan2")
           d == Call("echo", [value |-> Text("error")], "sum")
           e == Log("done")
<1>1. Piece(a, V, {}, {}, E, 2) /\ Piece(c, V, {}, {}, E, 1) /\ Piece(e, V, {}, {}, E, 1)
  BY AboutGoalPiece, LogPiece
<1>2. Piece(d, V, {}, {}, E, 1)
  BY EchoPiece
<1>3. Piece(b, V, {}, {}, E, 1)
  <2>1. /\ normalizeStringStrict("lastErrorCode") /\ "lastErrorCode" \notin DOMAIN V
        /\ CanonicalValue(Text("error"))
    BY OtherKeys, ShortTexts
  <2> HIDE DEF V
  <2>2. Fits(step, V, {}, E)
    BY <2>1, SetFits
  <2> HIDE DEF step
  <2> QED BY <2>2, PieceOfOne
<1>10. plan.version = 1 /\ plan.steps = Lettered(a \o b \o c \o d \o e)
  BY DEF Replanned
<1>11. isNonEmptyString(plan.planId) /\ (plan.planId # TooLong \/ TooLong \in E)
  <2>1. normalizeStringStrict("plan") /\ isNonEmptyString(TooLong)
    BY Zenon DEF normalizeStringStrict, isNonEmptyString, TooLong
  <2>2. CASE code = LongToolError
    <3>1. plan.planId = TooLong /\ TooLong \in E
      BY <2>2 DEF Replanned, LongCode
    <3> QED BY <2>1, <3>1
  <2>3. CASE code # LongToolError
    <3>1. plan.planId = "plan"
      BY <2>3 DEF Replanned
    <3> QED BY <2>1, <3>1, StrictStrings
  <2> QED BY <2>2, <2>3
<1> HIDE DEF a, b, c, d, e, V, plan
<1>4. Piece(a \o b, V, {}, {}, E, 3)
  BY <1>1, <1>3, Sums, PieceAndPiece
<1>5. Piece(a \o b \o c, V, {}, {}, E, 4)
  BY <1>1, <1>4, Sums, PieceAndPiece
<1>6. Piece(a \o b \o c \o d, V, {}, {}, E, 5)
  BY <1>2, <1>5, Sums, PieceAndPiece
<1>7. Piece(a \o b \o c \o d \o e, V, {}, {}, E, 6)
  <2> DEFINE s == a \o b \o c \o d
  <2>1. Piece(s, V, {}, {}, E, 5)
    BY <1>6
  <2> HIDE DEF s
  <2>2. Piece(s \o e, V, {}, {}, E, 6)
    BY <1>1, <2>1, Sums, PieceAndPiece
  <2> QED BY <2>2 DEF s
<1>8. 6 \in 1..Padded
  BY DEF Padded
<1>9. RunsUnless(plan, maxSteps, E)
  <2> DEFINE s == a \o b \o c \o d \o e
  <2>1. Piece(s, V, {}, {}, E, 6) /\ plan.steps = Lettered(s)
    BY <1>10, <1>7
  <2> HIDE DEF s
  <2> QED BY <2>1, <1>10, <1>11, <1>8, PiecesRun
<1> QED BY <1>9 DEF plan

(* The plan of the sandbox demo.                                           *)
LEMMA SandboxPlanRuns ==
    ASSUME NEW E, NEW maxSteps \in Nat
    PROVE  RunsUnless(SandboxPlan, maxSteps, E)
<1> DEFINE V == ValuesOf(rawJson)
           open == Sandbox(0, "sandbox.open", "s1", "")
           extract == Sandbox(0, "sandbox.extract", "s1", "title")
           a == << open, extract >>
           b == Log("done")
<1>1. "title" \notin DOMAIN V /\ normalizeStringStrict("title")
  BY OtherKeys
<1>7. normalizeStringStrict("s1")
  BY Zenon DEF normalizeStringStrict, TooLong
<1> HIDE DEF V
<1>2. Fits(open, V, {}, E) /\ Fits(extract, V, {}, E)
  BY <1>1, <1>7, SandboxFits, ExtractFits
<1> HIDE DEF open, extract
<1>3. Piece(a, V, {}, {}, E, 2) /\ Piece(b, V, {}, {}, E, 1)
  BY <1>2, PieceOfTwo, LogPiece
<1> HIDE DEF a, b
<1>4. Piece(a \o b, V, {}, {}, E, 3)
  BY <1>3, Sums, PieceAndPiece
<1>5. 3 \in 1..Padded
  BY DEF Padded
<1>6. RunsUnless(Plan(Lettered(a \o b)), maxSteps, E)
  BY <1>4, <1>5, PieceRuns
<1> QED BY <1>6 DEF SandboxPlan, a, b, open, extract

(* The plans of the deterministic planner.                                 *)
LEMMA DeterministicRuns ==
    ASSUME NEW goal, NEW demo, NEW E, NEW maxSteps \in Nat, LongGoal(goal) \subseteq E
    PROVE  RunsUnless(DeterministicPlanner(goal, demo), maxSteps, E)
<1> DEFINE V == ValuesOf(rawJson)
           intent == deriveIntent(goal)
           a == AboutGoal(goal, intent)
           step == Increment(0, "n", 1)
           b == << step >>
           c == Log("planned")
<1>1. intent \in Intent
  BY GoalsHaveIntent
<1> HIDE DEF intent
<1>2. Piece(a, V, {}, {}, E, 2) /\ Piece(c, V, {}, {}, E, 1)
  BY <1>1, AboutGoalPiece, LogPiece
<1>3. normalizeStringStrict("n")
  BY Zenon DEF normalizeStringStrict, TooLong
<1> HIDE DEF V
<1>4. Fits(step, V, {}, E)
  BY <1>3, IncrementFits
<1> HIDE DEF step
<1>5. Piece(b, V, {}, {}, E, 1)
  BY <1>4, PieceOfOne
<1> HIDE DEF a, b, c
<1>6. Piece(a \o b, V, {}, {}, E, 3)
  BY <1>2, <1>5, Sums, PieceAndPiece
<1>7. Piece(a \o b \o c, V, {}, {}, E, 4)
  BY <1>2, <1>6, Sums, PieceAndPiece
<1>8. 4 \in 1..Padded
  BY DEF Padded
<1>9. RunsUnless(Plan(Lettered(a \o b \o c)), maxSteps, E)
  BY <1>7, <1>8, PieceRuns
<1>10. RunsUnless(buildPlanFromGoal(goal), maxSteps, E)
  BY <1>9 DEF buildPlanFromGoal, a, b, c, step, intent
<1> QED BY <1>10, SandboxPlanRuns DEF DeterministicPlanner

(* The plans of the mock planner.                                          *)
LEMMA MockPlannerRuns ==
    ASSUME NEW goal, NEW demo, NEW E, NEW maxSteps \in Nat, LongGoal(goal) \subseteq E
    PROVE  RunsUnless(MockPlanner(goal, demo), maxSteps, E)
<1> DEFINE V == ValuesOf(rawJson)
           set == SetGoal(goal)
           increment == Increment(0, "n", 1)
           a == << set, increment >>
           b == Log("done")
<1>1. normalizeStringStrict("n")
  BY Zenon DEF normalizeStringStrict, TooLong
<1>2. Fits(set, V, {}, E) /\ Fits(increment, V, {}, E)
  BY <1>1, SetGoalFits, IncrementFits
<1> HIDE DEF V
<1> HIDE DEF set, increment
<1>3. Piece(a, V, {}, {}, E, 2) /\ Piece(b, V, {}, {}, E, 1)
  BY <1>2, PieceOfTwo, LogPiece
<1> HIDE DEF a, b
<1>4. Piece(a \o b, V, {}, {}, E, 3)
  BY <1>3, Sums, PieceAndPiece
<1>5. 3 \in 1..Padded
  BY DEF Padded
<1>6. RunsUnless(Plan(Lettered(a \o b)), maxSteps, E)
  BY <1>4, <1>5, PieceRuns
<1>7. MockPlanner(goal, demo) = IF demo = "sandbox" THEN SandboxPlan ELSE Plan(Lettered(a \o b))
  BY DEF MockPlanner, a, b, set, increment
<1> QED BY <1>6, <1>7, SandboxPlanRuns

(* The plans of the planner of tools, for a goal that is no pipeline.      *)
LEMMA DetToolsRuns ==
    ASSUME NEW goal, NEW maxSteps \in Nat, NEW E, LongGoal(goal) \subseteq E,
           "missingtool" \in goal => "tool_not_found" \in E,
           ~ ("missingtool" \notin goal /\ "loop" \notin goal /\ deriveIntent(goal) = "cap-synth")
    PROVE  LET plan == DetToolsPlanner(goal)
           IN  plan.ok /\ RunsUnless(plan.value, maxSteps, E)
<1> DEFINE V == ValuesOf(rawJson)
           intent == deriveIntent(goal)
           a == AboutGoal(goal, intent)
           c == Log("planned")
<1>1. intent \in Intent
  BY GoalsHaveIntent
<1> HIDE DEF intent
<1>2. Piece(a, V, {}, {}, E, 2) /\ Piece(c, V, {}, {}, E, 1)
  BY <1>1, AboutGoalPiece, LogPiece
<1>3. 2 \in 1..Padded /\ 4 \in 1..Padded
  BY DEF Padded
<1>4. CASE "missingtool" \in goal
  <2> DEFINE step == SetGoal(goal)
             s == << step >>
             t == MissingTool
  <2>1. DetToolsPlanner(goal) = Gives(Plan(Lettered(s \o t)))
    BY <1>4 DEF DetToolsPlanner
  <2>2. Piece(t, V, {}, {}, E, 1)
    BY <1>4, MissingToolPiece
  <2>4. Fits(step, V, {}, E)
    BY SetGoalFits
  <2> HIDE DEF V
  <2> HIDE DEF step
  <2>5. Piece(s, V, {}, {}, E, 1)
    BY <2>4, PieceOfOne
  <2> HIDE DEF s, t
  <2>6. Piece(s \o t, V, {}, {}, E, 2)
    BY <2>2, <2>5, Sums, PieceAndPiece
  <2>7. RunsUnless(Plan(Lettered(s \o t)), maxSteps, E)
    BY <1>3, <2>6, PieceRuns
  <2> QED BY <1>4, <2>1, <2>7, PlanOrError
<1>5. CASE "missingtool" \notin goal /\ "loop" \in goal
  <2> DEFINE b == << ToolLoop(0, "math/add", AddInput, "sum", 10) >>
  <2>1. DetToolsPlanner(goal) = Gives(Plan(Lettered(a \o b \o c)))
    BY <1>5 DEF DetToolsPlanner, intent
  <2>2. Piece(b, V, {}, {}, E, 1)
    BY AddLoopPiece
  <2> HIDE DEF a, b, c, V
  <2>3. Piece(a \o b, V, {}, {}, E, 3)
    BY <1>2, <2>2, Sums, PieceAndPiece
  <2>4. Piece(a \o b \o c, V, {}, {}, E, 4)
    BY <1>2, <2>3, Sums, PieceAndPiece
  <2>5. RunsUnless(Plan(Lettered(a \o b \o c)), maxSteps, E)
    BY <1>3, <2>4, PieceRuns
  <2> QED BY <1>5, <2>1, <2>5, PlanOrError
<1>6. CASE "missingtool" \notin goal /\ "loop" \notin goal
  <2> DEFINE b == Call("math/add", AddInput, "sum")
  <2>1. DetToolsPlanner(goal) = Gives(Plan(Lettered(a \o b \o c)))
    BY <1>6 DEF DetToolsPlanner, intent
  <2>2. Piece(b, V, {}, {}, E, 1)
    BY AddPiece
  <2> HIDE DEF a, b, c, V
  <2>3. Piece(a \o b, V, {}, {}, E, 3)
    BY <1>2, <2>2, Sums, PieceAndPiece
  <2>4. Piece(a \o b \o c, V, {}, {}, E, 4)
    BY <1>2, <2>3, Sums, PieceAndPiece
  <2>5. RunsUnless(Plan(Lettered(a \o b \o c)), maxSteps, E)
    BY <1>3, <2>4, PieceRuns
  <2> QED BY <1>6, <2>1, <2>5, PlanOrError
<1> QED BY <1>4, <1>5, <1>6

-----------------------------------------------------------------------------
(* Pipelines of capabilities.                                              *)

Pipelined == {"catalog.product-find", "catalog.price-find", "catalog.availability-find",
              "orders.find-by-id", "kb.find-by-product-name", "text.normalize", "json.extract",
              "json.select", "json.merge"}

(* Those of a pipeline, and those that are one alone.                      *)
Capability == Pipelined \cup {"math.add", "echo"}

KeysOf(used) == {OutputKey(c) : c \in used}

(* The key and the tool of each.                                           *)
LEMMA CapabilityNames ==
    /\ OutputKey("catalog.product-find") = "productLookup"
    /\ OutputKey("catalog.price-find") = "priceLookup"
    /\ OutputKey("catalog.availability-find") = "availabilityLookup"
    /\ OutputKey("orders.find-by-id") = "orderLookup"
    /\ OutputKey("kb.find-by-product-name") = "knowledgeLookup"
    /\ OutputKey("text.normalize") = "normalizedJson"
    /\ OutputKey("json.extract") = "extractedUser"
    /\ OutputKey("json.select") = "selected"
    /\ OutputKey("json.merge") = "merged"
    /\ OutputKey("math.add") = "sum"
    /\ OutputKey("echo") = "output"
    /\ resolveToolIdForCapability("catalog.product-find") = "catalog/product-find"
    /\ resolveToolIdForCapability("catalog.price-find") = "catalog/price-find"
    /\ resolveToolIdForCapability("catalog.availability-find") = "catalog/availability-find"
    /\ resolveToolIdForCapability("orders.find-by-id") = "orders/find-by-id"
    /\ resolveToolIdForCapability("kb.find-by-product-name") = "kb/find-by-product-name"
    /\ resolveToolIdForCapability("text.normalize") = "text/normalize"
    /\ resolveToolIdForCapability("json.extract") = "json/extract"
    /\ resolveToolIdForCapability("json.select") = "json/select-keys"
    /\ resolveToolIdForCapability("json.merge") = "json/merge"
    /\ resolveToolIdForCapability("math.add") = "math/add"
    /\ resolveToolIdForCapability("echo") = "echo"
BY DEF OutputKey, resolveToolIdForCapability

(* No two capabilities have the same key.                                  *)
LEMMA KeysDiffer ==
    ASSUME NEW c \in Capability, NEW d \in Capability, OutputKey(c) = OutputKey(d)
    PROVE  c = d
BY CapabilityNames DEF Capability, Pipelined

(* Every key and every tool has a name.                                    *)
LEMMA CapabilitiesHaveNames ==
    ASSUME NEW c \in Capability
    PROVE  normalizeStringStrict(OutputKey(c)) /\ normalizeStringStrict(resolveToolIdForCapability(c))
<1> DEFINE names == {"productLookup", "priceLookup", "availabilityLookup", "orderLookup",
                     "knowledgeLookup", "normalizedJson", "extractedUser", "selected", "merged",
                     "sum", "output", "catalog/product-find", "catalog/price-find",
                     "catalog/availability-find", "orders/find-by-id",
                     "kb/find-by-product-name", "text/normalize", "json/extract",
                     "json/select-keys", "json/merge", "math/add", "echo"}
<1>1. \A name \in names : normalizeStringStrict(name)
  BY Zenon DEF normalizeStringStrict, TooLong
<1>2. OutputKey(c) \in names /\ resolveToolIdForCapability(c) \in names
  BY CapabilityNames DEF Capability, Pipelined
<1> QED BY <1>1, <1>2

Takes(step, argument, v) == argument \in DOMAIN step.input /\ step.input[argument] = v

(* A step takes what is produced under the keys where it must.             *)
Obeys(step, keys) ==
    step.kind = "tool.call" =>
        /\ step.toolId = "json/extract" /\ "normalizedJson" \in keys =>
               Takes(step, "text", Ref("normalizedJson", << "text" >>))
        /\ step.toolId = "json/select-keys" /\ "extractedUser" \in keys =>
               Takes(step, "text", Ref("extractedUser", << "value" >>))
        /\ step.toolId = "json/merge" /\ "selected" \in keys =>
               Takes(step, "left", Ref("selected", << "value" >>))

(* These are the rules of the builder.                                     *)
LEMMA ObeyedRules ==
    ASSUME NEW steps, validateStepDependencies(steps),
           \A i \in DOMAIN steps : Obeys(steps[i], producedOutputKeys(steps))
    PROVE  validateRequiredDerivedInputs(steps, CanonicalDerivedInputs)
<1> DEFINE keys == producedOutputKeys(steps)
<1> HIDE DEF keys
<1>1. ASSUME NEW i \in DOMAIN steps, NEW rule \in CanonicalDerivedInputs,
             steps[i].kind = "tool.call", steps[i].toolId = rule.toolId, rule.ref.key \in keys
      PROVE  Takes(steps[i], rule.argument, rule.ref)
  <2>1. Obeys(steps[i], keys)
    BY <1>1 DEF keys
  <2>2. CASE rule = Rule("json/extract", "text", "normalizedJson", << "text" >>)
    <3>1. /\ rule.toolId = "json/extract" /\ rule.argument = "text"
          /\ rule.ref = Ref("normalizedJson", << "text" >>) /\ rule.ref.key = "normalizedJson"
      BY <2>2 DEF Rule, Ref
    <3> QED BY <1>1, <2>1, <3>1 DEF Obeys
  <2>3. CASE rule = Rule("json/select-keys", "text", "extractedUser", << "value" >>)
    <3>1. /\ rule.toolId = "json/select-keys" /\ rule.argument = "text"
          /\ rule.ref = Ref("extractedUser", << "value" >>) /\ rule.ref.key = "extractedUser"
      BY <2>3 DEF Rule, Ref
    <3> QED BY <1>1, <2>1, <3>1 DEF Obeys
  <2>4. CASE rule = Rule("json/merge", "left", "selected", << "value" >>)
    <3>1. /\ rule.toolId = "json/merge" /\ rule.argument = "left"
          /\ rule.ref = Ref("selected", << "value" >>) /\ rule.ref.key = "selected"
      BY <2>4 DEF Rule, Ref
    <3> QED BY <1>1, <2>1, <3>1 DEF Obeys
  <2> QED BY <2>2, <2>3, <2>4 DEF CanonicalDerivedInputs
<1> QED BY <1>1 DEF validateRequiredDerivedInputs, Takes, keys

(* What has the shape of a step that is no loop.                           *)
Shaped(step) ==
    /\ "kind" \in DOMAIN step /\ step.kind # "tool.loop"
    /\ step.kind = "tool.call" => {"toolId", "input", "outputKey"} \subseteq DOMAIN step

(* The steps of a pipeline with the capabilities used so far.              *)
CapsIn(steps, used, E) ==
    /\ Good(steps, ValuesOf(rawJson), {}, E)
    /\ validateStepDependencies(steps)
    /\ producedOutputKeys(steps) = KeysOf(used)
    /\ \A i \in DOMAIN steps :
          /\ Shaped(steps[i])
          /\ Obeys(steps[i], KeysOf(used))
          /\ steps[i].kind = "tool.call" =>
                \E c \in used : steps[i].toolId = resolveToolIdForCapability(c)

(* What comes next, and after what.                                        *)
Ready(used, c) ==
    /\ c \notin used
    /\ c = "text.normalize" => "json.extract" \notin used
    /\ c = "json.extract" => "json.select" \notin used
    /\ c = "json.select" => "json.extract" \in used /\ "json.merge" \notin used
    /\ c = "json.merge" => "json.select" \in used

(* What is produced is left.                                               *)
LEMMA ProducedIsLeft ==
    ASSUME NEW steps, NEW V
    PROVE  producedOutputKeys(steps) \cap DOMAIN V \subseteq Leaves(steps, V)
BY DEF producedOutputKeys, Leaves, Produces

(* Earlier steps have no use for the key of what comes next.               *)
LEMMA StillObeys ==
    ASSUME NEW used, used \subseteq Capability, NEW c \in Capability, Ready(used, c),
           NEW step, Obeys(step, KeysOf(used)),
           step.kind = "tool.call" => \E d \in used : step.toolId = resolveToolIdForCapability(d)
    PROVE  Obeys(step, KeysOf(used \cup {c}))
<1>1. KeysOf(used \cup {c}) = KeysOf(used) \cup {OutputKey(c)}
  BY DEF KeysOf
<1> SUFFICES ASSUME step.kind = "tool.call" PROVE Obeys(step, KeysOf(used) \cup {OutputKey(c)})
  BY <1>1 DEF Obeys
<1>2. PICK d \in used : step.toolId = resolveToolIdForCapability(d)
  OBVIOUS
<1>3. /\ step.toolId = "json/extract" => d = "json.extract"
      /\ step.toolId = "json/select-keys" => d = "json.select"
      /\ step.toolId = "json/merge" => d = "json.merge"
  BY <1>2, CapabilityNames DEF Capability, Pipelined
<1>4. /\ OutputKey(c) = "normalizedJson" => c = "text.normalize"
      /\ OutputKey(c) = "extractedUser" => c = "json.extract"
      /\ OutputKey(c) = "selected" => c = "json.select"
  BY CapabilityNames DEF Capability, Pipelined
<1>5. /\ step.toolId = "json/extract" => OutputKey(c) # "normalizedJson"
      /\ step.toolId = "json/select-keys" => OutputKey(c) # "extractedUser"
      /\ step.toolId = "json/merge" => OutputKey(c) # "selected"
  BY <1>2, <1>3, <1>4 DEF Ready
<1> QED BY <1>5 DEF Obeys

(* A call that takes nothing but what is produced goes after the steps.    *)
LEMMA DependenciesThen ==
    ASSUME NEW steps, isArray(steps), validateStepDependencies(steps),
           NEW step, isProducerStep(step), step.outputKey \notin producedOutputKeys(steps),
           \A ref \in StepRefs(step) : ref.key \in producedOutputKeys(steps)
    PROVE  /\ validateStepDependencies(steps \o << step >>)
           /\ producedOutputKeys(steps \o << step >>) =
                  producedOutputKeys(steps) \cup {step.outputKey}
<1> DEFINE whole == steps \o << step >>
           n == Len(steps)
           old == producedOutputKeys(steps)
<1>1. isArray(<< step >>) /\ Len(<< step >>) = 1 /\ << step >>[1] = step
  BY OneStep
<1>2. /\ n \in Nat /\ DOMAIN steps = 1..n /\ DOMAIN whole = 1..(n + 1)
      /\ \A i \in 1..n : whole[i] = steps[i]
      /\ whole[n + 1] = step
  BY <1>1, ArraysConcat
<1> HIDE DEF whole, n
<1>3. \A i \in DOMAIN whole : i \in DOMAIN steps \/ i = n + 1
  BY <1>2
<1>4. n + 1 \in DOMAIN whole /\ DOMAIN steps \subseteq DOMAIN whole /\ n + 1 \notin DOMAIN steps
  BY <1>2
<1>5. \A i \in DOMAIN steps : whole[i] = steps[i] /\ i < n + 1
  BY <1>2
<1>6. \A i \in DOMAIN steps : isProducerStep(steps[i]) => steps[i].outputKey \in old
  BY DEF producedOutputKeys
<1>7. producedOutputKeys(whole) = old \cup {step.outputKey}
  <2>1. ASSUME NEW key \in producedOutputKeys(whole) PROVE key \in old \cup {step.outputKey}
    <3>1. PICK i \in DOMAIN whole : isProducerStep(whole[i]) /\ key = whole[i].outputKey
      BY <2>1 DEF producedOutputKeys
    <3> QED BY <1>2, <1>3, <1>5, <1>6, <3>1
  <2>2. ASSUME NEW key \in old PROVE key \in producedOutputKeys(whole)
    <3>1. PICK i \in DOMAIN steps : isProducerStep(steps[i]) /\ key = steps[i].outputKey
      BY <2>2 DEF producedOutputKeys
    <3>2. i \in DOMAIN whole /\ whole[i] = steps[i]
      BY <1>4, <1>5
    <3> QED BY <3>1, <3>2 DEF producedOutputKeys
  <2>3. step.outputKey \in producedOutputKeys(whole)
    BY <1>2, <1>4 DEF producedOutputKeys
  <2> QED BY <2>1, <2>2, <2>3
<1>8. ~ DuplicateOutputKey(whole)
  <2> SUFFICES ASSUME NEW i \in DOMAIN whole, NEW j \in DOMAIN whole, i # j,
                      isProducerStep(whole[i]), Produces(whole[j], whole[i].outputKey)
               PROVE  FALSE
    BY DEF DuplicateOutputKey
  <2>1. isProducerStep(whole[j]) /\ whole[j].outputKey = whole[i].outputKey
    BY DEF Produces
  <2>2. CASE i \in DOMAIN steps /\ j \in DOMAIN steps
    BY <1>5, <2>2 DEF validateStepDependencies, DuplicateOutputKey
  <2>3. CASE i = n + 1 /\ j \in DOMAIN steps
    BY <1>2, <1>5, <1>6, <2>1, <2>3
  <2>4. CASE j = n + 1 /\ i \in DOMAIN steps
    BY <1>2, <1>5, <1>6, <2>1, <2>4
  <2> QED BY <1>3, <2>2, <2>3, <2>4
<1>9. ~ ProducerNotFound(whole)
  <2> SUFFICES ASSUME NEW i \in DOMAIN whole, NEW ref \in StepRefs(whole[i])
               PROVE  ref.key \in old
    BY <1>7 DEF ProducerNotFound
  <2>1. CASE i \in DOMAIN steps
    BY <1>5, <2>1 DEF validateStepDependencies, ProducerNotFound
  <2>2. CASE i = n + 1
    BY <1>2, <2>2
  <2> QED BY <1>3, <2>1, <2>2
<1>10. ~ OutOfOrder(whole)
  <2> SUFFICES ASSUME NEW i \in DOMAIN whole, NEW j \in DOMAIN whole, j >= i,
                      NEW ref \in StepRefs(whole[i]), Produces(whole[j], ref.key)
               PROVE  FALSE
    BY DEF OutOfOrder
  <2>1. CASE i \in DOMAIN steps /\ j \in DOMAIN steps
    BY <1>5, <2>1 DEF validateStepDependencies, OutOfOrder
  <2>2. CASE j = n + 1
    <3>1. ref.key \in old
      <4>1. CASE i \in DOMAIN steps
        BY <1>5, <4>1 DEF validateStepDependencies, ProducerNotFound
      <4>2. CASE i = n + 1
        BY <1>2, <4>2
      <4> QED BY <1>3, <4>1, <4>2
    <3>2. ref.key = step.outputKey
      BY <1>2, <2>2 DEF Produces
    <3> QED BY <3>1, <3>2
  <2>3. CASE i = n + 1 /\ j \in DOMAIN steps
    BY <1>2, <2>3
  <2> QED BY <1>3, <2>1, <2>2, <2>3
<1> QED BY <1>7, <1>8, <1>9, <1>10 DEF validateStepDependencies, whole

(* A call of the next capability, that needs what is left and obeys.       *)
CallsNext(c, input, used, E) ==
    LET call == Call(resolveToolIdForCapability(c), input, OutputKey(c))
        step == ToolCall(0, resolveToolIdForCapability(c), input, OutputKey(c))
    IN  /\ \E K \in SUBSET (KeysOf(used) \cap DOMAIN ValuesOf(rawJson)) :
              Good(call, ValuesOf(rawJson), K, E)
        /\ \A argument \in DOMAIN input :
              IsRef(input[argument]) => input[argument].key \in KeysOf(used)
        /\ Obeys(step, KeysOf(used \cup {c}))

(* The pipeline with the next capability.                                  *)
LEMMA CapThen ==
    ASSUME NEW E, NEW steps, NEW used, used \subseteq Capability, CapsIn(steps, used, E),
           NEW c \in Capability, Ready(used, c), NEW input, CallsNext(c, input, used, E)
    PROVE  CapsIn(steps \o Call(resolveToolIdForCapability(c), input, OutputKey(c)), used \cup {c}, E)
<1> DEFINE V == ValuesOf(rawJson)
           toolId == resolveToolIdForCapability(c)
           key == OutputKey(c)
           step == ToolCall(0, toolId, input, key)
           whole == steps \o << step >>
           n == Len(steps)
<1>1. Call(toolId, input, key) = << step >>
  BY DEF Call
<1>2. /\ DOMAIN step = {"id", "kind", "toolId", "input", "outputKey", "irregular"}
      /\ step.kind = "tool.call" /\ step.toolId = toolId /\ step.input = input
      /\ step.outputKey = key
  BY DEF ToolCall
<1>3. normalizeStringStrict(key) /\ normalizeStringStrict(toolId)
  BY CapabilitiesHaveNames
<1> HIDE DEF toolId, V
<1>4. Obeys(step, KeysOf(used \cup {c}))
  BY DEF CallsNext, toolId
<1>5. PICK K \in SUBSET (KeysOf(used) \cap DOMAIN V) : Good(<< step >>, V, K, E)
  BY <1>1 DEF CallsNext, V, toolId
<1> HIDE DEF step
<1>6. key \notin KeysOf(used)
  <2> SUFFICES ASSUME NEW d \in used, OutputKey(d) = key PROVE FALSE
    BY DEF KeysOf
  <2>1. d = c
    BY KeysDiffer
  <2> QED BY <2>1 DEF Ready
<1> HIDE DEF key
<1>7. /\ isArray(steps) /\ Good(steps, V, {}, E) /\ validateStepDependencies(steps)
      /\ producedOutputKeys(steps) = KeysOf(used)
  BY DEF CapsIn, Good, V
<1>8. \A ref \in StepRefs(step) : ref.key \in KeysOf(used)
  <2>1. \A argument \in DOMAIN input :
           IsRef(input[argument]) => input[argument].key \in KeysOf(used)
    BY DEF CallsNext
  <2> QED BY <1>2, <2>1 DEF StepRefs
<1>9. isProducerStep(step)
  BY <1>2, <1>3, StrictStrings DEF isProducerStep
<1>10. validateStepDependencies(whole) /\ producedOutputKeys(whole) = KeysOf(used) \cup {key}
  BY <1>2, <1>6, <1>7, <1>8, <1>9, DependenciesThen
<1>11. KeysOf(used) \cup {key} = KeysOf(used \cup {c})
  BY DEF KeysOf, key
<1>12. Good(whole, V, {}, E)
  <2>1. K \subseteq {} \cup Leaves(steps, V)
    BY <1>7, ProducedIsLeft
  <2> QED BY <1>5, <1>7, <2>1, GoodThen
<1>13. /\ n \in Nat /\ DOMAIN steps = 1..n /\ DOMAIN whole = 1..(n + 1)
       /\ \A i \in 1..n : whole[i] = steps[i]
       /\ whole[n + 1] = step
  BY <1>7, OneStep, ArraysConcat
<1> HIDE DEF whole, n
<1>14. Shaped(step)
  BY <1>2 DEF Shaped
<1>15. ASSUME NEW i \in DOMAIN whole
       PROVE  /\ Shaped(whole[i])
              /\ Obeys(whole[i], KeysOf(used \cup {c}))
              /\ whole[i].kind = "tool.call" =>
                    \E d \in used \cup {c} : whole[i].toolId = resolveToolIdForCapability(d)
  <2>1. CASE i \in 1..n
    <3>1. /\ whole[i] = steps[i] /\ Shaped(steps[i]) /\ Obeys(steps[i], KeysOf(used))
          /\ steps[i].kind = "tool.call" =>
                \E d \in used : steps[i].toolId = resolveToolIdForCapability(d)
      BY <1>13, <2>1 DEF CapsIn
    <3>2. Obeys(steps[i], KeysOf(used \cup {c}))
      BY <3>1, StillObeys
    <3> QED BY <3>1, <3>2
  <2>2. CASE i = n + 1
    BY <1>2, <1>4, <1>13, <1>14, <2>2 DEF toolId
  <2> QED BY <1>13, <2>1, <2>2
<1>16. CapsIn(whole, used \cup {c}, E)
  BY <1>10, <1>11, <1>12, <1>15 DEF CapsIn, V
<1> QED BY <1>1, <1>16 DEF whole, toolId, key

(* A call whose input is plain is a call of the next capability, unless it *)
(* must take what is produced.                                             *)
LEMMA PlainCallsNext ==
    ASSUME NEW E, NEW used, NEW c \in Capability, NEW input, NEW out,
           input = [argument \in DOMAIN input |-> input[argument]],
           \A argument \in DOMAIN input : IsPlain(input[argument]),
           registryRun(resolveToolIdForCapability(c), input) = Gives(out),
           OutputKey(c) \in DOMAIN ValuesOf(rawJson) =>
               ValuesOf(rawJson)[OutputKey(c)] = JsonText(out),
           c \notin {"json.extract", "json.select", "json.merge"}
    PROVE  CallsNext(c, input, used, E)
<1> DEFINE V == ValuesOf(rawJson)
           toolId == resolveToolIdForCapability(c)
           key == OutputKey(c)
           step == ToolCall(0, toolId, input, key)
<1>1. toolId \notin {"json/extract", "json/select-keys", "json/merge"}
  BY CapabilityNames DEF Capability, Pipelined
<1>2. step.toolId = toolId
  BY DEF ToolCall
<1>3. Obeys(step, KeysOf(used \cup {c}))
  BY <1>1, <1>2 DEF Obeys
<1>4. normalizeStringStrict(toolId) /\ normalizeStringStrict(key)
  BY CapabilitiesHaveNames
<1>5. \A argument \in DOMAIN input : ~ IsRef(input[argument])
  BY PlainIsCanonical
<1>6. key \in DOMAIN V => V[key] = JsonText(out)
  OBVIOUS
<1> HIDE DEF V, key, toolId, step
<1>7. registryRun(toolId, input) = Gives(out)
  BY DEF toolId
<1>8. Good(Call(toolId, input, key), V, {}, E)
  BY <1>4, <1>6, <1>7, PlainCallIsGood
<1>9. {} \in SUBSET (KeysOf(used) \cap DOMAIN V)
  OBVIOUS
<1> QED BY <1>3, <1>5, <1>8, <1>9 DEF CallsNext, V, key, toolId, step

(* A lookup of a name or of a number.                                      *)
LEMMA LookupCallsNext ==
    ASSUME NEW E, NEW used, NEW steps, NEW goal,
           NEW c \in {"catalog.product-find", "catalog.price-find", "catalog.availability-find",
                      "orders.find-by-id", "kb.find-by-product-name"}
    PROVE  CallsNext(c, CapabilityInput(c, steps, goal), used, E)
<1> DEFINE input == CapabilityInput(c, steps, goal)
           toolId == resolveToolIdForCapability(c)
           argument == LookupArgument(toolId)
           entities == extractGoalEntities(goal)
<1>1. \E word : entities.productName = Text(word)
  BY DEF extractGoalEntities
<1>2. \E word : entities.orderId = Text(word)
  BY DEF extractGoalEntities
<1>3. toolId \in Lookup /\ (toolId = "orders/find-by-id" <=> c = "orders.find-by-id")
  BY CapabilityNames DEF Lookup
<1>4. argument = IF c = "orders.find-by-id" THEN "orderId" ELSE "productName"
  BY <1>3 DEF LookupArgument
<1>5. PICK word : input = [a \in {argument} |-> Text(word)]
  <2>1. CASE c = "orders.find-by-id"
    <3>1. input = [orderId |-> entities.orderId]
      BY <2>1 DEF CapabilityInput
    <3>2. PICK word : entities.orderId = Text(word)
      BY <1>2
    <3> HIDE DEF input, entities, argument
    <3>3. input = [a \in {"orderId"} |-> Text(word)]
      BY <3>1, <3>2
    <3> QED BY <1>4, <2>1, <3>3
  <2>2. CASE c # "orders.find-by-id"
    <3>1. input = [productName |-> entities.productName]
      BY <2>2 DEF CapabilityInput
    <3>2. PICK word : entities.productName = Text(word)
      BY <1>1
    <3> HIDE DEF input, entities, argument
    <3>3. input = [a \in {"productName"} |-> Text(word)]
      BY <3>1, <3>2
    <3> QED BY <1>4, <2>2, <3>3
  <2> QED BY <2>1, <2>2
<1> HIDE DEF input, argument
<1>6. /\ DOMAIN input = {argument} /\ input = [a \in DOMAIN input |-> input[a]]
      /\ input[argument] = Text(word)
  BY <1>5
<1>7. \A a \in DOMAIN input : IsPlain(input[a])
  BY <1>6, PlainValues
<1>8. IsText(input[argument])
  BY <1>6, PlainValues
<1>9. PICK out : registryRun(toolId, input) = Gives(out)
  <2> HIDE DEF toolId
  <2> QED BY <1>3, <1>6, <1>8, LookupRuns DEF argument
<1>10. OutputKey(c) \notin DOMAIN ValuesOf(rawJson)
  BY CapabilityNames, KeysOfValues
<1>11. c \in Capability /\ c \notin {"json.extract", "json.select", "json.merge"}
  BY DEF Capability, Pipelined
<1> QED BY <1>6, <1>7, <1>9, <1>10, <1>11, PlainCallsNext DEF input

(* A sum, an echo and the text normalized.                                 *)
LEMMA OthersCallNext ==
    ASSUME NEW E, NEW used, NEW steps, NEW goal, NEW c \in {"math.add", "echo", "text.normalize"}
    PROVE  CallsNext(c, CapabilityInput(c, steps, goal), used, E)
<1> DEFINE V == ValuesOf(rawJson)
<1>1. /\ OutputKey("math.add") \notin DOMAIN V /\ OutputKey("echo") \notin DOMAIN V
      /\ V[OutputKey("text.normalize")] = JsonText(Object([text |-> rawJson]))
  BY CapabilityNames, KeysOfValues
<1> HIDE DEF V
<1>2. CASE c = "math.add"
  <2>1. CapabilityInput(c, steps, goal) = AddInput
    BY <1>2 DEF CapabilityInput
  <2>2. "math.add" \in Capability
    BY DEF Capability
  <2>3. registryRun(resolveToolIdForCapability("math.add"), AddInput) = Gives(Object([sum |-> Number]))
    BY AddRuns, CapabilityNames
  <2>4. CallsNext("math.add", AddInput, used, E)
    BY <1>1, <2>2, <2>3, AddInputPlain, PlainCallsNext DEF V
  <2> QED BY <1>2, <2>1, <2>4
<1>3. CASE c = "echo"
  <2> DEFINE input == [value |-> Text("intent")]
  <2>1. CapabilityInput(c, steps, goal) = input
    BY <1>3 DEF CapabilityInput
  <2>2. "echo" \in Capability
    BY DEF Capability
  <2>3. registryRun(resolveToolIdForCapability("echo"), input) =
            Gives(Object([value |-> Text("intent")]))
    BY EchoRuns, CapabilityNames
  <2>4. input = [argument \in DOMAIN input |-> input[argument]]
    OBVIOUS
  <2>5. \A argument \in DOMAIN input : input[argument] = Text("intent")
    OBVIOUS
  <2> HIDE DEF input
  <2>6. \A argument \in DOMAIN input : IsPlain(input[argument])
    BY <2>5, PlainValues
  <2>7. CallsNext("echo", input, used, E)
    BY <1>1, <2>2, <2>3, <2>4, <2>6, PlainCallsNext DEF V
  <2> QED BY <1>3, <2>1, <2>7
<1>4. CASE c = "text.normalize"
  <2> DEFINE input == NormalizeInput(rawJson)
  <2>1. CapabilityInput(c, steps, goal) = input
    BY <1>4 DEF CapabilityInput
  <2>2. "text.normalize" \in Capability
    BY DEF Capability, Pipelined
  <2>3. registryRun(resolveToolIdForCapability("text.normalize"), input) =
            Gives(Object([text |-> rawJson]))
    BY NormalizeRuns, TextsOfPlanners, CapabilityNames
  <2>4. input = [argument \in DOMAIN input |-> input[argument]]
    BY DEF NormalizeInput
  <2>5. \A argument \in DOMAIN input : input[argument] = rawJson \/ input[argument] = Flag
    BY DEF NormalizeInput
  <2> HIDE DEF input
  <2>6. \A argument \in DOMAIN input : IsPlain(input[argument])
    BY <2>5, PlainValues, TextsOfPlanners
  <2>7. CallsNext("text.normalize", input, used, E)
    BY <1>1, <2>2, <2>3, <2>4, <2>6, PlainCallsNext DEF V
  <2> QED BY <1>4, <2>1, <2>7
<1> QED BY <1>2, <1>3, <1>4

(* What a step is bound to.                                                *)
LEMMA BoundTo ==
    ASSUME NEW E, NEW steps, NEW used, CapsIn(steps, used, E), NEW key, NEW path, NEW fallback
    PROVE  bindStepInputRef(steps, key, path, fallback) =
               IF key \in KeysOf(used) THEN Ref(key, path) ELSE fallback
BY DEF CapsIn, bindStepInputRef

(* The user is extracted from what was normalized, or from the text.       *)
LEMMA ExtractCallsNext ==
    ASSUME NEW E, NEW steps, NEW used, used \subseteq Capability, CapsIn(steps, used, E), NEW goal
    PROVE  CallsNext("json.extract", CapabilityInput("json.extract", steps, goal), used, E)
<1> DEFINE c == "json.extract"
           V == ValuesOf(rawJson)
           key == "extractedUser"
           path == << "user" >>
           ref == Ref("normalizedJson", << "text" >>)
           input == CapabilityInput(c, steps, goal)
           step == ToolCall(0, "json/extract", input, key)
           call == Call("json/extract", input, key)
           keys == KeysOf(used \cup {c})
<1>1. c \in Capability /\ "text.normalize" \in Capability
  BY DEF Capability, Pipelined
<1>2. input = ExtractInput(IF "normalizedJson" \in KeysOf(used) THEN ref ELSE rawJson, path)
  BY BoundTo DEF CapabilityInput
<1>3. keys = KeysOf(used) \cup {"extractedUser"}
  BY CapabilityNames DEF KeysOf
<1>4. IsText(rawJson) /\ IsPlain(rawJson) /\ rawJson.json # NotJson
  BY TextsOfPlanners, PathsLead
<1>5. extractPath(rawJson.json, path, "json_extract_path_not_found") = Gives(User)
  BY PathsLead
<1>6. key \in DOMAIN V /\ V[key] = JsonText(Object([value |-> User])) /\ normalizeStringStrict(key)
  BY KeysOfValues, NamesAreStrict
<1>7. /\ DOMAIN input = {"text", "path"} /\ input["path"] = Names(path)
      /\ input["text"] = IF "normalizedJson" \in KeysOf(used) THEN ref ELSE rawJson
  BY <1>2 DEF ExtractInput
<1>8. ~ IsRef(Names(path)) /\ ~ IsRef(rawJson) /\ ref.key = "normalizedJson"
  BY PlainValues, TextsOfPlanners, PlainIsCanonical DEF Ref
<1>9. "normalizedJson" \in DOMAIN V
  BY KeysOfValues
<1>10. /\ step.toolId = "json/extract" /\ step.input = input
       /\ OutputKey(c) = key /\ resolveToolIdForCapability(c) = "json/extract"
  BY CapabilityNames DEF ToolCall
<1> HIDE DEF input, ref, path, keys, step
<1>11. \A argument \in DOMAIN input :
          IsRef(input[argument]) => input[argument].key \in KeysOf(used)
  BY <1>7, <1>8
<1>12. Obeys(step, keys)
  BY <1>3, <1>7, <1>10 DEF Obeys, Takes, ref
<1> HIDE DEF key, V
<1>13. \E K \in SUBSET (KeysOf(used) \cap DOMAIN V) : Good(call, V, K, E)
  <2>1. CASE "normalizedJson" \in KeysOf(used)
    <3>1. input = ExtractInput(ref, path)
      BY <1>2, <2>1
    <3>2. Good(call, V, {"normalizedJson"}, E)
      BY <1>4, <1>5, <1>6, <3>1, ExtractThere DEF V, ref
    <3>3. {"normalizedJson"} \in SUBSET (KeysOf(used) \cap DOMAIN V)
      BY <1>9, <2>1
    <3> HIDE DEF call
    <3> QED BY <3>2, <3>3
  <2>2. CASE "normalizedJson" \notin KeysOf(used)
    <3>1. input = ExtractInput(rawJson, path)
      BY <1>2, <2>2
    <3>2. Good(call, V, {}, E)
      BY <1>4, <1>5, <1>6, <3>1, ExtractCall
    <3>3. {} \in SUBSET (KeysOf(used) \cap DOMAIN V)
      OBVIOUS
    <3> HIDE DEF call
    <3> QED BY <3>2, <3>3
  <2> QED BY <2>1, <2>2
<1> QED BY <1>10, <1>11, <1>12, <1>13 DEF CallsNext, V, step, keys, input

(* Keys are selected from the user extracted.                              *)
LEMMA SelectCallsNext ==
    ASSUME NEW E, NEW steps, NEW used, used \subseteq Capability, CapsIn(steps, used, E), NEW goal,
           "json.extract" \in used
    PROVE  CallsNext("json.select", CapabilityInput("json.select", steps, goal), used, E)
<1> DEFINE c == "json.select"
           V == ValuesOf(rawJson)
           key == "selected"
           names == Names(<< "name", "role" >>)
           ref == Ref("extractedUser", << "value" >>)
           input == CapabilityInput(c, steps, goal)
           step == ToolCall(0, "json/select-keys", input, key)
           call == Call("json/select-keys", input, key)
<1>1. "extractedUser" \in KeysOf(used)
  BY CapabilityNames DEF KeysOf
<1>2. input = [text |-> ref, keys |-> names]
  BY <1>1, BoundTo DEF CapabilityInput
<1>3. /\ DOMAIN input = {"text", "keys"} /\ input["keys"] = names /\ input["text"] = ref
  BY <1>2
<1>4. ~ IsRef(names) /\ ref.key = "extractedUser"
  BY PlainValues, PlainIsCanonical DEF Ref
<1>5. Good(call, V, {"extractedUser"}, E)
  BY <1>2, SelectThere
<1>6. "extractedUser" \in DOMAIN V
  BY KeysOfValues
<1>7. /\ step.toolId = "json/select-keys" /\ step.input = input
      /\ OutputKey(c) = key /\ resolveToolIdForCapability(c) = "json/select-keys"
  BY CapabilityNames DEF ToolCall
<1> HIDE DEF input, ref, names, step, V, call
<1>8. \A argument \in DOMAIN input :
          IsRef(input[argument]) => input[argument].key \in KeysOf(used)
  BY <1>1, <1>3, <1>4
<1>9. Obeys(step, KeysOf(used \cup {c}))
  BY <1>3, <1>7 DEF Obeys, Takes, ref
<1>10. {"extractedUser"} \in SUBSET (KeysOf(used) \cap DOMAIN V)
  BY <1>1, <1>6
<1> QED BY <1>5, <1>7, <1>8, <1>9, <1>10 DEF CallsNext, V, step, input, call

(* What was selected is merged.                                            *)
LEMMA MergeCallsNext ==
    ASSUME NEW E, NEW steps, NEW used, used \subseteq Capability, CapsIn(steps, used, E), NEW goal,
           "json.select" \in used
    PROVE  CallsNext("json.merge", CapabilityInput("json.merge", steps, goal), used, E)
<1> DEFINE c == "json.merge"
           V == ValuesOf(rawJson)
           key == "merged"
           ref == Ref("selected", << "value" >>)
           input == CapabilityInput(c, steps, goal)
           step == ToolCall(0, "json/merge", input, key)
           call == Call("json/merge", input, key)
<1>1. "selected" \in KeysOf(used)
  BY CapabilityNames DEF KeysOf
<1>2. input = [left |-> ref, right |-> extraJson]
  BY <1>1, BoundTo DEF CapabilityInput
<1>3. /\ DOMAIN input = {"left", "right"} /\ input["left"] = ref /\ input["right"] = extraJson
  BY <1>2
<1>4. ~ IsRef(extraJson) /\ ref.key = "selected"
  BY TextsOfPlanners, PlainIsCanonical DEF Ref
<1>5. Good(call, V, {"selected"}, E)
  BY <1>2, MergeThere
<1>6. "selected" \in DOMAIN V
  BY KeysOfValues
<1>7. /\ step.toolId = "json/merge" /\ step.input = input
      /\ OutputKey(c) = key /\ resolveToolIdForCapability(c) = "json/merge"
  BY CapabilityNames DEF ToolCall
<1> HIDE DEF input, ref, step, V, call
<1>8. \A argument \in DOMAIN input :
          IsRef(input[argument]) => input[argument].key \in KeysOf(used)
  BY <1>1, <1>3, <1>4
<1>9. Obeys(step, KeysOf(used \cup {c}))
  BY <1>3, <1>7 DEF Obeys, Takes, ref
<1>10. {"selected"} \in SUBSET (KeysOf(used) \cap DOMAIN V)
  BY <1>1, <1>6
<1> QED BY <1>5, <1>7, <1>8, <1>9, <1>10 DEF CallsNext, V, step, input, call

(* A pipeline goes on with what is ready.                                  *)
LEMMA NextCapability ==
    ASSUME NEW E, NEW steps, NEW used, used \subseteq Capability, CapsIn(steps, used, E),
           NEW c \in Capability, Ready(used, c), NEW goal
    PROVE  CapsIn(WithStepOf(c, steps, goal), used \cup {c}, E)
<1> DEFINE input == CapabilityInput(c, steps, goal)
<1>1. CallsNext(c, input, used, E)
  <2>1. CASE c \in {"math.add", "echo", "text.normalize"}
    BY <2>1, OthersCallNext
  <2>2. CASE c = "json.extract"
    BY <2>2, ExtractCallsNext
  <2>3. CASE c = "json.select"
    BY <2>3, SelectCallsNext DEF Ready
  <2>4. CASE c = "json.merge"
    BY <2>4, MergeCallsNext DEF Ready
  <2>5. CASE c \in {"catalog.product-find", "catalog.price-find", "catalog.availability-find",
                    "orders.find-by-id", "kb.find-by-product-name"}
    BY <2>5, LookupCallsNext
  <2> QED BY <2>1, <2>2, <2>3, <2>4, <2>5 DEF Capability, Pipelined
<1> HIDE DEF input
<1>2. CapsIn(steps \o Call(resolveToolIdForCapability(c), input, OutputKey(c)), used \cup {c}, E)
  BY <1>1, CapThen
<1> QED BY <1>2 DEF WithStepOf, input

-----------------------------------------------------------------------------
(* The steps of a list of capabilities.                                    *)

IsStepsOf(steps, caps, goal, base, n) ==
    steps = [k \in 0..n |-> IF k = 0 THEN base ELSE WithStepOf(caps[k], steps[k - 1], goal)]

(* The steps are defined for every place in the list.                      *)
LEMMA StepsOfExist ==
    ASSUME NEW caps, NEW goal, NEW base, NEW n \in Nat
    PROVE  \E steps : IsStepsOf(steps, caps, goal, base, n)
<1> DEFINE Is(steps, k) == IsStepsOf(steps, caps, goal, base, k)
           T == {k \in Nat : ~ \E steps : Is(steps, k)}
<1>1. SUFFICES ASSUME T # {} PROVE FALSE
  BY DEF T
<1>2. PICK k \in T : \A j \in T : k <= j
  BY <1>1, LeastOf
<1>3. k # 0
  <2>1. Is([i \in 0..0 |-> base], 0)
    BY DEF IsStepsOf
  <2> QED BY <2>1
<1>4. PICK steps : Is(steps, k - 1)
  <2>1. k - 1 \in Nat /\ ~ (k <= k - 1)
    BY <1>3
  <2> QED BY <1>2, <2>1
<1> DEFINE longer == [i \in 0..k |-> IF i = 0 THEN base
                                     ELSE WithStepOf(caps[i], steps[i - 1], goal)]
<1>5. Is(longer, k)
  <2>0. steps = [i \in 0..(k - 1) |-> IF i = 0 THEN base
                                      ELSE WithStepOf(caps[i], steps[i - 1], goal)]
    BY <1>4 DEF IsStepsOf
  <2>1. \A i \in 0..k : i # 0 => longer[i - 1] = steps[i - 1]
    <3> SUFFICES ASSUME NEW i \in 0..k, i # 0 PROVE longer[i - 1] = steps[i - 1]
      OBVIOUS
    <3>1. i - 1 \in 0..k /\ i - 1 \in 0..(k - 1)
      OBVIOUS
    <3> QED BY <2>0, <3>1
  <2> HIDE DEF longer
  <2>2. longer = [i \in 0..k |-> IF i = 0 THEN base
                                 ELSE WithStepOf(caps[i], steps[i - 1], goal)]
    BY DEF longer
  <2>3. longer = [i \in 0..k |-> IF i = 0 THEN base
                                 ELSE WithStepOf(caps[i], longer[i - 1], goal)]
    BY <2>1, <2>2
  <2> QED BY <2>3 DEF IsStepsOf
<1> QED BY <1>5

(* CapabilitySteps are the last of them.                                   *)
LEMMA StepsOfAll ==
    ASSUME NEW caps, Len(caps) \in Nat, NEW goal, NEW base
    PROVE  \E steps : /\ IsStepsOf(steps, caps, goal, base, Len(caps))
                      /\ CapabilitySteps(caps, goal, base) = steps[Len(caps)]
<1> DEFINE steps == CHOOSE f : f = [n \in 0..Len(caps) |->
                                       IF n = 0 THEN base ELSE WithStepOf(caps[n], f[n - 1], goal)]
<1>1. steps = [n \in 0..Len(caps) |-> IF n = 0 THEN base
                                      ELSE WithStepOf(caps[n], steps[n - 1], goal)]
  BY StepsOfExist DEF IsStepsOf
<1>2. CapabilitySteps(caps, goal, base) = steps[Len(caps)]
  BY DEF CapabilitySteps
<1> HIDE DEF steps
<1> QED BY <1>1, <1>2 DEF IsStepsOf

(* No capability adds no step.                                             *)
LEMMA NoCapability ==
    ASSUME NEW goal, NEW base
    PROVE  CapabilitySteps(<< >>, goal, base) = base
<1> DEFINE caps == << >>
<1>1. Len(caps) = 0
  OBVIOUS
<1> HIDE DEF caps
<1>2. PICK steps : /\ IsStepsOf(steps, caps, goal, base, 0)
                   /\ CapabilitySteps(caps, goal, base) = steps[0]
  BY <1>1, StepsOfAll
<1>3. steps[0] = base
  BY <1>2 DEF IsStepsOf
<1> QED BY <1>2, <1>3 DEF caps

(* One more capability adds its step.                                      *)
LEMMA OneMoreCapability ==
    ASSUME NEW caps, isArray(caps), NEW c, NEW goal, NEW base
    PROVE  CapabilitySteps(caps \o << c >>, goal, base) =
               WithStepOf(c, CapabilitySteps(caps, goal, base), goal)
<1> DEFINE more == caps \o << c >>
           n == Len(caps)
<1>1. /\ n \in Nat /\ Len(more) = n + 1 /\ \A i \in 1..n : more[i] = caps[i]
      /\ more[n + 1] = c
  BY OneStep, ArraysConcat
<1>2. PICK f : IsStepsOf(f, caps, goal, base, n) /\ CapabilitySteps(caps, goal, base) = f[n]
  BY <1>1, StepsOfAll
<1> HIDE DEF more
<1>3. PICK g : IsStepsOf(g, more, goal, base, n + 1) /\ CapabilitySteps(more, goal, base) = g[n + 1]
  BY <1>1, StepsOfAll
<1> HIDE DEF n
<1>4. /\ f[0] = base
      /\ \A k \in 1..n : f[k] = WithStepOf(caps[k], f[k - 1], goal)
  BY <1>1, <1>2 DEF IsStepsOf
<1>5. /\ g[0] = base
      /\ \A k \in 1..n : g[k] = WithStepOf(caps[k], g[k - 1], goal)
      /\ g[n + 1] = WithStepOf(c, g[n], goal)
  <2>1. \A k \in 0..(n + 1) :
           g[k] = IF k = 0 THEN base ELSE WithStepOf(more[k], g[k - 1], goal)
    BY <1>3 DEF IsStepsOf
  <2>2. \A k \in 1..(n + 1) : g[k] = WithStepOf(more[k], g[k - 1], goal)
    BY <2>1
  <2>3. n + 1 \in 1..(n + 1) /\ (n + 1) - 1 = n /\ 1..n \subseteq 1..(n + 1) /\ 0 \in 0..(n + 1)
    BY <1>1
  <2> QED BY <1>1, <2>1, <2>2, <2>3
<1>6. f[n] = g[n]
  <2> DEFINE T == {k \in 0..n : f[k] # g[k]}
  <2>1. SUFFICES ASSUME T # {} PROVE FALSE
    <3>1. T = {}
      BY <2>1
    <3>2. n \in 0..n /\ n \notin T
      BY <1>1, <3>1
    <3> QED BY <3>2
  <2>2. PICK k \in T : \A j \in T : k <= j
    <3>1. T \subseteq Nat
      OBVIOUS
    <3> HIDE DEF T
    <3> QED BY <2>1, <3>1, LeastOf
  <2>3. k \in 1..n
    BY <1>4, <1>5, <2>2
  <2>4. f[k - 1] = g[k - 1]
    <3>1. k - 1 \in 0..n /\ ~ (k <= k - 1)
      BY <1>1, <2>3
    <3> QED BY <2>2, <3>1
  <2> QED BY <1>4, <1>5, <2>2, <2>3, <2>4
<1> QED BY <1>2, <1>3, <1>5, <1>6 DEF more

(* A list of capabilities whose steps are a pipeline.                      *)
Builds(caps, used, goal, base, m) ==
    /\ isArray(caps) /\ ToSet(caps) = used /\ used \subseteq Capability
    /\ Len(caps) <= m
    /\ LET steps == CapabilitySteps(caps, goal, base)
       IN  CapsIn(steps, used, LongGoal(goal)) /\ Len(steps) = Len(base) + Len(caps)

(* It goes on with what is ready, under a condition.                       *)
LEMMA BuildsMore ==
    ASSUME NEW caps, NEW used, NEW goal, NEW base, Len(base) \in Nat, NEW m \in Nat,
           Builds(caps, used, goal, base, m),
           NEW c \in Capability, NEW b \in BOOLEAN, b => Ready(used, c)
    PROVE  Builds(caps \o When(b, c), used \cup {d \in {c} : b}, goal, base, m + 1)
<1> DEFINE steps == CapabilitySteps(caps, goal, base)
           more == caps \o << c >>
           n == Len(caps)
<1>1. isArray(caps) /\ ToSet(caps) = used /\ used \subseteq Capability /\ n <= m
  BY DEF Builds
<1>2. CapsIn(steps, used, LongGoal(goal)) /\ Len(steps) = Len(base) + n
  BY DEF Builds
<1>3. /\ isArray(more) /\ n \in Nat /\ Len(more) = n + 1 /\ DOMAIN caps = 1..n
      /\ DOMAIN more = 1..(n + 1) /\ more[n + 1] = c /\ \A i \in 1..n : more[i] = caps[i]
  BY <1>1, OneStep, ArraysConcat
<1>4. CASE b
  <2>1. caps \o When(b, c) = more /\ used \cup {d \in {c} : b} = used \cup {c}
    BY <1>4 DEF When
  <2>2. CapabilitySteps(more, goal, base) = WithStepOf(c, steps, goal)
    BY <1>1, OneMoreCapability
  <2> HIDE DEF steps
  <2>3. CapsIn(WithStepOf(c, steps, goal), used \cup {c}, LongGoal(goal))
    BY <1>1, <1>2, <1>4, NextCapability
  <2>4. Len(WithStepOf(c, steps, goal)) = Len(base) + (n + 1)
    <3> DEFINE call == Call(resolveToolIdForCapability(c), CapabilityInput(c, steps, goal),
                            OutputKey(c))
    <3>1. isArray(call) /\ Len(call) = 1
      BY OneStep DEF Call
    <3>2. isArray(steps)
      BY <1>2 DEF CapsIn, Good
    <3>3. WithStepOf(c, steps, goal) = steps \o call
      BY DEF WithStepOf
    <3> HIDE DEF call
    <3>4. Len(steps \o call) = Len(steps) + Len(call)
      BY <3>1, <3>2, ArraysConcat
    <3> QED BY <1>2, <1>3, <3>1, <3>3, <3>4
  <2> HIDE DEF more
  <2>5. ToSet(more) = used \cup {c}
    <3>1. ToSet(more) = {more[i] : i \in 1..(n + 1)} /\ ToSet(caps) = {caps[i] : i \in 1..n}
      BY <1>3 DEF ToSet
    <3>2. {more[i] : i \in 1..(n + 1)} = {caps[i] : i \in 1..n} \cup {c}
      BY <1>3
    <3> QED BY <1>1, <3>1, <3>2
  <2>6. Len(more) <= m + 1
    BY <1>1, <1>3
  <2> HIDE DEF n
  <2>7. Builds(more, used \cup {c}, goal, base, m + 1)
    BY <1>1, <1>3, <2>2, <2>3, <2>4, <2>5, <2>6 DEF Builds
  <2> QED BY <2>1, <2>7
<1>5. CASE ~ b
  <2>1. When(b, c) = << >> /\ used \cup {d \in {c} : b} = used
    BY <1>5 DEF When
  <2>2. caps \o << >> = caps
    <3>1. caps \in Seq(used)
      BY <1>1 DEF isArray
    <3> QED BY <3>1
  <2>3. n <= m + 1
    BY <1>1, <1>3
  <2>4. Builds(caps, used, goal, base, m + 1)
    BY <2>3 DEF Builds
  <2> QED BY <2>1, <2>2, <2>4
<1> QED BY <1>4, <1>5

-----------------------------------------------------------------------------
(* The pipeline of a goal.                                                 *)

(* A list of capabilities of pipelines.                                    *)
IsPipeline(caps) == isArray(caps) /\ ToSet(caps) \subseteq Pipelined

(* Such a list goes on with a capability, under a condition.               *)
LEMMA PipelineMore ==
    ASSUME NEW caps, IsPipeline(caps), NEW c \in Pipelined, NEW b
    PROVE  IsPipeline(caps \o When(b, c))
<1> DEFINE more == caps \o << c >>
           n == Len(caps)
<1>1. isArray(caps) /\ ToSet(caps) \subseteq Pipelined
  BY DEF IsPipeline
<1>2. /\ isArray(more) /\ n \in Nat /\ DOMAIN caps = 1..n
      /\ DOMAIN more = 1..(n + 1) /\ more[n + 1] = c /\ \A i \in 1..n : more[i] = caps[i]
  BY <1>1, OneStep, ArraysConcat
<1>3. CASE b
  <2>1. caps \o When(b, c) = more
    BY <1>3 DEF When
  <2> HIDE DEF more
  <2>2. ToSet(more) \subseteq ToSet(caps) \cup {c}
    <3>1. ToSet(more) = {more[i] : i \in 1..(n + 1)} /\ ToSet(caps) = {caps[i] : i \in 1..n}
      BY <1>2 DEF ToSet
    <3>2. {more[i] : i \in 1..(n + 1)} \subseteq {caps[i] : i \in 1..n} \cup {c}
      BY <1>2
    <3> QED BY <3>1, <3>2
  <2> QED BY <1>1, <1>2, <2>1, <2>2 DEF IsPipeline
<1>4. CASE ~ b
  <2>1. When(b, c) = << >>
    BY <1>4 DEF When
  <2>2. caps \o << >> = caps
    <3>1. caps \in Seq(ToSet(caps))
      BY <1>1 DEF isArray
    <3> QED BY <3>1
  <2> QED BY <2>1, <2>2
<1> QED BY <1>3, <1>4

(* One capability, under a condition.                                      *)
LEMMA PipelineOfOne ==
    ASSUME NEW c \in Pipelined, NEW b
    PROVE  IsPipeline(When(b, c))
<1>1. isArray(<< c >>) /\ ToSet(<< c >>) = {c}
  <2> DEFINE list == << c >>
  <2>1. isArray(list) /\ DOMAIN list = {1} /\ list[1] = c
    BY OneStep
  <2> HIDE DEF list
  <2> QED BY <2>1 DEF ToSet, list
<1>2. isArray(<< >>) /\ ToSet(<< >>) = {}
  BY DEF isArray, ToSet
<1> QED BY <1>1, <1>2 DEF IsPipeline, When

(* What a goal asks for: capabilities of a pipeline, or one alone.         *)
LEMMA AskedFor ==
    ASSUME NEW goal
    PROVE  LET caps == synthesizeCapabilitiesFromGoal(goal)
           IN  \/ IsPipeline(caps) /\ caps # << >>
               \/ caps = << "math.add" >>
               \/ caps = << "echo" >>
<1> DEFINE alone == "product" \in goal /\ goal \cap {"price", "availability"} = {}
           s1 == When("normalize" \in goal, "text.normalize")
           s2 == s1 \o When("extract" \in goal, "json.extract")
           s3 == s2 \o When("select" \in goal, "json.select")
           s4 == s3 \o When("merge" \in goal, "json.merge")
           s5 == s4 \o When("order" \in goal, "orders.find-by-id")
           s6 == s5 \o When("availability" \in goal, "catalog.availability-find")
           s7 == s6 \o When("price" \in goal, "catalog.price-find")
           s8 == s7 \o When(alone, "catalog.product-find")
           s9 == s8 \o When(mentionsKnowledge(goal) \/ alone, "kb.find-by-product-name")
<1>0. Pipelined = {"catalog.product-find", "catalog.price-find", "catalog.availability-find",
                   "orders.find-by-id", "kb.find-by-product-name", "text.normalize", "json.extract",
                   "json.select", "json.merge"}
  BY DEF Pipelined
<1>1. IsPipeline(s1)
  BY <1>0, PipelineOfOne
<1> HIDE DEF s1
<1>2. IsPipeline(s2)
  BY <1>0, <1>1, PipelineMore
<1> HIDE DEF s2
<1>3. IsPipeline(s3)
  BY <1>0, <1>2, PipelineMore
<1> HIDE DEF s3
<1>4. IsPipeline(s4)
  BY <1>0, <1>3, PipelineMore
<1> HIDE DEF s4
<1>5. IsPipeline(s5)
  BY <1>0, <1>4, PipelineMore
<1> HIDE DEF s5
<1>6. IsPipeline(s6)
  BY <1>0, <1>5, PipelineMore
<1> HIDE DEF s6
<1>7. IsPipeline(s7)
  BY <1>0, <1>6, PipelineMore
<1> HIDE DEF s7, alone
<1>8. IsPipeline(s8)
  BY <1>0, <1>7, PipelineMore
<1> HIDE DEF s8
<1>9. IsPipeline(s9)
  BY <1>0, <1>8, PipelineMore
<1>10. synthesizeCapabilitiesFromGoal(goal) =
           IF s9 # << >> THEN s9
           ELSE IF "math" \in goal THEN << "math.add" >> ELSE << "echo" >>
  BY DEF synthesizeCapabilitiesFromGoal, s1, s2, s3, s4, s5, s6, s7, s8, s9, alone
<1> HIDE DEF s9
<1> QED BY <1>9, <1>10

(* The capabilities of a goal in their order, with what they need.         *)
Wanted(has) ==
    has \cup {c \in {"json.extract"} : has \cap {"json.select", "json.merge"} # {}}
        \cup {c \in {"json.select"} : "json.merge" \in has}

(* The list insertRequiredCapabilities makes.                              *)
LEMMA InOrder ==
    ASSUME NEW caps, IsPipeline(caps)
    PROVE  LET w == Wanted(ToSet(caps))
           IN  /\ insertRequiredCapabilities(caps).capabilities =
                      When("catalog.product-find" \in w, "catalog.product-find")
                      \o When("catalog.price-find" \in w, "catalog.price-find")
                      \o When("catalog.availability-find" \in w, "catalog.availability-find")
                      \o When("orders.find-by-id" \in w, "orders.find-by-id")
                      \o When("kb.find-by-product-name" \in w, "kb.find-by-product-name")
                      \o When("text.normalize" \in w, "text.normalize")
                      \o When("json.extract" \in w, "json.extract")
                      \o When("json.select" \in w, "json.select")
                      \o When("json.merge" \in w, "json.merge")
               /\ w \subseteq Pipelined /\ ToSet(caps) \subseteq w
               /\ "json.select" \in w \/ "json.merge" \in w => "json.extract" \in w
               /\ "json.merge" \in w => "json.select" \in w
<1> DEFINE has == ToSet(caps)
           w == Wanted(has)
<1>1. has \subseteq Pipelined
  BY DEF IsPipeline
<1> HIDE DEF has
<1>2. has \cap {"math.add", "echo"} = {}
  BY <1>1 DEF Pipelined
<1>3. \A c \in Pipelined \ {"json.extract", "json.select"} : c \in has <=> c \in w
  BY DEF Wanted
<1>4. /\ has \cap {"json.extract", "json.select", "json.merge"} # {} <=> "json.extract" \in w
      /\ has \cap {"json.select", "json.merge"} # {} <=> "json.select" \in w
  BY DEF Wanted
<1>5. /\ w \subseteq Pipelined /\ has \subseteq w
      /\ "json.select" \in w \/ "json.merge" \in w => "json.extract" \in w
      /\ "json.merge" \in w => "json.select" \in w
  BY <1>1 DEF Wanted, Pipelined
<1> HIDE DEF w
<1>6. When(has \cap {"json.extract", "json.select", "json.merge"} # {}, "json.extract")
          = When("json.extract" \in w, "json.extract")
  BY <1>4 DEF When
<1>7. When(has \cap {"json.select", "json.merge"} # {}, "json.select")
           = When("json.select" \in w, "json.select")
  BY <1>4 DEF When
<1>8. \A c \in Pipelined \ {"json.extract", "json.select"} :
           When(c \in has, c) = When(c \in w, c)
  BY <1>3 DEF When
<1>9. /\ When("catalog.product-find" \in has, "catalog.product-find")
             = When("catalog.product-find" \in w, "catalog.product-find")
      /\ When("catalog.price-find" \in has, "catalog.price-find")
             = When("catalog.price-find" \in w, "catalog.price-find")
      /\ When("catalog.availability-find" \in has, "catalog.availability-find")
             = When("catalog.availability-find" \in w, "catalog.availability-find")
      /\ When("orders.find-by-id" \in has, "orders.find-by-id")
             = When("orders.find-by-id" \in w, "orders.find-by-id")
      /\ When("kb.find-by-product-name" \in has, "kb.find-by-product-name")
             = When("kb.find-by-product-name" \in w, "kb.find-by-product-name")
      /\ When("text.normalize" \in has, "text.normalize")
             = When("text.normalize" \in w, "text.normalize")
      /\ When("json.merge" \in has, "json.merge")
             = When("json.merge" \in w, "json.merge")
  <2>1. {"catalog.product-find", "catalog.price-find", "catalog.availability-find", "orders.find-by-id",
         "kb.find-by-product-name", "text.normalize", "json.merge"}
            \subseteq Pipelined \ {"json.extract", "json.select"}
    BY DEF Pipelined
  <2> QED BY ONLY <1>8, <2>1, Zenon
<1>10. insertRequiredCapabilities(caps).capabilities =
          When("catalog.product-find" \in has, "catalog.product-find")
          \o When("catalog.price-find" \in has, "catalog.price-find")
          \o When("catalog.availability-find" \in has, "catalog.availability-find")
          \o When("orders.find-by-id" \in has, "orders.find-by-id")
          \o When("kb.find-by-product-name" \in has, "kb.find-by-product-name")
          \o When("text.normalize" \in has, "text.normalize")
          \o When(has \cap {"json.extract", "json.select", "json.merge"} # {}, "json.extract")
          \o When(has \cap {"json.select", "json.merge"} # {}, "json.select")
          \o When("json.merge" \in has, "json.merge")
  BY <1>2 DEF insertRequiredCapabilities, has
<1>11. insertRequiredCapabilities(caps).capabilities =
          When("catalog.product-find" \in w, "catalog.product-find")
          \o When("catalog.price-find" \in w, "catalog.price-find")
          \o When("catalog.availability-find" \in w, "catalog.availability-find")
          \o When("orders.find-by-id" \in w, "orders.find-by-id")
          \o When("kb.find-by-product-name" \in w, "kb.find-by-product-name")
          \o When("text.normalize" \in w, "text.normalize")
          \o When("json.extract" \in w, "json.extract")
          \o When("json.select" \in w, "json.select")
          \o When("json.merge" \in w, "json.merge")
  BY ONLY <1>6, <1>7, <1>9, <1>10, Zenon
<1> QED BY <1>5, <1>11 DEF w, has

(* The steps a pipeline starts with.                                       *)
PipelineBase(goal) == AboutGoal(goal, "cap-synth") \o Log("planned")

(* They call no tool.                                                      *)
LEMMA BaseIsPipeline ==
    ASSUME NEW goal
    PROVE  CapsIn(PipelineBase(goal), {}, LongGoal(goal)) /\ Len(PipelineBase(goal)) = 3
<1> DEFINE V == ValuesOf(rawJson)
           E == LongGoal(goal)
           a == AboutGoal(goal, "cap-synth")
           b == Log("planned")
           base == a \o b
<1>1. "cap-synth" \in Intent
  BY DEF Intent
<1>2. Piece(a, V, {}, {}, E, 2) /\ Piece(b, V, {}, {}, E, 1)
  BY <1>1, AboutGoalPiece, LogPiece
<1>3. DOMAIN a = 1..2 /\ \A i \in 1..2 : a[i].kind = "set" /\ "kind" \in DOMAIN a[i]
  BY DEF AboutGoal, SetGoal, Set
<1>4. DOMAIN b = 1..1 /\ \A i \in 1..1 : b[i].kind = "append_log" /\ "kind" \in DOMAIN b[i]
  BY DEF Log, AppendLog
<1> HIDE DEF a, b, V, E
<1>5. Piece(base, V, {}, {}, E, 3)
  BY <1>2, Sums, PieceAndPiece
<1>6. /\ DOMAIN base = 1..3 /\ (\A i \in 1..2 : base[i] = a[i])
      /\ (\A i \in 1..1 : base[2 + i] = b[i])
  <2>1. isArray(a) /\ isArray(b) /\ Len(a) = 2 /\ Len(b) = 1
    BY <1>2 DEF Piece, Good
  <2>2. /\ DOMAIN base = 1..(Len(a) + Len(b)) /\ (\A i \in 1..Len(a) : base[i] = a[i])
        /\ (\A i \in 1..Len(b) : base[Len(a) + i] = b[i])
    <3>1. isArray(a) /\ isArray(b)
      BY <2>1
    <3> QED BY ONLY <3>1, ArraysConcat
  <2> HIDE DEF base
  <2>3. Len(a) + Len(b) = 3
    BY <2>1
  <2> QED BY <2>1, <2>2, <2>3, Zenon
<1>7. base[1] = a[1] /\ base[2] = a[2] /\ base[3] = b[1]
  <2>1. 2 + 1 = 3 /\ 1 \in 1..2 /\ 2 \in 1..2 /\ 1 \in 1..1
    OBVIOUS
  <2> HIDE DEF base
  <2>2. base[2 + 1] = b[1]
    BY <1>6, <2>1
  <2> QED BY <1>6, <2>1, <2>2
<1> HIDE DEF base
<1>8. \A i \in DOMAIN base : base[i].kind \in {"set", "append_log"} /\ "kind" \in DOMAIN base[i]
  <2> SUFFICES ASSUME NEW i \in 1..3
               PROVE  base[i].kind \in {"set", "append_log"} /\ "kind" \in DOMAIN base[i]
    BY <1>6
  <2>1. CASE i \in 1..2
    BY <1>3, <1>6, <2>1
  <2>2. CASE i = 3
    BY <1>4, <1>7, <2>2
  <2> QED BY <2>1, <2>2
<1>9. producedOutputKeys(base) = {} /\ KeysOf({}) = {}
  BY <1>8 DEF producedOutputKeys, isProducerStep, KeysOf
<1>10. validateStepDependencies(base)
  BY <1>8 DEF validateStepDependencies, DuplicateOutputKey, ProducerNotFound, OutOfOrder,
              isProducerStep, StepRefs
<1>11. CapsIn(base, {}, E)
  BY <1>5, <1>8, <1>9, <1>10 DEF CapsIn, Piece, V, Shaped, Obeys
<1> QED BY <1>5, <1>11 DEF Piece, PipelineBase, base, a, b, E

(* No capability is a pipeline.                                            *)
LEMMA BuildsNone ==
    ASSUME NEW goal
    PROVE  Builds(<< >>, {}, goal, PipelineBase(goal), 0)
<1> DEFINE none == << >>
<1>1. none = [i \in 1..0 |-> none[i]]
  OBVIOUS
<1> HIDE DEF none
<1>2. isArray(none) /\ Len(none) = 0 /\ ToSet(none) = {}
  <2>1. isArray(none) /\ Len(none) = 0 /\ ToSet(none) = {none[i] : i \in 1..0}
    BY <1>1, ListIsArray
  <2>2. {none[i] : i \in 1..0} = {}
    OBVIOUS
  <2> QED BY <2>1, <2>2
<1>3. CapabilitySteps(none, goal, PipelineBase(goal)) = PipelineBase(goal)
  BY NoCapability DEF none
<1>4. CapsIn(PipelineBase(goal), {}, LongGoal(goal)) /\ Len(PipelineBase(goal)) = 3
  BY BaseIsPipeline
<1>5. Len(PipelineBase(goal)) = Len(PipelineBase(goal)) + Len(none)
  BY <1>2, <1>4
<1> HIDE DEF none
<1>6. Builds(none, {}, goal, PipelineBase(goal), 0)
  BY <1>2, <1>3, <1>4, <1>5 DEF Builds
<1> QED BY <1>6 DEF none

(* One capability alone.                                                   *)
LEMMA BuildsOne ==
    ASSUME NEW goal, NEW c \in {"math.add", "echo"}
    PROVE  Builds(<< c >>, {c}, goal, PipelineBase(goal), 1)
<1>1. c \in Capability /\ Ready({}, c) /\ Len(PipelineBase(goal)) \in Nat
  BY BaseIsPipeline DEF Capability, Ready
<1>2. Builds(<< >> \o When(TRUE, c), {} \cup {d \in {c} : TRUE}, goal, PipelineBase(goal), 0 + 1)
  BY <1>1, BuildsNone, BuildsMore
<1>3. << >> \o When(TRUE, c) = << c >> /\ {} \cup {d \in {c} : TRUE} = {c} /\ 0 + 1 = 1
  BY DEF When
<1> QED BY <1>2, <1>3

(* Capabilities of W go on with the next one of W.                         *)
LEMMA BuildsNext ==
    ASSUME NEW caps, NEW W, NEW P, NEW Q, NEW goal, NEW m \in Nat, NEW n,
           Builds(caps, W \cap P, goal, PipelineBase(goal), m),
           NEW c \in Capability, c \in W => Ready(W \cap P, c), Q = P \cup {c}, n = m + 1
    PROVE  Builds(caps \o When(c \in W, c), W \cap Q, goal, PipelineBase(goal), n)
<1>1. Len(PipelineBase(goal)) \in Nat
  BY BaseIsPipeline
<1> DEFINE b == c \in W
           used == W \cap P
<1>2. b \in BOOLEAN /\ (b => Ready(used, c)) /\ Builds(caps, used, goal, PipelineBase(goal), m)
  OBVIOUS
<1>3. used \cup {d \in {c} : b} = W \cap Q
  OBVIOUS
<1> HIDE DEF b, used
<1>4. Builds(caps \o When(b, c), used \cup {d \in {c} : b}, goal, PipelineBase(goal), m + 1)
  BY <1>1, <1>2, BuildsMore
<1> QED BY <1>3, <1>4 DEF b

(* The pipeline in its order.                                              *)
LEMMA PipelineBuilds ==
    ASSUME NEW caps, IsPipeline(caps), NEW goal
    PROVE  Builds(insertRequiredCapabilities(caps).capabilities, Wanted(ToSet(caps)), goal,
                  PipelineBase(goal), 9)
<1> DEFINE W == Wanted(ToSet(caps))
           c1 == "catalog.product-find"
           c2 == "catalog.price-find"
           c3 == "catalog.availability-find"
           c4 == "orders.find-by-id"
           c5 == "kb.find-by-product-name"
           c6 == "text.normalize"
           c7 == "json.extract"
           c8 == "json.select"
           c9 == "json.merge"
           s1 == When(c1 \in W, c1)
           s2 == s1 \o When(c2 \in W, c2)
           s3 == s2 \o When(c3 \in W, c3)
           s4 == s3 \o When(c4 \in W, c4)
           s5 == s4 \o When(c5 \in W, c5)
           s6 == s5 \o When(c6 \in W, c6)
           s7 == s6 \o When(c7 \in W, c7)
           s8 == s7 \o When(c8 \in W, c8)
           s9 == s8 \o When(c9 \in W, c9)
<1>1. /\ insertRequiredCapabilities(caps).capabilities = s9
      /\ W \subseteq Pipelined
      /\ c8 \in W \/ c9 \in W => c7 \in W
      /\ c9 \in W => c8 \in W
  BY InOrder
<1>2. /\ Pipelined = {c1, c2, c3, c4, c5, c6, c7, c8, c9} /\ Pipelined \subseteq Capability
      /\ c1 \in Capability /\ c2 \in Capability /\ c3 \in Capability /\ c4 \in Capability
      /\ c5 \in Capability /\ c6 \in Capability /\ c7 \in Capability /\ c8 \in Capability
      /\ c9 \in Capability
  BY DEF Pipelined, Capability
<1> DEFINE p1 == {c1}
           p2 == p1 \cup {c2}
           p3 == p2 \cup {c3}
           p4 == p3 \cup {c4}
           p5 == p4 \cup {c5}
           p6 == p5 \cup {c6}
           p7 == p6 \cup {c7}
           p8 == p7 \cup {c8}
           p9 == p8 \cup {c9}
<1>3. /\ Ready(W \cap {}, c1) /\ Ready(W \cap p1, c2) /\ Ready(W \cap p2, c3)
      /\ Ready(W \cap p3, c4) /\ Ready(W \cap p4, c5) /\ Ready(W \cap p5, c6)
      /\ Ready(W \cap p6, c7)
      /\ c8 \in W => Ready(W \cap p7, c8)
      /\ c9 \in W => Ready(W \cap p8, c9)
  BY <1>1 DEF Ready
<1>4. W \cap p9 = W
  BY <1>1, <1>2
<1>5. /\ Builds(<< >>, W \cap {}, goal, PipelineBase(goal), 0)
      /\ << >> \o s1 = s1 /\ p1 = {} \cup {c1}
  <2>1. W \cap {} = {}
    OBVIOUS
  <2>2. << >> \o s1 = s1
    BY DEF When
  <2> HIDE DEF s1
  <2> QED BY <2>1, <2>2, BuildsNone
<1>6. /\ 1 = 0 + 1 /\ 2 = 1 + 1 /\ 3 = 2 + 1 /\ 4 = 3 + 1 /\ 5 = 4 + 1 /\ 6 = 5 + 1
      /\ 7 = 6 + 1 /\ 8 = 7 + 1 /\ 9 = 8 + 1
  OBVIOUS
<1> HIDE DEF c1, c2, c3, c4, c5, c6, c7, c8, c9, W, p1
<1>11. Builds(<< >> \o When(c1 \in W, c1), W \cap p1, goal, PipelineBase(goal), 1)
  BY <1>2, <1>3, <1>5, <1>6, BuildsNext
<1>12. Builds(s1, W \cap p1, goal, PipelineBase(goal), 1)
  BY <1>5, <1>11
<1> HIDE DEF s1, p2
<1>13. Builds(s2, W \cap p2, goal, PipelineBase(goal), 2)
  BY <1>2, <1>3, <1>6, <1>12, BuildsNext DEF p2
<1> HIDE DEF s2, p3
<1>14. Builds(s3, W \cap p3, goal, PipelineBase(goal), 3)
  BY <1>2, <1>3, <1>6, <1>13, BuildsNext DEF p3
<1> HIDE DEF s3, p4
<1>15. Builds(s4, W \cap p4, goal, PipelineBase(goal), 4)
  BY <1>2, <1>3, <1>6, <1>14, BuildsNext DEF p4
<1> HIDE DEF s4, p5
<1>16. Builds(s5, W \cap p5, goal, PipelineBase(goal), 5)
  BY <1>2, <1>3, <1>6, <1>15, BuildsNext DEF p5
<1> HIDE DEF s5, p6
<1>17. Builds(s6, W \cap p6, goal, PipelineBase(goal), 6)
  BY <1>2, <1>3, <1>6, <1>16, BuildsNext DEF p6
<1> HIDE DEF s6, p7
<1>18. Builds(s7, W \cap p7, goal, PipelineBase(goal), 7)
  BY <1>2, <1>3, <1>6, <1>17, BuildsNext DEF p7
<1> HIDE DEF s7, p8
<1>19. Builds(s8, W \cap p8, goal, PipelineBase(goal), 8)
  BY <1>2, <1>3, <1>6, <1>18, BuildsNext DEF p8
<1> HIDE DEF s8, p9
<1>20. Builds(s9, W \cap p9, goal, PipelineBase(goal), 9)
  BY <1>2, <1>3, <1>6, <1>19, BuildsNext DEF p9
<1> QED BY <1>1, <1>4, <1>20 DEF W

(* A step of the plan of a pipeline: one of the steps, under its letter,   *)
(* or one for the log.                                                     *)
Stands(step, steps, i) ==
    \/ i \in DOMAIN steps /\ IsLettered(step, steps[i])
    \/ i \notin DOMAIN steps /\ step.kind = "append_log"

(* Under its letter a step is what it was to the checks on references.     *)
LEMMA SameUnderLetter ==
    ASSUME NEW step, NEW lettered, IsLettered(lettered, step), Shaped(step)
    PROVE  /\ lettered.kind = step.kind
           /\ isProducerStep(lettered) <=> isProducerStep(step)
           /\ isProducerStep(step) => lettered.outputKey = step.outputKey
           /\ \A key : Produces(lettered, key) <=> Produces(step, key)
           /\ StepRefs(lettered) = StepRefs(step)
           /\ \A keys : Obeys(step, keys) => Obeys(lettered, keys)
<1>1. lettered.kind = step.kind
  BY DEF IsLettered, Shaped
<1>2. step.kind = "tool.call" =>
          lettered.toolId = step.toolId /\ lettered.input = step.input
          /\ lettered.outputKey = step.outputKey
  BY DEF IsLettered, Shaped
<1> QED BY <1>1, <1>2 DEF isProducerStep, Produces, StepRefs, Obeys, Takes, Shaped

(* What the builder validates holds of the plan.                           *)
LEMMA PlanValidates ==
    ASSUME NEW E, NEW steps, NEW used, CapsIn(steps, used, E), NEW plan,
           DOMAIN steps \subseteq DOMAIN plan,
           \A i \in DOMAIN plan : Stands(plan[i], steps, i)
    PROVE  validateRequiredDerivedInputs(plan, CanonicalDerivedInputs)
<1>1. /\ validateStepDependencies(steps) /\ producedOutputKeys(steps) = KeysOf(used)
      /\ \A i \in DOMAIN steps : Shaped(steps[i]) /\ Obeys(steps[i], KeysOf(used))
  BY DEF CapsIn
<1>2. \A i \in DOMAIN steps : IsLettered(plan[i], steps[i])
  BY DEF Stands
<1>3. ASSUME NEW i \in DOMAIN steps
      PROVE  /\ isProducerStep(plan[i]) <=> isProducerStep(steps[i])
             /\ isProducerStep(steps[i]) => plan[i].outputKey = steps[i].outputKey
             /\ \A key : Produces(plan[i], key) <=> Produces(steps[i], key)
             /\ StepRefs(plan[i]) = StepRefs(steps[i])
             /\ \A keys : Obeys(steps[i], keys) => Obeys(plan[i], keys)
  BY <1>1, <1>2, SameUnderLetter
<1>4. ASSUME NEW i \in DOMAIN plan, i \notin DOMAIN steps
      PROVE  /\ ~ isProducerStep(plan[i]) /\ StepRefs(plan[i]) = {}
             /\ \A key : ~ Produces(plan[i], key)
             /\ \A keys : Obeys(plan[i], keys)
  <2>1. plan[i].kind = "append_log"
    BY <1>4 DEF Stands
  <2> QED BY <2>1 DEF isProducerStep, StepRefs, Produces, Obeys
<1>5. producedOutputKeys(plan) = producedOutputKeys(steps)
  <2>1. ASSUME NEW key \in producedOutputKeys(plan) PROVE key \in producedOutputKeys(steps)
    <3>1. PICK i \in DOMAIN plan : isProducerStep(plan[i]) /\ key = plan[i].outputKey
      BY <2>1 DEF producedOutputKeys
    <3>2. i \in DOMAIN steps
      BY <1>4, <3>1
    <3>3. isProducerStep(steps[i]) /\ key = steps[i].outputKey
      BY <1>3, <3>1, <3>2
    <3> QED BY <3>2, <3>3 DEF producedOutputKeys
  <2>2. ASSUME NEW key \in producedOutputKeys(steps) PROVE key \in producedOutputKeys(plan)
    <3>1. PICK i \in DOMAIN steps : isProducerStep(steps[i]) /\ key = steps[i].outputKey
      BY <2>2 DEF producedOutputKeys
    <3>2. i \in DOMAIN plan /\ isProducerStep(plan[i]) /\ key = plan[i].outputKey
      BY <1>3, <3>1
    <3> QED BY <3>2 DEF producedOutputKeys
  <2> QED BY <2>1, <2>2
<1>6. ~ DuplicateOutputKey(plan)
  <2> SUFFICES ASSUME NEW i \in DOMAIN plan, NEW j \in DOMAIN plan, i # j,
                      isProducerStep(plan[i]), Produces(plan[j], plan[i].outputKey)
               PROVE  FALSE
    BY DEF DuplicateOutputKey
  <2>1. i \in DOMAIN steps /\ j \in DOMAIN steps
    BY <1>4
  <2>2. isProducerStep(steps[i]) /\ Produces(steps[j], steps[i].outputKey)
    BY <1>3, <2>1
  <2> QED BY <1>1, <2>1, <2>2 DEF validateStepDependencies, DuplicateOutputKey
<1>7. ~ ProducerNotFound(plan)
  <2> SUFFICES ASSUME NEW i \in DOMAIN plan, NEW ref \in StepRefs(plan[i])
               PROVE  ref.key \in producedOutputKeys(steps)
    BY <1>5 DEF ProducerNotFound
  <2>1. i \in DOMAIN steps
    BY <1>4
  <2>2. ref \in StepRefs(steps[i])
    BY <1>3, <2>1
  <2> QED BY <1>1, <2>1, <2>2 DEF validateStepDependencies, ProducerNotFound
<1>8. ~ OutOfOrder(plan)
  <2> SUFFICES ASSUME NEW i \in DOMAIN plan, NEW j \in DOMAIN plan, j >= i,
                      NEW ref \in StepRefs(plan[i]), Produces(plan[j], ref.key)
               PROVE  FALSE
    BY DEF OutOfOrder
  <2>1. i \in DOMAIN steps /\ j \in DOMAIN steps
    BY <1>4
  <2>2. ref \in StepRefs(steps[i]) /\ Produces(steps[j], ref.key)
    BY <1>3, <2>1
  <2> QED BY <1>1, <2>1, <2>2 DEF validateStepDependencies, OutOfOrder
<1>9. \A i \in DOMAIN plan : Obeys(plan[i], producedOutputKeys(plan))
  BY <1>1, <1>3, <1>4, <1>5
<1> QED BY <1>6, <1>7, <1>8, <1>9, ObeyedRules DEF validateStepDependencies

(* The steps of the plan: those of the pipeline and "done" under letters,  *)
(* with the log of what was inserted between them.                         *)
LEMMA Pushed ==
    ASSUME NEW E, NEW steps, Good(steps, ValuesOf(rawJson), {}, E), Len(steps) \in 3..12,
           NEW inserted
    PROVE  LET plan == PushedSteps(steps, inserted)
               q == steps \o Log("done")
               n == Len(steps)
               e == IF inserted = {} THEN 0 ELSE 1
           IN  /\ isArray(plan) /\ DOMAIN plan = 1..(n + 1 + e)
               /\ \A i \in 1..n : IsLettered(plan[i], q[i]) /\ plan[i].id = i
               /\ e = 1 => plan[n + 1] = AppendLog(idZ, "inserted")
               /\ IsLettered(plan[n + 1 + e], q[n + 1]) /\ plan[n + 1 + e].id = n + 1
<1> DEFINE plan == PushedSteps(steps, inserted)
           q == steps \o Log("done")
           n == Len(steps)
           e == IF inserted = {} THEN 0 ELSE 1
           V == ValuesOf(rawJson)
           lettered == Lettered(q)
           note == appendInsertedCapabilityLog(inserted)
<1>1. Good(q, V, {}, E) /\ isArray(q) /\ Len(q) = n + 1 /\ n \in 3..12
  <2>1. Piece(Log("done"), V, {}, {}, E, 1) /\ Piece(steps, V, {}, {}, E, n)
    BY LogPiece DEF Piece
  <2> HIDE DEF n, V
  <2>2. Piece(q, V, {}, {}, E, n + 1)
    BY <2>1, PieceAndPiece
  <2> QED BY <2>2 DEF Piece, Good, n
<1>2. DOMAIN q = 1..(n + 1)
  BY <1>1, ArrayHasItems
<1> HIDE DEF q, n, V
<1>3. lettered = [i \in 1..(n + 1) |-> [q[i] EXCEPT !.id = i]]
  BY <1>2 DEF Lettered
<1>4. ASSUME NEW i \in 1..(n + 1)
      PROVE  IsLettered(lettered[i], q[i]) /\ lettered[i].id = i
  <2>1. i \in 1..Padded
    BY <1>1 DEF Padded
  <2>2. "id" \in DOMAIN q[i]
    BY <1>1, <1>2 DEF Good, Fits
  <2>3. lettered[i] = [q[i] EXCEPT !.id = i]
    BY <1>3, Zenon
  <2> HIDE DEF lettered
  <2>4. IsLettered([q[i] EXCEPT !.id = i], q[i]) /\ [q[i] EXCEPT !.id = i].id = i
    BY <2>1, <2>2, Lettering
  <2> QED BY <2>3, <2>4, Zenon
<1>5. lettered = [i \in 1..(n + 1) |-> lettered[i]]
  BY <1>3, Zenon
<1> HIDE DEF lettered
<1>6. isArray(lettered) /\ Len(lettered) = n + 1 /\ DOMAIN lettered = 1..(n + 1)
  BY <1>1, <1>5, ListIsArray
<1> DEFINE front == SubSeq(lettered, 1, n)
           last == << lettered[n + 1] >>
<1>7. isArray(front) /\ Len(front) = n /\ \A i \in 1..n : front[i] = lettered[i]
  <2>1. lettered \in Seq(ToSet(lettered))
    BY <1>6 DEF isArray
  <2>2. /\ front \in Seq(ToSet(lettered)) /\ Len(front) = n
        /\ \A i \in 1..n : front[i] = lettered[i]
    BY <1>1, <1>6, <2>1
  <2> HIDE DEF front
  <2>3. front = [i \in 1..n |-> front[i]]
    BY <2>2
  <2>4. isArray(front)
    BY <1>1, <2>3, ListIsArray
  <2> QED BY <2>2, <2>4
<1>8. isArray(last) /\ Len(last) = 1 /\ last[1] = lettered[n + 1]
  BY OneStep
<1>9. plan = (front \o note) \o last
  BY <1>6 DEF PushedSteps, lettered, q, n
<1>10. isArray(note) /\ Len(note) = e /\ (e = 1 => note[1] = AppendLog(idZ, "inserted"))
  <2>1. CASE inserted = {}
    <3>1. note = << >>
      BY <2>1 DEF appendInsertedCapabilityLog, When
    <3>2. isArray(<< >>) /\ Len(<< >>) = 0
      BY DEF isArray
    <3> QED BY <2>1, <3>1, <3>2
  <2>2. CASE inserted # {}
    <3>1. note = << AppendLog(idZ, "inserted") >>
      BY <2>2 DEF appendInsertedCapabilityLog, When
    <3>2. e = 1
      BY <2>2
    <3> HIDE DEF note
    <3> QED BY <3>1, <3>2, OneStep
  <2> QED BY <2>1, <2>2
<1>11. e \in 0..1
  OBVIOUS
<1> HIDE DEF plan, front, last, note, e
<1>12. /\ isArray(front \o note) /\ Len(front \o note) = n + e
       /\ \A i \in 1..n : (front \o note)[i] = front[i]
       /\ \A i \in 1..e : (front \o note)[n + i] = note[i]
  BY <1>7, <1>10, ArraysConcat
<1> DEFINE most == front \o note
<1>13. /\ isArray(most) /\ Len(most) = n + e
       /\ \A i \in 1..n : most[i] = lettered[i]
       /\ e = 1 => most[n + 1] = AppendLog(idZ, "inserted")
  BY <1>7, <1>10, <1>12
<1>14. plan = most \o last
  BY <1>9
<1> HIDE DEF most
<1>15. /\ isArray(plan) /\ DOMAIN plan = 1..((n + e) + 1)
       /\ \A i \in 1..(n + e) : plan[i] = most[i]
       /\ plan[(n + e) + 1] = lettered[n + 1]
  <2> DEFINE whole == most \o last
  <2>1. /\ isArray(whole) /\ DOMAIN whole = 1..(Len(most) + Len(last))
        /\ \A i \in 1..Len(most) : whole[i] = most[i]
        /\ \A i \in 1..Len(last) : whole[Len(most) + i] = last[i]
    <3>1. isArray(most) /\ isArray(last)
      BY <1>8, <1>13
    <3> QED BY ONLY <3>1, ArraysConcat
  <2>2. plan = whole
    BY <1>14
  <2> HIDE DEF whole
  <2>3. 1 \in 1..Len(last) /\ Len(last) = 1 /\ Len(most) = n + e
    BY <1>8, <1>13
  <2>4. whole[Len(most) + 1] = last[1]
    BY <2>1, <2>3
  <2> QED BY <1>8, <2>1, <2>2, <2>3, <2>4
<1>16. (n + e) + 1 = n + 1 + e
  BY <1>1, <1>11
<1>17. \A i \in 1..n : plan[i] = lettered[i]
  BY <1>1, <1>11, <1>13, <1>15
<1>18. e = 1 => plan[n + 1] = AppendLog(idZ, "inserted")
  BY <1>1, <1>13, <1>15
<1>19. n + 1 \in 1..(n + 1) /\ 1..n \subseteq 1..(n + 1)
  BY <1>1
<1>20. \A i \in 1..n : IsLettered(plan[i], q[i]) /\ plan[i].id = i
  BY <1>4, <1>17, <1>19
<1>21. IsLettered(plan[n + 1 + e], q[n + 1]) /\ plan[n + 1 + e].id = n + 1
  BY <1>4, <1>15, <1>16, <1>19
<1> QED BY <1>15, <1>16, <1>18, <1>20, <1>21 DEF plan, q, n, e

(* The plan of a pipeline passes its validation, and runs.                 *)
LEMMA PushedRuns ==
    ASSUME NEW E, NEW steps, NEW used, CapsIn(steps, used, E), Len(steps) \in 3..12,
           NEW inserted, NEW maxSteps \in Nat
    PROVE  LET plan == Plan(PushedSteps(steps, inserted))
           IN  /\ validateRequiredDerivedInputs(plan.steps, CanonicalDerivedInputs)
               /\ RunsUnless(plan, maxSteps, E)
<1> DEFINE V == ValuesOf(rawJson)
           list == PushedSteps(steps, inserted)
           q == steps \o Log("done")
           n == Len(steps)
           e == IF inserted = {} THEN 0 ELSE 1
           note == AppendLog(0, "inserted")
           done == AppendLog(0, "done")
<1>1. Good(steps, V, {}, E) /\ isArray(steps) /\ n \in 3..12
  BY DEF CapsIn, Good
<1>2. /\ isArray(list) /\ DOMAIN list = 1..(n + 1 + e)
      /\ \A i \in 1..n : IsLettered(list[i], q[i]) /\ list[i].id = i
      /\ e = 1 => list[n + 1] = AppendLog(idZ, "inserted")
      /\ IsLettered(list[n + 1 + e], q[n + 1]) /\ list[n + 1 + e].id = n + 1
  BY <1>1, Pushed
<1>3. e \in 0..1 /\ DOMAIN steps = 1..n
  BY <1>1, ArrayHasItems
<1>4. (\A i \in 1..n : q[i] = steps[i]) /\ q[n + 1] = done
  <2> DEFINE last == Log("done")
  <2>1. isArray(last) /\ Len(last) = 1 /\ last[1] = done
    BY OneStep DEF Log
  <2> HIDE DEF last, done
  <2>2. /\ \A i \in 1..Len(steps) : (steps \o last)[i] = steps[i]
        /\ \A i \in 1..Len(last) : (steps \o last)[Len(steps) + i] = last[i]
    BY ONLY <1>1, <2>1, ArraysConcat
  <2>3. 1 \in 1..Len(last)
    BY <2>1
  <2> QED BY <2>1, <2>2, <2>3 DEF last
<1>5. "id" \in DOMAIN note /\ "id" \in DOMAIN done /\ done.kind = "append_log" /\ "kind" \in DOMAIN done
  BY DEF AppendLog
<1>6. Fits(note, V, {}, E) /\ Fits(done, V, {}, E)
  <2>1. normalizeStringStrict("inserted") /\ normalizeStringStrict("done")
    BY ShortTexts
  <2> QED BY <2>1, AppendLogFits
<1>7. IsLettered(AppendLog(idZ, "inserted"), note) /\ AppendLog(idZ, "inserted").id = 26
  <2> DEFINE step == AppendLog(idZ, "inserted")
  <2>1. /\ step = [field \in DOMAIN step |-> step[field]] /\ step.id = 26
        /\ \A field \in DOMAIN note \ {"id"} : step[field] = note[field]
    <3>1. step = [field \in DOMAIN step |-> step[field]]
      BY DEF AppendLog
    <3>2. step.id = 26
      BY DEF AppendLog, idZ
    <3>3. /\ DOMAIN note = {"id", "kind", "value", "irregular"}
          /\ step["kind"] = note["kind"] /\ step["value"] = note["value"]
          /\ step["irregular"] = note["irregular"]
      BY DEF AppendLog
    <3> HIDE DEF step, note
    <3> QED BY <3>1, <3>2, <3>3
  <2>2. 26 \in 1..Padded
    BY DEF Padded
  <2> HIDE DEF step, note
  <2>3. [step EXCEPT !.id = 26] = step
    BY <2>1, Zenon
  <2>4. normalizeStepRaw(step) = step
    BY <2>1, <2>2, <2>3, LettersAreIds, Zenon DEF normalizeStepRaw
  <2>5. IsLettered(step, note)
    BY <2>1, <2>2, <2>4 DEF IsLettered
  <2> QED BY <2>1, <2>5 DEF step
<1>8. AppendLog(idZ, "inserted").kind = "append_log"
  BY DEF AppendLog
<1> HIDE DEF list, q, n, e, note, done, V
<1>9. \A i \in DOMAIN list : i \in 1..n \/ (i = n + 1 /\ e = 1) \/ i = n + 1 + e
  BY <1>1, <1>2, <1>3
<1>10. /\ 1..n \subseteq DOMAIN list /\ n + 1 + e \in DOMAIN list
       /\ n + 1 \notin 1..n /\ n + 1 + e \notin 1..n
  BY <1>1, <1>2, <1>3
<1>11. IsLettered(list[n + 1 + e], done)
  BY <1>2, <1>4
<1>12. list[n + 1 + e].kind = "append_log"
  BY <1>5, <1>11 DEF IsLettered
<1>13. ASSUME NEW i \in DOMAIN list PROVE Stands(list[i], steps, i)
  <2>1. CASE i \in 1..n
    BY <1>2, <1>3, <1>4, <2>1 DEF Stands
  <2>2. CASE i = n + 1 /\ e = 1
    BY <1>2, <1>3, <1>8, <1>10, <2>2 DEF Stands
  <2>3. CASE i = n + 1 + e
    BY <1>3, <1>10, <1>12, <2>3 DEF Stands
  <2> QED BY <1>9, <2>1, <2>2, <2>3
<1>14. validateRequiredDerivedInputs(list, CanonicalDerivedInputs)
  BY <1>3, <1>10, <1>13, PlanValidates
<1>15. ASSUME NEW i \in DOMAIN list
       PROVE  Passes(list[i], E) /\ RunsWith(list[i], V, Below(list, i, V), E)
  <2>1. CASE i \in 1..n
    <3>1. Fits(steps[i], V, {} \cup Earlier(steps, i, V), E)
      BY <1>1, <1>3, <2>1 DEF Good
    <3>2. IsLettered(list[i], steps[i])
      BY <1>2, <1>4, <2>1
    <3>3. Passes(list[i], E) /\ RunsWith(list[i], V, {} \cup Earlier(steps, i, V), E)
      BY <3>1, <3>2 DEF Fits
    <3>4. {} \cup Earlier(steps, i, V) \subseteq Below(list, i, V)
      <4> SUFFICES ASSUME NEW k \in DOMAIN V, NEW j \in 1..(i - 1), Produces(steps[j], k)
                   PROVE  k \in Below(list, i, V)
        BY DEF Earlier
      <4>1. j \in 1..n /\ j < i
        BY <1>1, <2>1
      <4>2. IsLettered(list[j], steps[j]) /\ list[j].id < list[i].id
        BY <1>2, <1>4, <2>1, <4>1
      <4>3. Produces(list[j], k)
        BY <1>1, <1>3, <4>1, <4>2 DEF Good, Fits
      <4> QED BY <1>10, <4>1, <4>2, <4>3 DEF Below
    <3> QED BY <3>3, <3>4, RunsWithMore
  <2>2. CASE i = n + 1 /\ e = 1
    <3>1. Passes(list[i], E) /\ RunsWith(list[i], V, {}, E)
      BY <1>2, <1>6, <1>7, <2>2 DEF Fits
    <3> QED BY <3>1, RunsWithMore
  <2>3. CASE i = n + 1 + e
    <3>1. Passes(list[i], E) /\ RunsWith(list[i], V, {}, E)
      BY <1>6, <1>11, <2>3 DEF Fits
    <3> QED BY <3>1, RunsWithMore
  <2> QED BY <1>9, <2>1, <2>2, <2>3
<1>16. ASSUME NEW i \in DOMAIN list, NEW j \in DOMAIN list, list[i].id = list[j].id
       PROVE  i = j
  <2>1. \A k \in DOMAIN list :
           \/ k \in 1..n /\ list[k].id = k
           \/ k = n + 1 /\ e = 1 /\ list[k].id = 26
           \/ k = n + 1 + e /\ list[k].id = n + 1
    BY <1>2, <1>7, <1>9
  <2> QED BY <1>1, <1>3, <1>16, <2>1
<1> DEFINE plan == Plan(list)
<1>17. plan.version = 1 /\ plan.steps = list
  BY DEF Plan
<1>18. list # << >>
  BY <1>10
<1>19. isNonEmptyString(plan.planId) /\ plan.planId # TooLong
  <2>1. plan.planId = "plan"
    BY DEF Plan
  <2>2. normalizeStringStrict("plan")
    BY Zenon DEF normalizeStringStrict, TooLong
  <2> QED BY <2>1, <2>2, StrictStrings
<1> HIDE DEF plan
<1>20. RunsUnless(plan, maxSteps, E)
  BY <1>2, <1>15, <1>16, <1>17, <1>18, <1>19, PlansRun
<1> QED BY <1>14, <1>17, <1>20 DEF plan, list

(* A pipeline whose capabilities build.                                    *)
LEMMA BuiltPipelineRuns ==
    ASSUME NEW caps, NEW used, NEW goal, NEW inserted, NEW maxSteps \in Nat,
           Builds(caps, used, goal, PipelineBase(goal), 9), validateCapabilityPipeline(caps)
    PROVE  LET plan == BuildPipeline([capabilities |-> caps, inserted |-> inserted], goal)
           IN  plan.ok /\ RunsUnless(plan.value, maxSteps, LongGoal(goal))
<1> DEFINE pipeline == [capabilities |-> caps, inserted |-> inserted]
           steps == CapabilitySteps(caps, goal, PipelineBase(goal))
           plan == Plan(PushedSteps(steps, inserted))
<1>1. CapsIn(steps, used, LongGoal(goal))
  BY DEF Builds
<1>2. Len(steps) \in 3..12
  <2>1. Len(PipelineBase(goal)) = 3
    BY BaseIsPipeline
  <2>2. Len(caps) \in Nat /\ Len(caps) <= 9 /\ Len(steps) = Len(PipelineBase(goal)) + Len(caps)
    BY ArrayHasItems DEF Builds
  <2> HIDE DEF steps
  <2> QED BY <2>1, <2>2
<1>3. pipeline.capabilities = caps /\ pipeline.inserted = inserted
  OBVIOUS
<1> HIDE DEF pipeline
<1>4. PlanOfPipeline(pipeline, goal) = plan
  BY <1>3 DEF PlanOfPipeline, PipelineBase
<1> HIDE DEF steps
<1>5. /\ validateRequiredDerivedInputs(plan.steps, CanonicalDerivedInputs)
      /\ RunsUnless(plan, maxSteps, LongGoal(goal))
  BY <1>1, <1>2, PushedRuns
<1> HIDE DEF plan
<1>6. BuildPipeline(pipeline, goal) = Gives(plan)
  BY <1>3, <1>4, <1>5 DEF BuildPipeline, Validated
<1> QED BY <1>5, <1>6, PlanOrError DEF pipeline

(* The plan made of a goal that asks for capabilities.                     *)
LEMMA SynthRuns ==
    ASSUME NEW goal, NEW maxSteps \in Nat
    PROVE  LET plan == buildCapabilitySynthPlan(goal)
           IN  plan.ok /\ RunsUnless(plan.value, maxSteps, LongGoal(goal))
<1> DEFINE asked == synthesizeCapabilitiesFromGoal(goal)
           pipeline == normalizeCapabilityPipelineDetailed(asked)
<1>1. buildCapabilitySynthPlan(goal) = BuildPipeline(pipeline, goal)
  BY DEF buildCapabilitySynthPlan
<1>2. (IsPipeline(asked) /\ asked # << >>) \/ asked = << "math.add" >> \/ asked = << "echo" >>
  BY AskedFor
<1> HIDE DEF asked
<1>3. ASSUME NEW caps, NEW inserted, NEW used, pipeline = [capabilities |-> caps, inserted |-> inserted],
             Builds(caps, used, goal, PipelineBase(goal), 9), validateCapabilityPipeline(caps)
      PROVE  LET plan == buildCapabilitySynthPlan(goal)
             IN  plan.ok /\ RunsUnless(plan.value, maxSteps, LongGoal(goal))
  <2> HIDE DEF pipeline
  <2> QED BY <1>1, <1>3, BuiltPipelineRuns
<1>4. ASSUME NEW c \in {"math.add", "echo"}
      PROVE  /\ ToSet(<< c >>) = {c} /\ validateCapabilityPipeline(<< c >>)
             /\ Builds(<< c >>, {c}, goal, PipelineBase(goal), 9)
  <2> DEFINE list == << c >>
  <2>1. isArray(list) /\ Len(list) = 1 /\ DOMAIN list = {1} /\ list[1] = c
    BY OneStep
  <2>2. Builds(list, {c}, goal, PipelineBase(goal), 1)
    BY BuildsOne
  <2> HIDE DEF list
  <2>3. ToSet(list) = {c}
    BY <2>1 DEF ToSet
  <2>4. validateCapabilityPipeline(list)
    BY <2>1, <2>3 DEF validateCapabilityPipeline
  <2>5. Builds(list, {c}, goal, PipelineBase(goal), 9)
    BY <2>1, <2>2 DEF Builds
  <2> QED BY <2>3, <2>4, <2>5 DEF list
<1>5. CASE asked = << "math.add" >>
  <2>1. pipeline = [capabilities |-> << "math.add" >>, inserted |-> {}]
    BY <1>4, <1>5 DEF normalizeCapabilityPipelineDetailed
  <2> HIDE DEF pipeline
  <2> QED BY <1>3, <1>4, <2>1
<1>6. CASE asked = << "echo" >>
  <2>1. ToSet(asked) = {"echo"}
    BY <1>4, <1>6
  <2>2. pipeline = [capabilities |-> << "echo" >>, inserted |-> {}]
    BY <1>6, <2>1 DEF normalizeCapabilityPipelineDetailed, insertRequiredCapabilities
  <2> HIDE DEF pipeline
  <2> QED BY <1>3, <1>4, <2>2
<1>7. CASE IsPipeline(asked) /\ asked # << >>
  <2> DEFINE has == ToSet(asked)
             made == insertRequiredCapabilities(asked)
             caps == made.capabilities
             used == Wanted(has)
  <2>1. isArray(asked) /\ has \subseteq Pipelined
    BY <1>7 DEF IsPipeline
  <2>2. has # {}
    <3>1. Len(asked) \in Nat /\ has = {asked[i] : i \in 1..Len(asked)} /\ asked \in Seq(has)
      BY <2>1, ArrayHasItems DEF isArray
    <3>2. Len(asked) # 0
      BY <1>7, <3>1
    <3>3. 1 \in 1..Len(asked)
      BY <3>1, <3>2
    <3> QED BY <3>1, <3>3
  <2>3. pipeline = made /\ \E inserted : made = [capabilities |-> caps, inserted |-> inserted]
    <3>1. "math.add" \notin has /\ has \cap {"math.add", "echo"} = {}
      BY <2>1 DEF Pipelined
    <3>2. pipeline = made
      BY <3>1 DEF normalizeCapabilityPipelineDetailed
    <3>3. \E out, inserted : made = [capabilities |-> out, inserted |-> inserted]
      BY <3>1 DEF insertRequiredCapabilities
    <3> QED BY <3>2, <3>3
  <2>4. Builds(caps, used, goal, PipelineBase(goal), 9)
    BY <1>7, PipelineBuilds
  <2>5. /\ used \subseteq Pipelined /\ has \subseteq used
        /\ "json.select" \in used \/ "json.merge" \in used => "json.extract" \in used
        /\ "json.merge" \in used => "json.select" \in used
    BY <1>7, InOrder
  <2> HIDE DEF caps, used, has, pipeline
  <2>6. ToSet(caps) = used
    BY <2>4 DEF Builds
  <2>7. validateCapabilityPipeline(caps)
    BY <2>2, <2>5, <2>6 DEF validateCapabilityPipeline, Pipelined
  <2> QED BY <1>3, <2>3, <2>4, <2>7
<1> QED BY <1>2, <1>5, <1>6, <1>7

-----------------------------------------------------------------------------
(* Every planner.                                                          *)

(* More may be told of what a run may end with.                            *)
LEMMA RunsUnlessMore ==
    ASSUME NEW plan, NEW maxSteps, NEW E, NEW F, RunsUnless(plan, maxSteps, E), E \subseteq F
    PROVE  RunsUnless(plan, maxSteps, F)
<1>1. \A e \in E \ {TooLong} : e \in F \ {TooLong}
  OBVIOUS
<1> QED BY <1>1, Zenon DEF RunsUnless

(* The plans of the mock provider.                                         *)
LEMMA MockProviderRuns ==
    ASSUME NEW goal, NEW maxSteps \in Nat
    PROVE  LET plan == buildPlanViaMockProvider(goal)
           IN  plan.ok /\ RunsUnless(plan.value, maxSteps, LongGoal(goal))
<1> DEFINE E == LongGoal(goal)
           intent == deriveIntent(goal)
           calls == CallsOfIntent(goal, intent)
<1>1. CASE intent = "cap-synth"
  <2>1. buildPlanViaMockProvider(goal) = buildCapabilitySynthPlan(goal)
    BY <1>1 DEF buildPlanViaMockProvider
  <2> QED BY <2>1, SynthRuns
<1>2. CASE intent # "cap-synth"
  <2>1. intent \in Intent /\ intent \in Intent \ {"cap-synth"}
    BY <1>2, GoalsHaveIntent
  <2>2. buildPlanViaMockProvider(goal) = Gives(Planned(goal, intent, calls))
    BY <1>2 DEF buildPlanViaMockProvider
  <2> HIDE DEF intent
  <2>3. PICK text : \E n \in 1..3 : Piece(calls, ValuesOf(text), {}, {}, E, n)
    BY <2>1, CallsPiece
  <2>4. PICK n \in 1..3 : Piece(calls, ValuesOf(text), {}, {}, E, n)
    BY <2>3
  <2> HIDE DEF calls
  <2>5. RunsUnless(Planned(goal, intent, calls), maxSteps, E)
    BY <2>1, <2>4, PlannedRuns
  <2> QED BY <2>2, <2>5, PlanOrError
<1> QED BY <1>1, <1>2

(* What a run of a goal that asks for the missing tool may end with.       *)
MayMiss(goal) == IF "missingtool" \in goal THEN {"tool_not_found"} ELSE {}

(* The plans of the mock model.                                            *)
LEMMA LlmMockRuns ==
    ASSUME NEW goal, NEW lastErrorCode, NEW maxSteps \in Nat
    PROVE  LET plan == LlmMockPlanner(goal, lastErrorCode)
               L == LongGoal(goal) \cup LongCode(lastErrorCode)
           IN  /\ plan.ok
               /\ RunsUnless(plan.value, maxSteps, L \cup MayMiss(goal))
               /\ IsToolError(lastErrorCode) => RunsUnless(plan.value, maxSteps, L)
<1> DEFINE intent == deriveIntent(goal)
           plan == LlmMockPlanner(goal, lastErrorCode)
           L == LongGoal(goal) \cup LongCode(lastErrorCode)
           M == MayMiss(goal)
<1>1. intent \in Intent
  BY GoalsHaveIntent
<1>2. L \subseteq L \cup M /\ LongGoal(goal) \subseteq L /\ LongCode(lastErrorCode) \subseteq L
  OBVIOUS
<1>3. CASE IsToolError(lastErrorCode)
  <2>1. plan = Gives(Replanned(goal, intent, lastErrorCode))
    BY <1>3 DEF LlmMockPlanner
  <2> HIDE DEF intent, plan, L, M
  <2>2. RunsUnless(Replanned(goal, intent, lastErrorCode), maxSteps, L)
    BY <1>1, <1>2, ReplannedRuns
  <2>3. plan.ok /\ RunsUnless(plan.value, maxSteps, L)
    BY <2>1, <2>2, PlanOrError
  <2>4. RunsUnless(plan.value, maxSteps, L \cup M)
    BY <1>2, <2>3, RunsUnlessMore
  <2> QED BY <2>3, <2>4 DEF plan, L, M
<1>4. CASE ~ IsToolError(lastErrorCode) /\ "missingtool" \in goal
  <2> DEFINE E == L \cup M
  <2>1. plan = Gives(Planned(goal, intent, MissingTool))
    BY <1>4 DEF LlmMockPlanner
  <2>2. "tool_not_found" \in E /\ LongGoal(goal) \subseteq E
    BY <1>4 DEF MayMiss
  <2> HIDE DEF intent, plan, E
  <2>3. Piece(MissingTool, ValuesOf(rawJson), {}, {}, E, 1) /\ 1 \in 1..3
    BY <2>2, MissingToolPiece
  <2>4. RunsUnless(Planned(goal, intent, MissingTool), maxSteps, E)
    BY <1>1, <2>2, <2>3, PlannedRuns
  <2>5. plan.ok /\ RunsUnless(plan.value, maxSteps, E)
    BY <2>1, <2>4, PlanOrError
  <2> QED BY <1>4, <2>5 DEF plan, E
<1>5. CASE ~ IsToolError(lastErrorCode) /\ "missingtool" \notin goal
  <2>1. plan = buildPlanViaMockProvider(goal)
    BY <1>5 DEF LlmMockPlanner
  <2>2. LongGoal(goal) \subseteq L \cup M
    OBVIOUS
  <2> HIDE DEF plan, L, M
  <2>3. plan.ok /\ RunsUnless(plan.value, maxSteps, LongGoal(goal))
    BY <2>1, MockProviderRuns
  <2>4. RunsUnless(plan.value, maxSteps, L \cup M)
    BY <2>2, <2>3, RunsUnlessMore
  <2> QED BY <1>5, <2>3, <2>4 DEF plan, L, M
<1> QED BY <1>3, <1>4, <1>5

(* The plans of the planner of tools.                                      *)
LEMMA DetToolsAlwaysRuns ==
    ASSUME NEW goal, NEW maxSteps \in Nat
    PROVE  LET plan == DetToolsPlanner(goal)
           IN  plan.ok /\ RunsUnless(plan.value, maxSteps, LongGoal(goal) \cup MayMiss(goal))
<1> DEFINE plan == DetToolsPlanner(goal)
           E == LongGoal(goal) \cup MayMiss(goal)
<1>1. LongGoal(goal) \subseteq E /\ ("missingtool" \in goal => "tool_not_found" \in E)
  BY DEF MayMiss
<1>2. CASE "missingtool" \notin goal /\ "loop" \notin goal /\ deriveIntent(goal) = "cap-synth"
  <2>1. plan = buildCapabilitySynthPlan(goal)
    BY <1>2 DEF DetToolsPlanner
  <2> HIDE DEF plan, E
  <2>2. plan.ok /\ RunsUnless(plan.value, maxSteps, LongGoal(goal))
    BY <2>1, SynthRuns
  <2>3. RunsUnless(plan.value, maxSteps, E)
    BY <1>1, <2>2, RunsUnlessMore
  <2> QED BY <2>2, <2>3 DEF plan, E
<1>3. CASE ~ ("missingtool" \notin goal /\ "loop" \notin goal /\ deriveIntent(goal) = "cap-synth")
  <2> HIDE DEF E
  <2>1. plan.ok /\ RunsUnless(plan.value, maxSteps, E)
    BY <1>1, <1>3, DetToolsRuns
  <2> QED BY <2>1 DEF E
<1> QED BY <1>2, <1>3

(* Told of the missing tool, the mock model does without it.  What its own *)
(* run ends with is never too long to be told.                             *)
LEMMA Replanned2Runs ==
    ASSUME NEW input, input.maxSteps \in Nat
    PROVE  LET plan == Replanned2(input)
           IN  plan.ok /\ RunsUnless(plan.value, input.maxSteps,
                                     LongGoal(input.goal) \cup LongCode(input.lastErrorCode))
<1> DEFINE goal == input.goal
           maxSteps == input.maxSteps
           first == LlmMockPlanner(goal, input.lastErrorCode)
           run == runAgent(first.value, maxSteps)
           code == CodeOf(run)
           second == LlmMockPlanner(goal, code)
           L == LongGoal(goal) \cup LongCode(input.lastErrorCode)
           M == MayMiss(goal)
<1>1. first.ok /\ RunsUnless(first.value, maxSteps, L \cup M)
  BY LlmMockRuns
<1>2. Replanned2(input) = IF IsToolError(code) THEN second ELSE first
  BY <1>1 DEF Replanned2, Tried, ToldOf, PlanOfLlmMock
<1>3. L \cup M \subseteq {TooLong, "tool_not_found"} /\ TooLong # "tool_not_found"
  BY DEF LongGoal, LongCode, MayMiss, TooLong
<1>4. mapToolErrorCode("tool_not_found") = "TOOL_NOT_FOUND"
  BY DEF mapToolErrorCode
<1> HIDE DEF L, M
<1>5. \/ run.ok \/ run.code = "PLAN_EXCEEDS_MAX_STEPS"
      \/ TooLong \in L \cup M /\ run.code = "PLAN_CANONICALIZATION_FAILED"
      \/ run.code = "TOOL_NOT_FOUND"
  <2>1. \/ run.ok \/ run.code = "PLAN_EXCEEDS_MAX_STEPS"
        \/ TooLong \in L \cup M /\ run.code = "PLAN_CANONICALIZATION_FAILED"
        \/ \E e \in (L \cup M) \ {TooLong} : run.code = mapToolErrorCode(e)
    BY <1>1 DEF RunsUnless
  <2> HIDE DEF run
  <2>2. \A e \in (L \cup M) \ {TooLong} : e = "tool_not_found"
    BY <1>3
  <2> QED BY <1>4, <2>1, <2>2
<1>6. TooLong \in L \cup M => TooLong \in L
  BY DEF M, MayMiss, TooLong
<1> HIDE DEF first, run
<1>7. CASE IsToolError(code)
  <2>1. code \in {"none", "PLAN_EXCEEDS_MAX_STEPS", "PLAN_CANONICALIZATION_FAILED", "TOOL_NOT_FOUND"}
    BY <1>5 DEF CodeOf
  <2>2. code # LongToolError
    BY <2>1 DEF LongToolError
  <2>3. LongGoal(goal) \cup LongCode(code) \subseteq L
    BY <2>2 DEF LongCode, L
  <2> HIDE DEF code, second
  <2>4. second.ok /\ RunsUnless(second.value, maxSteps, LongGoal(goal) \cup LongCode(code))
    BY <1>7, LlmMockRuns DEF second
  <2>5. RunsUnless(second.value, maxSteps, L)
    BY <2>3, <2>4, RunsUnlessMore
  <2> QED BY <1>2, <1>7, <2>4, <2>5 DEF L
<1>8. CASE ~ IsToolError(code)
  <2>1. run.ok \/ run.code # "TOOL_NOT_FOUND"
    BY <1>8 DEF CodeOf, IsToolError
  <2>2. \/ run.ok \/ run.code = "PLAN_EXCEEDS_MAX_STEPS"
        \/ TooLong \in L /\ run.code = "PLAN_CANONICALIZATION_FAILED"
    BY <1>5, <1>6, <2>1
  <2>3. RunsUnless(first.value, maxSteps, L)
    BY <2>2 DEF RunsUnless, run
  <2> QED BY <1>1, <1>2, <1>8, <2>3 DEF L
<1> QED BY <1>7, <1>8

(* What the plan of a request may be too long for.                         *)
TooLongFor(input) ==
    IF input.planner \in {"llm-mock", "det-replan2"}
    THEN LongGoal(input.goal) \cup LongCode(input.lastErrorCode)
    ELSE LongGoal(input.goal)

MissesFor(input) ==
    IF input.planner \in {"det-tools", "llm-mock"} THEN MayMiss(input.goal) ELSE {}

(* The reply to a request whose plan runs.                                 *)
LEMMA RepliesRun ==
    ASSUME NEW input, input.fault = "none", NEW planned, planned.ok, NEW E,
           RunsUnless(planned.value, input.maxSteps, E),
           E \subseteq TooLongFor(input) \cup MissesFor(input)
    PROVE  RunsToItsEnd(input, sendJson(input, planned))
<1> DEFINE run == runAgent(planned.value, input.maxSteps)
           reply == sendJson(input, planned)
<1>1. reply = Reply(200, run.ok, run.code)
  BY DEF sendJson, ReplyOfRun
<1>2. reply.ok = run.ok /\ reply.code = run.code
  BY <1>1 DEF Reply
<1>3. \/ run.ok \/ run.code = "PLAN_EXCEEDS_MAX_STEPS"
      \/ TooLong \in E /\ run.code = "PLAN_CANONICALIZATION_FAILED"
      \/ \E e \in E \ {TooLong} : run.code = mapToolErrorCode(e)
  BY DEF RunsUnless
<1> HIDE DEF run, reply
<1>4. CASE run.ok \/ run.code = "PLAN_EXCEEDS_MAX_STEPS"
  BY <1>2, <1>4 DEF RunsToItsEnd, reply
<1>5. CASE \E e \in E \ {TooLong} : run.code = mapToolErrorCode(e)
  <2>1. PICK e \in E \ {TooLong} : run.code = mapToolErrorCode(e)
    BY <1>5
  <2>2. TooLongFor(input) \subseteq {TooLong}
    BY DEF TooLongFor, LongGoal, LongCode
  <2>3. /\ "missingtool" \in input.goal /\ e = "tool_not_found"
        /\ input.planner \in {"det-tools", "llm-mock"}
    BY <2>1, <2>2 DEF MissesFor, MayMiss
  <2>4. run.code = "TOOL_NOT_FOUND"
    BY <2>1, <2>3 DEF mapToolErrorCode
  <2> QED BY <1>2, <2>3, <2>4 DEF RunsToItsEnd, reply
<1>6. CASE TooLong \in E /\ run.code = "PLAN_CANONICALIZATION_FAILED"
  <2>1. TooLong \notin MissesFor(input)
    BY DEF MissesFor, MayMiss, TooLong
  <2>2. TooLong \in TooLongFor(input)
    BY <1>6, <2>1
  <2>3. HoldsTooMuch(input)
    BY <2>2 DEF TooLongFor, LongGoal, LongCode, HoldsTooMuch
  <2> QED BY <1>2, <1>6, <2>3 DEF RunsToItsEnd, reply
<1> QED BY <1>3, <1>4, <1>5, <1>6

(* Whatever the planner, a request that is not for the model has a plan    *)
(* that runs.                                                              *)
LEMMA PlannersRun ==
    ASSUME NEW input, input.fault = "none", input.planner \in Planner, input.maxSteps \in Nat,
           ~ (Live(input) /\ ModelGiven(input))
    PROVE  RunsToItsEnd(input, sendJson(input, PlannedFor(input)))
<1> DEFINE goal == input.goal
           maxSteps == input.maxSteps
           planned == PlannedFor(input)
           L == LongGoal(goal)
           E == TooLongFor(input) \cup MissesFor(input)
<1>1. ASSUME planned.ok, NEW F, RunsUnless(planned.value, maxSteps, F), F \subseteq E
      PROVE  RunsToItsEnd(input, sendJson(input, planned))
  <2> HIDE DEF planned
  <2> QED BY <1>1, RepliesRun
<1>2. L \subseteq E
  BY DEF TooLongFor
<1> HIDE DEF E, L
<1>3. CASE Live(input)
  <2>1. planned = buildPlanViaMockProvider(goal)
    BY <1>3 DEF PlannedFor, PlanMade, TextGiven
  <2> HIDE DEF planned
  <2>2. planned.ok /\ RunsUnless(planned.value, maxSteps, L)
    BY <2>1, MockProviderRuns DEF L
  <2> QED BY <1>1, <1>2, <2>2 DEF planned
<1>4. CASE ~ Live(input)
  <2>1. planned = selectPlanner(input) /\ input.planner \in Planner \ {"llm-live"}
    BY <1>4 DEF PlannedFor, Live
  <2>2. CASE input.planner = "det-tools"
    <3>1. planned = DetToolsPlanner(goal)
      BY <2>1, <2>2 DEF selectPlanner
    <3> HIDE DEF planned
    <3> DEFINE F == LongGoal(goal) \cup MayMiss(goal)
    <3>2. planned.ok /\ RunsUnless(planned.value, maxSteps, F)
      BY <3>1, DetToolsAlwaysRuns
    <3>3. F \subseteq E
      BY <2>2 DEF E, TooLongFor, MissesFor
    <3> HIDE DEF F
    <3> QED BY <1>1, <3>2, <3>3 DEF planned
  <2>3. CASE input.planner = "llm-mock"
    <3>1. planned = LlmMockPlanner(goal, input.lastErrorCode)
      BY <2>1, <2>3 DEF selectPlanner, PlanOfLlmMock
    <3> HIDE DEF planned
    <3> DEFINE F == (LongGoal(goal) \cup LongCode(input.lastErrorCode)) \cup MayMiss(goal)
    <3>2. planned.ok /\ RunsUnless(planned.value, maxSteps, F)
      BY <3>1, LlmMockRuns
    <3>3. F \subseteq E
      BY <2>3 DEF E, TooLongFor, MissesFor
    <3> HIDE DEF F
    <3> QED BY <1>1, <3>2, <3>3 DEF planned
  <2>4. CASE input.planner = "mock"
    <3> DEFINE plan == MockPlanner(goal, input.demo)
    <3>1. planned = Gives(plan)
      BY <2>1, <2>4 DEF selectPlanner
    <3>2. RunsUnless(plan, maxSteps, L)
      BY MockPlannerRuns DEF L
    <3> HIDE DEF planned, plan
    <3>3. planned.ok /\ RunsUnless(planned.value, maxSteps, L)
      BY <3>1, <3>2, PlanOrError
    <3> QED BY <1>1, <1>2, <3>3 DEF planned
  <2>5. CASE input.planner = "det-replan2"
    <3>1. planned = Replanned2(input)
      BY <2>1, <2>5 DEF selectPlanner
    <3> HIDE DEF planned
    <3> DEFINE F == LongGoal(goal) \cup LongCode(input.lastErrorCode)
    <3>2. planned.ok /\ RunsUnless(planned.value, maxSteps, F)
      BY <3>1, Replanned2Runs
    <3>3. F \subseteq E
      BY <2>5 DEF E, TooLongFor, MissesFor
    <3> HIDE DEF F
    <3> QED BY <1>1, <3>2, <3>3 DEF planned
  <2>6. CASE input.planner \in {"deterministic", "det-replan"}
    <3> DEFINE plan == DeterministicPlanner(goal, input.demo)
    <3>1. planned = Gives(plan)
      BY <2>1, <2>6 DEF selectPlanner
    <3>2. RunsUnless(plan, maxSteps, L)
      BY DeterministicRuns DEF L
    <3> HIDE DEF planned, plan
    <3>3. planned.ok /\ RunsUnless(planned.value, maxSteps, L)
      BY <3>1, <3>2, PlanOrError
    <3> QED BY <1>1, <1>2, <3>3 DEF planned
  <2> QED BY <2>1, <2>2, <2>3, <2>4, <2>5, <2>6 DEF Planner
<1> QED BY <1>3, <1>4

(* Whatever a goal asks for, the plan made of it runs to its end: left are *)
(* the bound on the steps, a goal or an error code too long for a plan,    *)
(* the missing tool, and saves that overlapped.                            *)
THEOREM BuiltPlansAlwaysRun == Spec => []BuiltPlansRun
<1>1. AgentInv /\ PlansAreMade => BuiltPlansRun
  <2> SUFFICES ASSUME AgentInv, PlansAreMade, NEW r \in Request, Ran(r),
                      ~ (Live(req[r].input) /\ ModelGiven(req[r].input))
               PROVE  RunsToItsEnd(req[r].input, ReplyTo(r)) \/ HitByOverlap(r)
    BY DEF BuiltPlansRun
  <2> DEFINE input == req[r].input
  <2>1. /\ input.fault = "none" /\ ~ At(r, "waiting")
        /\ demand \in Demand /\ input \in Inputs[demand][r]
    BY DEF AgentInv, RequestOK, Ran, Answered, At, Waiting
  <2>2. input.maxSteps \in Nat /\ input.planner \in Planner
    BY <2>1, InputAssumption, PlannerAssumption
  <2>3. req[r].planned = PlannedFor(input) \/ HitByOverlap(r)
    BY <2>1 DEF PlansAreMade, NeedsNoModel
  <2>4. RunsToItsEnd(input, sendJson(input, PlannedFor(input)))
    <3> HIDE DEF input
    <3>1. ~ (Live(input) /\ ModelGiven(input))
      BY DEF input
    <3> QED BY <2>1, <2>2, <3>1, PlannersRun
  <2> QED BY <2>3, <2>4 DEF ReplyTo
<1> QED BY <1>1, AgentInvariant, PlansAreAlwaysMade, PTL
=============================================================================
