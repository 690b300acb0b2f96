---------------------- MODULE WhatsAppConversationReplay ----------------------
(***************************************************************************)
(* The operators' view of a WhatsApp conversation: the endpoints           *)
(* /whatsapp/conversations/:id/journal and .../replay                      *)
(* (src/http/handlers/whatsapp-conversation-journal.ts and                 *)
(* whatsapp-conversation-replay.ts) on the journal the async webhook is    *)
(* writing.  They read and never write, so each is the status it answers   *)
(* with when it runs on the journal of the moment.                         *)
(***************************************************************************)
EXTENDS WhatsAppWebhookAsync, JournalReplay

-----------------------------------------------------------------------------
(* Who asks.  A request may carry a tenant, a subject and scopes; "none",  *)
(* "invalid" and {} stand for a field that is missing or malformed.        *)

Anonymous == [tenantId |-> "none", subjectId |-> "none", scopes |-> {}]

RefusedIdentity == [ok |-> FALSE, tenantId |-> "none", scopes |-> {}]

(* Without a tenant the request is the local developer's; a malformed      *)
(* tenant, subject or scope list is refused.                               *)
CreateRequestIdentity(request) ==
    IF request.tenantId = "none"
    THEN [ok |-> TRUE, tenantId |-> "local-dev", scopes |-> {"*"}]
    ELSE IF request.tenantId = "invalid" \/ request.subjectId \in {"none", "invalid"}
              \/ request.scopes = {}
    THEN RefusedIdentity
    ELSE [ok |-> TRUE, tenantId |-> request.tenantId, scopes |-> request.scopes]

HasRequestScope(identity, requiredScope) ==
    "*" \in identity.scopes \/ requiredScope \in identity.scopes

-----------------------------------------------------------------------------
(* Whose events.                                                           *)

(* The fields the webhook puts into the payload and the metadata of the    *)
(* event of each of its steps.                                             *)
PayloadFields(step) ==
    {"channel", "customerId", "channelMessageId", "requestId"} \cup
    CASE step = "received" -> {"text"}
      [] step = "handedOff" -> {"handoffId", "handoffReasonCode", "handoffQueue",
                                "responseId", "resolvedIntentId", "stage", "status"}
      [] step \in {"processed", "duplicate"} ->
              {"duplicate", "deliveryStatus", "responseId", "resolvedIntentId",
               "stage", "status", "humanInterventionRequired"}

(* The tenant an event names, in its payload or else in its metadata.      *)
ReadEventTenantId(event) ==
    IF "tenantId" \in PayloadFields(event.body) THEN "local-dev" ELSE "none"

CheckReplayTenantOwnership(stored, expectedTenantId) ==
    \A k \in DOMAIN stored : ReadEventTenantId(stored[k]) = expectedTenantId

(* Identity, then scope, then ownership of every event of the session.     *)
AccessStatus(request, requiredScope, stored) ==
    LET identity == CreateRequestIdentity(request) IN
    IF ~ identity.ok THEN 400
    ELSE IF ~ HasRequestScope(identity, requiredScope) THEN 403
    ELSE IF ~ CheckReplayTenantOwnership(stored, identity.tenantId) THEN 403
    ELSE 200

ReplayStatus(replay) == IF replay.ok THEN 200 ELSE 409

HandleGetWhatsAppConversationReplay(c, until, request) ==
    LET access == AccessStatus(request, "replay:read", LoadSessionEvents(journal[c]))
    IN  IF access # 200 THEN access
        ELSE IF until = 0 THEN ReplayStatus(ReplaySession(c, journal[c]))
        ELSE ReplayStatus(ReplayUntilSequence(c, journal[c], until))

(* What-if replay: a non-empty list, each override with one target.  Both  *)
(* replays read the journal twice, for the ownership and for the replay.   *)
ValidateReplayOverrideRequest(overrides) ==
    overrides # << >> /\ \A i \in DOMAIN overrides : BuildOverrideKey(overrides[i])

HandlePostWhatsAppConversationReplayOverride(c, overrides, request) ==
    LET access == AccessStatus(request, "replay:read", LoadSessionEvents(journal[c]))
    IN  IF ~ ValidateReplayOverrideRequest(overrides) THEN 400
        ELSE IF access # 200 THEN access
        ELSE ReplayStatus(ReplayWithOverride(c, journal[c], overrides))

HandleGetWhatsAppConversationJournal(c, request) ==
    AccessStatus(request, "journal:read", LoadSessionEvents(journal[c]))

-----------------------------------------------------------------------------
(* What replays of a growing journal owe their readers.                    *)

(* Contents an operator may try in place of what was recorded.             *)
WhatIf == {"approved", "refused"}

Overrides(rows) ==
    LET last == LatestSequence(rows)
        Keys == {<< "sequence", 1 >>, << "sequence", last >>,
                 << "eventId", rows[1].eventId >>, << "eventId", rows[last].eventId >>}
    IN  [targets : {{key} : key \in Keys} \cup {{}, Keys}, body : WhatIf]

OverrideLists(rows) ==
    {<< a >> : a \in Overrides(rows)} \cup {<< a, b >> : a, b \in Overrides(rows)}

(* A replay up to a sequence number that was found gives the same result,  *)
(* hash included, however many events the webhook appends afterwards.      *)
ReplayIsStable ==
    [][\A c \in Customer : \A n \in DOMAIN journal[c] \cap DOMAIN journal'[c] :
          ReplayUntilSequence(c, journal'[c], n) = ReplayUntilSequence(c, journal[c], n)]_vars

(* The replay hash tells what was tried: two lists of overrides the engine *)
(* accepts have the same hash exactly when they replace the same events by *)
(* the same contents, in whatever order they are given.                    *)
ReplayHashTellsOverrides ==
    [][\A c \in Customer : journal'[c] \notin {journal[c], << >>} =>
        LET stored == LoadSessionEvents(journal'[c])
            Tried == {<< ReplayWithOverride(c, journal'[c], o), Applied(stored, o) >> :
                        o \in OverrideLists(journal'[c])}
        IN  \A x, y \in {t \in Tried : t[1].ok} :
                x[1].replayHash = y[1].replayHash <=> x[2] = y[2]]_vars

(* docs/whatsapp-session-replay-ops-endpoint.md and                        *)
(* docs/journal-replay-engine.md: operators read and replay a customer's   *)
(* journal session, also with overrides; with the events of the webhook as *)
(* their example, they can when the chain is intact.                       *)
IntactSessionsReplay ==
    \A c \in Customer :
        VerifyJournalEventChain(LoadSessionEvents(journal[c])) /\ journal[c] # << >> =>
            /\ HandleGetWhatsAppConversationJournal(c, Anonymous) = 200
            /\ HandleGetWhatsAppConversationReplay(c, 0, Anonymous) = 200
            /\ HandlePostWhatsAppConversationReplayOverride(c,
                  << [targets |-> {<< "sequence", 1 >>}, body |-> "approved"] >>,
                  Anonymous) = 200
=============================================================================
