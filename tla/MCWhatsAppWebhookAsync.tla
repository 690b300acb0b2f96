----------------------- MODULE MCWhatsAppWebhookAsync -----------------------
(***************************************************************************)
(* One customer's two messages, the second a request for a human, that     *)
(* arrives with the first in one payload and alone.                        *)
(***************************************************************************)
EXTENDS WhatsAppConversationReplay

CONSTANTS hello, human,     \* the messages
          ana               \* the customer

MCMessage == {hello, human}
MCCustomerOf == [m \in MCMessage |-> ana]
MCBatch == {<< human >>, << hello, human >>}

Configuration(s, d) == [store |-> s, delivery |-> d]
AllModes == {Configuration(s, "http") : s \in {"memory", "sqlite", "postgres"}}
              \cup {Configuration("memory", "skipped")}
PostgresMode == {Configuration("postgres", "http")}
SqliteMode == {Configuration("sqlite", "http")}

OnlyHuman == {<< human >>}
=============================================================================
