------------------------ MODULE MCWhatsAppWebhookSync ------------------------
(***************************************************************************)
(* One customer's two messages of the same second, the second a request    *)
(* for a human that the provider also posts alone; and requests the        *)
(* handler refuses.                                                        *)
(***************************************************************************)
EXTENDS WhatsAppWebhookSync

CONSTANTS hello, human,     \* the messages
          ana               \* the customer

MCMessage == {hello, human}
MCCustomerOf == [m \in MCMessage |-> ana]
MCTimeOf == [m \in MCMessage |-> 0]

Get(hubMode, token, challenge) ==
    [method |-> "GET", hubMode |-> hubMode, token |-> token,
     challenge |-> challenge, messages |-> << >>]
Post(signature, body, messages) ==
    [method |-> "POST", signature |-> signature, body |-> body, messages |-> messages]

Payloads == {Post("valid", "whatsapp", << human >>),
             Post("valid", "whatsapp", << hello, human >>)}
Refused == {Get("subscribe", "verify", TRUE), Get("subscribe", "wrong", TRUE),
            Post("invalid", "whatsapp", << hello >>), Post("none", "whatsapp", << hello >>),
            Post("valid", "other", << >>), [method |-> "PUT", messages |-> << >>]}
MCArrival == Payloads \cup Refused

Configuration(s, d) == [store |-> s, delivery |-> d, secret |-> TRUE]
MCMode == {Configuration("none", "skipped"), Configuration("memory", "skipped"),
           Configuration("memory", "http"), Configuration("sqlite", "mock"),
           Configuration("sqlite", "http")}
=============================================================================
